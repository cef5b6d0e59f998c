------------------------------ MODULE Service ------------------------------
(***************************************************************************)
(* The life of a service process: connections opened one after the other,  *)
(* event consumers started, the server listening, the reconciliation       *)
(* scheduler ticking, and the graceful shutdown a signal begins, possibly  *)
(* while the process is still starting.                                    *)
(*                                                                         *)
(* A process is the ingestor, which has the scheduler, or a service with   *)
(* consumers (media; variant generator and color extractor differ in their *)
(* connections, the gateway also notes that they are open only after it    *)
(* started its consumers). What a cycle or a message handler does is the   *)
(* subject of other modules: here it begins and ends. fastify's listen and *)
(* close are modelled from how index.ts uses them.                         *)
(***************************************************************************)
EXTENDS Naturals

CONSTANTS
  Signal,       \* signals the process has a handler for
  Connections,  \* how many connections it opens, and closes in the end
  Consumers,    \* how many consumers a service with consumers starts
  MaxCleanups   \* bound: bucket cleanups running at one time

ASSUME ServiceAssumption ==
  /\ Connections \in Nat \ {0}
  /\ Consumers \in Nat
  /\ MaxCleanups \in Nat

VARIABLES
  hasScheduler,   \* whether the process is the ingestor
  phase,          \* of start(): "connecting", "listening", "up"; or "exited"
  connection,     \* of each connection: "none", "open" or "closed"
  consumer,       \* of each consumer: "none", "idle", "busy", "ended" or "stopped"
  running,        \* of each consumer: its flag
  intervals,      \* whether the scheduler's intervals are set (isRunning)
  cycle,          \* the job a reconciliation cycle is at, or "none"
  cleanups,       \* bucket cleanups that are running
  handler,        \* of each signal: where its gracefulShutdown is
  closing,        \* where fastify.close is
  isShuttingDown, connectionsInitialized, \* connectionsState
  startedLate     \* history: the scheduler was started after a signal

startVars == <<phase, connectionsInitialized>>
workVars  == <<intervals, cycle, cleanups>>
closeVars == <<handler, closing, isShuttingDown>>
vars == <<hasScheduler, startVars, connection, consumer, running, workVars, closeVars, startedLate>>

Job == {"stuck", "missing", "intents"}
\* The consumers of this process.
Started == IF hasScheduler THEN {} ELSE 1 .. Consumers
AllOpen == \A k \in 1 .. Connections : connection[k] = "open"
Alive == phase # "exited"
Signalled == \E s \in Signal : handler[s] # "none"

\* Types of the process state.
TypeOK ==
  /\ hasScheduler \in BOOLEAN
  /\ phase \in {"connecting", "listening", "up", "exited"}
  /\ connectionsInitialized \in BOOLEAN
  /\ connection \in [1 .. Connections -> {"none", "open", "closed"}]
  /\ consumer \in [1 .. Consumers -> {"none", "idle", "busy", "ended", "stopped"}]
  /\ running \in [1 .. Consumers -> BOOLEAN]
  /\ intervals \in BOOLEAN
  /\ cycle \in Job \union {"none"}
  /\ cleanups \in 0 .. MaxCleanups
  /\ handler \in [Signal -> {"none", "waiting", "closing"}]
  /\ closing \in 0 .. (Consumers + Connections + 1)
  /\ isShuttingDown \in BOOLEAN
  /\ startedLate \in BOOLEAN

Init ==
  /\ hasScheduler \in BOOLEAN
  /\ phase = "connecting"
  /\ connectionsInitialized = FALSE
  /\ connection = [k \in 1 .. Connections |-> "none"]
  /\ consumer = [c \in 1 .. Consumers |-> "none"]
  /\ running = [c \in 1 .. Consumers |-> FALSE]
  /\ intervals = FALSE
  /\ cycle = "none"
  /\ cleanups = 0
  /\ handler = [s \in Signal |-> "none"]
  /\ closing = 0
  /\ isShuttingDown = FALSE
  /\ startedLate = FALSE

----------------------------------------------------------------------------
(* start(): createApp, the signal handlers, listen, the scheduler.         *)

\* BaseConnection.initialize of the next connection; the last one is noted.
Connect(k) ==
  /\ phase = "connecting"
  /\ connection[k] = "none"
  /\ \A j \in 1 .. (k - 1) : connection[j] = "open"
  /\ connection' = [connection EXCEPT ![k] = "open"]
  /\ connectionsInitialized' = (k = Connections)
  /\ UNCHANGED <<phase, consumer, running, workVars, closeVars, startedLate>>

\* BaseEventConsumer.start of the next consumer, once everything is connected.
StartConsumer(c) ==
  /\ c \in Started
  /\ phase = "connecting"
  /\ AllOpen
  /\ consumer[c] = "none"
  /\ \A d \in 1 .. (c - 1) : consumer[d] # "none"
  /\ consumer' = [consumer EXCEPT ![c] = "idle"]
  /\ running' = [running EXCEPT ![c] = TRUE]
  /\ UNCHANGED <<startVars, connection, workVars, closeVars, startedLate>>

\* createApp returns: the signal handlers are registered, listen is called.
AppCreated ==
  /\ phase = "connecting"
  /\ AllOpen
  /\ \A c \in Started : consumer[c] # "none"
  /\ phase' = "listening"
  /\ UNCHANGED <<connectionsInitialized, connection, consumer, running, workVars, closeVars, startedLate>>

\* listen resolves, also when a shutdown has begun meanwhile, and the scheduler starts.
Listening ==
  /\ phase = "listening"
  /\ phase' = "up"
  /\ intervals' = hasScheduler
  /\ startedLate' = (hasScheduler /\ Signalled)
  /\ UNCHANGED <<connectionsInitialized, connection, consumer, running, cycle, cleanups, closeVars>>

\* createApp or listen throws: exit(1), with whatever is open.
StartFails ==
  /\ phase \in {"connecting", "listening"}
  /\ phase' = "exited"
  /\ UNCHANGED <<connectionsInitialized, connection, consumer, running, workVars, closeVars, startedLate>>

----------------------------------------------------------------------------
(* Work.                                                                   *)

\* The reconciliation interval fires; a cycle in progress makes it skip.
CycleTick ==
  /\ Alive
  /\ intervals
  /\ cycle = "none"
  /\ cycle' = "stuck"
  /\ UNCHANGED <<startVars, connection, consumer, running, intervals, cleanups, closeVars, startedLate>>

\* A job of the cycle ends, well or not; after the last, isReconciling is reset.
CycleStep ==
  /\ Alive
  /\ cycle # "none"
  /\ cycle' = CASE cycle = "stuck" -> "missing"
                [] cycle = "missing" -> "intents"
                [] cycle = "intents" -> "none"
  /\ UNCHANGED <<startVars, connection, consumer, running, intervals, cleanups, closeVars, startedLate>>

\* The cleanup interval fires; nothing keeps two cleanups apart.
CleanupTick ==
  /\ Alive
  /\ intervals
  /\ cleanups < MaxCleanups
  /\ cleanups' = cleanups + 1
  /\ UNCHANGED <<startVars, connection, consumer, running, intervals, cycle, closeVars, startedLate>>

CleanupEnds ==
  /\ Alive
  /\ cleanups > 0
  /\ cleanups' = cleanups - 1
  /\ UNCHANGED <<startVars, connection, consumer, running, intervals, cycle, closeVars, startedLate>>

\* The loop of a consumer takes a message unless it was told to stop.
TakeMessage(c) ==
  /\ Alive
  /\ consumer[c] = "idle"
  /\ running[c]
  /\ consumer' = [consumer EXCEPT ![c] = "busy"]
  /\ UNCHANGED <<startVars, connection, running, workVars, closeVars, startedLate>>

MessageDone(c) ==
  /\ Alive
  /\ consumer[c] = "busy"
  /\ consumer' = [consumer EXCEPT ![c] = "idle"]
  /\ UNCHANGED <<startVars, connection, running, workVars, closeVars, startedLate>>

\* The iterator throws: the loop ends, and nothing will start it again.
IteratorFails(c) ==
  /\ Alive
  /\ consumer[c] = "idle"
  /\ running[c]
  /\ consumer' = [consumer EXCEPT ![c] = "ended"]
  /\ running' = [running EXCEPT ![c] = FALSE]
  /\ UNCHANGED <<startVars, connection, workVars, closeVars, startedLate>>

----------------------------------------------------------------------------
(* gracefulShutdown.                                                       *)

\* A signal before its handlers are registered ends the process.
Killed ==
  /\ phase = "connecting"
  /\ phase' = "exited"
  /\ UNCHANGED <<connectionsInitialized, connection, consumer, running, workVars, closeVars, startedLate>>

\* Mutant of StopAndWait: stop is called and not waited for.
StopWithoutWait == "closing"

\* stopAndWait returns at once unless a cycle is running.
StopAndWait == IF cycle = "none" THEN "closing" ELSE "waiting"

\* Mutant of Receive: stop leaves the intervals set.
ReceiveWithIntervals(s) ==
  /\ phase \in {"listening", "up"}
  /\ handler[s] = "none"
  /\ handler' = [handler EXCEPT ![s] = StopAndWait]
  /\ UNCHANGED <<startVars, connection, consumer, running, workVars, closing, isShuttingDown, startedLate>>

\* A signal: the scheduler is stopped, its cycle waited for, the server closed.
Receive(s) ==
  /\ phase \in {"listening", "up"}
  /\ handler[s] = "none"
  /\ intervals' = FALSE
  /\ handler' = [handler EXCEPT ![s] = StopAndWait]
  /\ UNCHANGED <<startVars, connection, consumer, running, cycle, cleanups, closing, isShuttingDown, startedLate>>

Waited(s) ==
  /\ Alive
  /\ handler[s] = "waiting"
  /\ cycle = "none"
  /\ handler' = [handler EXCEPT ![s] = "closing"]
  /\ UNCHANGED <<startVars, connection, consumer, running, workVars, closing, isShuttingDown, startedLate>>

\* fastify.close, called by the first handler to get there, runs onClose.
BeginClose ==
  /\ Alive
  /\ \E s \in Signal : handler[s] = "closing"
  /\ closing = 0
  /\ closing' = IF hasScheduler THEN Consumers + 1 ELSE 1
  /\ isShuttingDown' = TRUE
  /\ UNCHANGED <<startVars, connection, consumer, running, workVars, handler, startedLate>>

\* onClose: stop of the next consumer ends its loop ...
StopConsumer(c) ==
  /\ Alive
  /\ closing = c
  /\ running[c]
  /\ running' = [running EXCEPT ![c] = FALSE]
  /\ UNCHANGED <<startVars, connection, consumer, workVars, closeVars, startedLate>>

\* ... and waits for the message it is at.
ConsumerStopped(c) ==
  /\ Alive
  /\ closing = c
  /\ ~running[c]
  /\ consumer[c] # "busy"
  /\ consumer' = [consumer EXCEPT ![c] = "stopped"]
  /\ closing' = closing + 1
  /\ UNCHANGED <<startVars, connection, running, workVars, handler, isShuttingDown, startedLate>>

\* onClose: close of the next connection, in an order of the service's own.
CloseConnection(k) ==
  /\ Alive
  /\ closing = Consumers + k
  /\ connection' = [connection EXCEPT ![k] = "closed"]
  /\ closing' = closing + 1
  /\ UNCHANGED <<startVars, consumer, running, workVars, handler, isShuttingDown, startedLate>>

\* Everything is closed, or a step of it threw: process.exit.
Exit ==
  /\ Alive
  /\ closing > 0
  /\ phase' = "exited"
  /\ UNCHANGED <<connectionsInitialized, connection, consumer, running, workVars, closeVars, startedLate>>

StartStep ==
  \/ \E k \in 1 .. Connections : Connect(k)
  \/ \E c \in 1 .. Consumers : StartConsumer(c)
  \/ AppCreated
  \/ Listening

WorkStep ==
  \/ CycleStep
  \/ CleanupEnds
  \/ \E c \in 1 .. Consumers : MessageDone(c)

ShutdownStep ==
  \/ \E s \in Signal : Waited(s)
  \/ BeginClose
  \/ \E c \in 1 .. Consumers : StopConsumer(c) \/ ConsumerStopped(c)
  \/ \E k \in 1 .. Connections : CloseConnection(k)
  \/ Exit

ProcessStep ==
  \/ StartStep \/ StartFails
  \/ WorkStep
  \/ CycleTick \/ CleanupTick
  \/ \E c \in 1 .. Consumers : TakeMessage(c) \/ IteratorFails(c)
  \/ Killed
  \/ \E s \in Signal : Receive(s)
  \/ ShutdownStep

Next == ProcessStep /\ UNCHANGED hasScheduler

Spec == Init /\ [][Next]_vars

\* Calls return: what the process awaits, it gets or is told it cannot have.
Fairness ==
  /\ WF_vars(CycleStep /\ Next)
  /\ \A c \in 1 .. Consumers : WF_vars(MessageDone(c) /\ Next)
  /\ WF_vars(ShutdownStep /\ Next)

FairSpec == Spec /\ Fairness

----------------------------------------------------------------------------
(* Properties.                                                             *)

\* No reconciliation job and no message handler works while a connection is
\* closed, unless the scheduler was started after the signal that ended it.
WorksConnected ==
  Alive /\ ~startedLate /\ (cycle # "none" \/ \E c \in 1 .. Consumers : consumer[c] = "busy")
    => AllOpen

\* What /ready reports (connected and not shutting down) is true of the process.
ReadyIsConnected == connectionsInitialized /\ ~isShuttingDown => AllOpen

\* A signal ends the process, whatever it was doing.
ShutdownEnds == \A s \in Signal : (handler[s] # "none") ~> (phase = "exited")

=============================================================================
