--------------------------- MODULE ServiceProofs ---------------------------
(***************************************************************************)
(* Proofs about the life of a service process, for any number of signals,  *)
(* connections and consumers: nothing works on a closed connection, and a  *)
(* process that says it is ready is connected.                             *)
(***************************************************************************)
EXTENDS Service, TLAPS

LEMMA TypeInit == Init => TypeOK
<1> SUFFICES ASSUME Init PROVE TypeOK
  OBVIOUS
<1>1. 0 \in 0 .. MaxCleanups /\ 0 \in 0 .. (Consumers + Connections + 1)
  BY ServiceAssumption
<1> QED
  BY <1>1 DEF Init, TypeOK, Job

LEMMA TypeStep == TypeOK /\ [Next]_vars => TypeOK'
<1> SUFFICES ASSUME TypeOK, [Next]_vars PROVE TypeOK'
  OBVIOUS
<1> USE ServiceAssumption DEF TypeOK, Job, startVars, workVars, closeVars
<1>1. CASE UNCHANGED vars
  BY <1>1 DEF vars
<1>2. CASE Next
  <2> UNCHANGED hasScheduler
    BY <1>2 DEF Next
  <2>1. CASE \E k \in 1 .. Connections : Connect(k)
    BY <2>1 DEF Connect, AllOpen
  <2>2. CASE \E c \in 1 .. Consumers : StartConsumer(c)
    BY <2>2 DEF StartConsumer
  <2>3. CASE AppCreated
    BY <2>3 DEF AppCreated
  <2>4. CASE Listening
    BY <2>4 DEF Listening
  <2>5. CASE StartFails
    BY <2>5 DEF StartFails
  <2>6. CASE CycleTick
    BY <2>6 DEF CycleTick
  <2>7. CASE CycleStep
    BY <2>7 DEF CycleStep
  <2>8. CASE CleanupTick
    BY <2>8 DEF CleanupTick
  <2>9. CASE CleanupEnds
    BY <2>9 DEF CleanupEnds
  <2>10. CASE \E c \in 1 .. Consumers : TakeMessage(c)
    BY <2>10 DEF TakeMessage
  <2>11. CASE \E c \in 1 .. Consumers : MessageDone(c)
    BY <2>11 DEF MessageDone
  <2>12. CASE \E c \in 1 .. Consumers : IteratorFails(c)
    BY <2>12 DEF IteratorFails
  <2>13. CASE Killed
    BY <2>13 DEF Killed
  <2>14. CASE \E s \in Signal : Receive(s)
    BY <2>14 DEF Receive, StopAndWait
  <2>15. CASE \E s \in Signal : Waited(s)
    BY <2>15 DEF Waited
  <2>16. CASE BeginClose
    BY <2>16 DEF BeginClose
  <2>17. CASE \E c \in 1 .. Consumers : StopConsumer(c)
    BY <2>17 DEF StopConsumer
  <2>18. CASE \E c \in 1 .. Consumers : ConsumerStopped(c)
    BY <2>18 DEF ConsumerStopped
  <2>19. CASE \E k \in 1 .. Connections : CloseConnection(k)
    BY <2>19 DEF CloseConnection
  <2>20. CASE Exit
    BY <2>20 DEF Exit
  <2> QED
    BY <1>2, <2>1, <2>2, <2>3, <2>4, <2>5, <2>6, <2>7, <2>8, <2>9, <2>10,
       <2>11, <2>12, <2>13, <2>14, <2>15, <2>16, <2>17, <2>18, <2>19, <2>20
       DEF Next, ProcessStep, StartStep, WorkStep, ShutdownStep
<1> QED
  BY <1>1, <1>2

\* Types of the process state, from its start to its end.
THEOREM TypeCorrect == Spec => []TypeOK
  BY TypeInit, TypeStep, PTL DEF Spec

----------------------------------------------------------------------------
(* The order of start and shutdown.                                        *)

\* While start() connects nothing works and no handler has run.
Connecting ==
  phase = "connecting" =>
    /\ ~Signalled
    /\ closing = 0
    /\ ~intervals /\ cycle = "none"
    /\ (\E c \in 1 .. Consumers : consumer[c] # "none") => AllOpen

\* Connections are closed after the consumers, and once open are all open.
OpenUntilClosed == phase \in {"listening", "up"} /\ closing <= Consumers => AllOpen

\* A close follows a signal whose handler has waited for the cycle.
CloseFollowsSignal ==
  /\ phase \in {"connecting", "listening"} => ~startedLate
  /\ closing > 0 => isShuttingDown /\ \E s \in Signal : handler[s] = "closing"
  /\ \A s \in Signal : ~startedLate /\ handler[s] # "none" =>
       ~intervals /\ (handler[s] = "closing" => cycle = "none")

\* A consumer the shutdown has gone past is stopped; an ingestor has none.
ConsumersStopInOrder ==
  /\ hasScheduler =>
       /\ \A c \in 1 .. Consumers : consumer[c] = "none"
       /\ closing > 0 => closing > Consumers
  /\ ~hasScheduler => \A c \in 1 .. Consumers : closing > c => consumer[c] = "stopped"

\* Connections are counted as initialized when the last one is open.
Initialized == connectionsInitialized => AllOpen \/ isShuttingDown

ShutdownInv ==
  /\ TypeOK
  /\ Connecting /\ OpenUntilClosed /\ CloseFollowsSignal
  /\ ConsumersStopInOrder /\ Initialized

LEMMA ShutdownInit == Init => ShutdownInv
  BY TypeInit, ServiceAssumption
  DEF Init, ShutdownInv, Connecting, OpenUntilClosed, CloseFollowsSignal, ConsumersStopInOrder,
      Initialized, Signalled, AllOpen

LEMMA ShutdownStepInv == ShutdownInv /\ [Next]_vars => ShutdownInv'
<1> SUFFICES ASSUME ShutdownInv, [Next]_vars
             PROVE (/\ Connecting /\ OpenUntilClosed /\ CloseFollowsSignal
                    /\ ConsumersStopInOrder /\ Initialized)'
  BY TypeStep DEF ShutdownInv
<1> USE ServiceAssumption
    DEF ShutdownInv, TypeOK, Connecting, OpenUntilClosed, CloseFollowsSignal,
        ConsumersStopInOrder, Initialized, Signalled, AllOpen, Alive, Started, Job,
        startVars, workVars, closeVars
<1>1. CASE UNCHANGED vars
  BY <1>1 DEF vars
<1>2. CASE Next
  <2> UNCHANGED hasScheduler
    BY <1>2 DEF Next
  <2>1. CASE \E k \in 1 .. Connections : Connect(k)
    BY <2>1 DEF Connect
  <2>2. CASE \E c \in 1 .. Consumers : StartConsumer(c)
    BY <2>2 DEF StartConsumer
  <2>3. CASE AppCreated
    BY <2>3 DEF AppCreated
  <2>4. CASE Listening
    BY <2>4 DEF Listening
  <2>5. CASE StartFails
    BY <2>5 DEF StartFails
  <2>6. CASE CycleTick
    BY <2>6 DEF CycleTick
  <2>7. CASE CycleStep
    BY <2>7 DEF CycleStep
  <2>8. CASE CleanupTick
    BY <2>8 DEF CleanupTick
  <2>9. CASE CleanupEnds
    BY <2>9 DEF CleanupEnds
  <2>10. CASE \E c \in 1 .. Consumers : TakeMessage(c)
    BY <2>10 DEF TakeMessage
  <2>11. CASE \E c \in 1 .. Consumers : MessageDone(c)
    BY <2>11 DEF MessageDone
  <2>12. CASE \E c \in 1 .. Consumers : IteratorFails(c)
    BY <2>12 DEF IteratorFails
  <2>13. CASE Killed
    BY <2>13 DEF Killed
  <2>14. CASE \E s \in Signal : Receive(s)
    BY <2>14 DEF Receive, StopAndWait
  <2>15. CASE \E s \in Signal : Waited(s)
    BY <2>15 DEF Waited
  <2>16. CASE BeginClose
    BY <2>16 DEF BeginClose
  <2>17. CASE \E c \in 1 .. Consumers : StopConsumer(c)
    BY <2>17 DEF StopConsumer
  <2>18. CASE \E c \in 1 .. Consumers : ConsumerStopped(c)
    BY <2>18 DEF ConsumerStopped
  <2>19. CASE \E k \in 1 .. Connections : CloseConnection(k)
    BY <2>19 DEF CloseConnection
  <2>20. CASE Exit
    BY <2>20 DEF Exit
  <2> QED
    BY <1>2, <2>1, <2>2, <2>3, <2>4, <2>5, <2>6, <2>7, <2>8, <2>9, <2>10,
       <2>11, <2>12, <2>13, <2>14, <2>15, <2>16, <2>17, <2>18, <2>19, <2>20
       DEF Next, ProcessStep, StartStep, WorkStep, ShutdownStep
<1> QED
  BY <1>1, <1>2

LEMMA ShutdownAlways == Spec => []ShutdownInv
  BY ShutdownInit, ShutdownStepInv, PTL DEF Spec

\* gracefulShutdown: no job and no handler works on a closed connection.
THEOREM WorkIsConnected == Spec => []WorksConnected
<1>1. ShutdownInv => WorksConnected
  BY ServiceAssumption
  DEF ShutdownInv, TypeOK, Connecting, OpenUntilClosed, CloseFollowsSignal,
      ConsumersStopInOrder, WorksConnected, Alive, Job
<1> QED
  BY <1>1, ShutdownAlways, PTL

\* The ready endpoint tells the truth.
THEOREM ReadyIsTrue == Spec => []ReadyIsConnected
<1>1. ShutdownInv => ReadyIsConnected
  BY DEF ShutdownInv, Initialized, ReadyIsConnected
<1> QED
  BY <1>1, ShutdownAlways, PTL

=============================================================================
