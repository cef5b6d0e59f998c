------------------------ MODULE EventConsumerProofs ------------------------
(***************************************************************************)
(* Safety of the event consumer for any number of messages and instances,  *)
(* any maxRetries, and any number of failures and interruptions.           *)
(***************************************************************************)
EXTENDS EventConsumer, TLAPS

Valid == Message \ Invalid

\* What the control point of an instance says of the message it processes.
StepControl ==
  \A i \in Instance :
    /\ step[i] # "next" /\ cur[i].msg \in Invalid => step[i] = "handle"
    /\ step[i] = "ack" => Attempts(cur[i].msg) # {}
    /\ step[i] = "nak" => ~RetriesExceeded(cur[i])
    /\ step[i] \in {"report", "term"} => RetriesExceeded(cur[i])
    /\ step[i] = "term" => cur[i].msg \in reported

\* A message waits for delivery only while deliveries are left, and is
\* exhausted only when none is; a valid one is terminated after its report.
ServerControl ==
  \A m \in Message :
    /\ status[m] = "absent" => deliveries[m] = 0
    /\ status[m] = "ready" => Retriable(m)
    /\ status[m] = "exhausted" => ~Retriable(m)
    /\ status[m] = "terminated" => m \in Invalid \cup reported

\* No delivery is held, handled or reported that was not made.
OnlyDelivered ==
  /\ \A i \in Instance :
       /\ \A d \in buffer[i] : d.attempt <= deliveries[d.msg]
       /\ cur[i] # None => cur[i].attempt <= deliveries[cur[i].msg]
  /\ \A m \in reported : deliveries[m] >= maxRetries + 1 - FirstDelivery

\* Without an interruption every subscription that was opened stays open.
Uninterrupted ==
  interrupts = 0 =>
    \A i \in Instance : phase[i] \in {"off", "starting", "on"}

LastDelivery(m) == [msg |-> m, attempt |-> MaxDeliver]

\* An instance has the last delivery the server makes of m.
LastIsHeld(m) ==
  \E i \in Instance : LastDelivery(m) \in buffer[i] \/ cur[i] = LastDelivery(m)

\* Once the last delivery was made, an uninterrupted consumer has it, unless
\* the message was handled or reported.
LastIsAnswered ==
  interrupts = 0 =>
    \A m \in Valid :
      status[m] \in {"sent", "exhausted"} /\ ~Retriable(m) =>
        LastIsHeld(m) \/ Attempts(m) # {} \/ m \in reported

InductiveInv ==
  /\ TypeOK
  /\ AckedIsHandled
  /\ StepControl
  /\ ServerControl
  /\ OnlyDelivered
  /\ Uninterrupted
  /\ LastIsAnswered
-----------------------------------------------------------------------------
(* The invariant holds initially and every step preserves it.               *)

\* Nothing was published and nobody subscribed, so the invariant holds.
LEMMA InitInductive == ASSUME Init PROVE InductiveInv
  BY EventConsumerAssumption
  DEF Init, InductiveInv, TypeOK, AckedIsHandled, StepControl, ServerControl,
      OnlyDelivered, Uninterrupted, LastIsAnswered, Valid, Retriable,
      MaxDeliver, Delivery, Status, Phase, Step

\* A message is published with all its deliveries left.
LEMMA PublishInductive ==
  ASSUME InductiveInv, NEW m \in Message, Publish(m)
  PROVE  InductiveInv'
<1> USE EventConsumerAssumption
    DEF InductiveInv, TypeOK, Delivery, MaxDeliver, Publish, effectVars, loopVars, faultVars
<1>1. TypeOK'
  BY DEF Status, Phase, Step
<1>2. AckedIsHandled'
  BY DEF AckedIsHandled, StepControl, Attempts
<1>3. StepControl'
  BY DEF StepControl, RetriesExceeded, Attempts
<1>4. ServerControl'
  BY DEF ServerControl, StepControl, Retriable
<1>5. OnlyDelivered'
  BY DEF OnlyDelivered, StepControl, RetriesExceeded
<1>6. Uninterrupted'
  BY DEF Uninterrupted
<1>7. LastIsAnswered'
  BY DEF LastIsAnswered, LastIsHeld, LastDelivery, Attempts, Valid,
      Retriable, StepControl, RetriesExceeded, Uninterrupted
<1> QED BY <1>1, <1>2, <1>3, <1>4, <1>5, <1>6, <1>7

\* A passed deadline requeues a message or exhausts it; its copy stays where
\* it is.
LEMMA AckWaitExpiresInductive ==
  ASSUME InductiveInv, NEW m \in Message, AckWaitExpires(m)
  PROVE  InductiveInv'
<1> USE EventConsumerAssumption
    DEF InductiveInv, TypeOK, Delivery, MaxDeliver, AckWaitExpires, Requeue, effectVars, loopVars, faultVars
<1>1. TypeOK'
  BY DEF Status, Phase, Step
<1>2. AckedIsHandled'
  BY DEF AckedIsHandled, StepControl, Attempts
<1>3. StepControl'
  BY DEF StepControl, RetriesExceeded, Attempts
<1>4. ServerControl'
  BY DEF ServerControl, StepControl, Retriable
<1>5. OnlyDelivered'
  BY DEF OnlyDelivered, StepControl, RetriesExceeded
<1>6. Uninterrupted'
  BY DEF Uninterrupted
<1>7. LastIsAnswered'
  BY DEF LastIsAnswered, LastIsHeld, LastDelivery, Attempts, Valid,
      Retriable, StepControl, RetriesExceeded, Uninterrupted
<1> QED BY <1>1, <1>2, <1>3, <1>4, <1>5, <1>6, <1>7

\* A delivery is new to every buffer; the last one is held by its receiver.
LEMMA DeliverInductive ==
  ASSUME InductiveInv, NEW m \in Message, NEW i \in Instance, Deliver(m, i)
  PROVE  InductiveInv'
<1> USE EventConsumerAssumption
    DEF InductiveInv, TypeOK, Delivery, MaxDeliver, Deliver, effectVars, faultVars
<1> DEFINE d == [msg |-> m, attempt |-> deliveries[m] + 1]
<1>d. d \in Delivery
  BY DEF ServerControl, Retriable
<1>1. TypeOK'
  BY <1>d DEF Status, Phase, Step, ServerControl, Retriable
<1>2. AckedIsHandled'
  BY DEF AckedIsHandled, StepControl, Attempts
<1>3. StepControl'
  BY DEF StepControl, RetriesExceeded, Attempts
<1>4. ServerControl'
  BY DEF ServerControl, StepControl, Retriable
<1>5. OnlyDelivered'
  BY DEF OnlyDelivered, StepControl, RetriesExceeded
<1>6. Uninterrupted'
  BY DEF Uninterrupted
<1>7. LastIsAnswered'
  <2> SUFFICES ASSUME interrupts = 0, NEW n \in Valid,
                      status'[n] \in {"sent", "exhausted"}, ~Retriable(n)'
               PROVE  LastIsHeld(n)' \/ Attempts(n)' # {} \/ n \in reported'
    BY DEF LastIsAnswered
  <2>1. CASE n = m
    <3>1. d = LastDelivery(m)
      BY <2>1 DEF Retriable, LastDelivery, ServerControl
    <3> QED BY <2>1, <3>1 DEF LastIsHeld, LastDelivery
  <2>2. CASE n # m
    <3>1. LastIsHeld(n) \/ Attempts(n) # {} \/ n \in reported
      BY <2>2 DEF LastIsAnswered, Valid, Retriable
    <3> QED BY <3>1 DEF LastIsHeld, LastDelivery, Attempts
  <2> QED BY <2>1, <2>2
<1> QED BY <1>1, <1>2, <1>3, <1>4, <1>5, <1>6, <1>7

\* Starting touches no message: nothing is held before the subscription is open.
LEMMA StartInductive ==
  ASSUME InductiveInv, NEW i \in Instance, Start(i)
  PROVE  InductiveInv'
<1> USE EventConsumerAssumption
    DEF InductiveInv, TypeOK, Delivery, MaxDeliver, Start, serverVars, effectVars, faultVars, Interrupt
<1>1. TypeOK'
  BY DEF Status, Phase, Step
<1>2. AckedIsHandled'
  BY DEF AckedIsHandled, StepControl, Attempts
<1>3. StepControl'
  BY DEF StepControl, RetriesExceeded, Attempts
<1>4. ServerControl'
  BY DEF ServerControl, StepControl, Retriable
<1>5. OnlyDelivered'
  BY DEF OnlyDelivered, StepControl, RetriesExceeded
<1>6. Uninterrupted'
  BY DEF Uninterrupted
<1>7. LastIsAnswered'
  BY DEF LastIsAnswered, LastIsHeld, LastDelivery, Attempts, Valid,
      Retriable, StepControl, RetriesExceeded, Uninterrupted
<1> QED BY <1>1, <1>2, <1>3, <1>4, <1>5, <1>6, <1>7

\* Opening the subscription touches no message.
LEMMA StartedInductive ==
  ASSUME InductiveInv, NEW i \in Instance, Started(i)
  PROVE  InductiveInv'
<1> USE EventConsumerAssumption
    DEF InductiveInv, TypeOK, Delivery, MaxDeliver, Started, serverVars, effectVars, faultVars, Interrupt
<1>1. TypeOK'
  BY DEF Status, Phase, Step
<1>2. AckedIsHandled'
  BY DEF AckedIsHandled, StepControl, Attempts
<1>3. StepControl'
  BY DEF StepControl, RetriesExceeded, Attempts
<1>4. ServerControl'
  BY DEF ServerControl, StepControl, Retriable
<1>5. OnlyDelivered'
  BY DEF OnlyDelivered, StepControl, RetriesExceeded
<1>6. Uninterrupted'
  BY DEF Uninterrupted
<1>7. LastIsAnswered'
  BY DEF LastIsAnswered, LastIsHeld, LastDelivery, Attempts, Valid,
      Retriable, StepControl, RetriesExceeded, Uninterrupted
<1> QED BY <1>1, <1>2, <1>3, <1>4, <1>5, <1>6, <1>7

\* A stop keeps what the instance holds and counts as an interruption.
LEMMA StopInductive ==
  ASSUME InductiveInv, NEW i \in Instance, Stop(i)
  PROVE  InductiveInv'
<1> USE EventConsumerAssumption
    DEF InductiveInv, TypeOK, Delivery, MaxDeliver, Stop, serverVars, effectVars, faultVars, Interrupt
<1>1. TypeOK'
  BY DEF Status, Phase, Step
<1>2. AckedIsHandled'
  BY DEF AckedIsHandled, StepControl, Attempts
<1>3. StepControl'
  BY DEF StepControl, RetriesExceeded, Attempts
<1>4. ServerControl'
  BY DEF ServerControl, StepControl, Retriable
<1>5. OnlyDelivered'
  BY DEF OnlyDelivered, StepControl, RetriesExceeded
<1>6. Uninterrupted'
  BY DEF Uninterrupted
<1>7. LastIsAnswered'
  BY DEF LastIsAnswered, LastIsHeld, LastDelivery, Attempts, Valid,
      Retriable, StepControl, RetriesExceeded, Uninterrupted
<1> QED BY <1>1, <1>2, <1>3, <1>4, <1>5, <1>6, <1>7

\* The loop drops its buffer only after a stop, which was counted.
LEMMA LoopEndsInductive ==
  ASSUME InductiveInv, NEW i \in Instance, LoopEnds(i)
  PROVE  InductiveInv'
<1> USE EventConsumerAssumption
    DEF InductiveInv, TypeOK, Delivery, MaxDeliver, LoopEnds, serverVars, effectVars, faultVars, Interrupt
<1>1. TypeOK'
  BY DEF Status, Phase, Step
<1>2. AckedIsHandled'
  BY DEF AckedIsHandled, StepControl, Attempts
<1>3. StepControl'
  BY DEF StepControl, RetriesExceeded, Attempts
<1>4. ServerControl'
  BY DEF ServerControl, StepControl, Retriable
<1>5. OnlyDelivered'
  BY DEF OnlyDelivered, StepControl, RetriesExceeded
<1>6. Uninterrupted'
  BY DEF Uninterrupted
<1>7. LastIsAnswered'
  BY DEF LastIsAnswered, LastIsHeld, LastDelivery, Attempts, Valid,
      Retriable, StepControl, RetriesExceeded, Uninterrupted
<1> QED BY <1>1, <1>2, <1>3, <1>4, <1>5, <1>6, <1>7

\* A crash drops what the instance holds and counts as an interruption.
LEMMA CrashInductive ==
  ASSUME InductiveInv, NEW i \in Instance, Crash(i)
  PROVE  InductiveInv'
<1> USE EventConsumerAssumption
    DEF InductiveInv, TypeOK, Delivery, MaxDeliver, Crash, serverVars, effectVars, faultVars, Interrupt
<1>1. TypeOK'
  BY DEF Status, Phase, Step
<1>2. AckedIsHandled'
  BY DEF AckedIsHandled, StepControl, Attempts
<1>3. StepControl'
  BY DEF StepControl, RetriesExceeded, Attempts
<1>4. ServerControl'
  BY DEF ServerControl, StepControl, Retriable
<1>5. OnlyDelivered'
  BY DEF OnlyDelivered, StepControl, RetriesExceeded
<1>6. Uninterrupted'
  BY DEF Uninterrupted
<1>7. LastIsAnswered'
  BY DEF LastIsAnswered, LastIsHeld, LastDelivery, Attempts, Valid,
      Retriable, StepControl, RetriesExceeded, Uninterrupted
<1> QED BY <1>1, <1>2, <1>3, <1>4, <1>5, <1>6, <1>7

\* A dead iterator drops the buffer and counts as an interruption.
LEMMA ConsumerErrorInductive ==
  ASSUME InductiveInv, NEW i \in Instance, ConsumerError(i)
  PROVE  InductiveInv'
<1> USE EventConsumerAssumption
    DEF InductiveInv, TypeOK, Delivery, MaxDeliver, ConsumerError, serverVars, effectVars, faultVars, Interrupt
<1>1. TypeOK'
  BY DEF Status, Phase, Step
<1>2. AckedIsHandled'
  BY DEF AckedIsHandled, StepControl, Attempts
<1>3. StepControl'
  BY DEF StepControl, RetriesExceeded, Attempts
<1>4. ServerControl'
  BY DEF ServerControl, StepControl, Retriable
<1>5. OnlyDelivered'
  BY DEF OnlyDelivered, StepControl, RetriesExceeded
<1>6. Uninterrupted'
  BY DEF Uninterrupted
<1>7. LastIsAnswered'
  BY DEF LastIsAnswered, LastIsHeld, LastDelivery, Attempts, Valid,
      Retriable, StepControl, RetriesExceeded, Uninterrupted
<1> QED BY <1>1, <1>2, <1>3, <1>4, <1>5, <1>6, <1>7

\* A lost answer leaves the server as it is and counts as an interruption.
LEMMA AnswerLostInductive ==
  ASSUME InductiveInv, NEW i \in Instance, AnswerLost(i)
  PROVE  InductiveInv'
<1> USE EventConsumerAssumption
    DEF InductiveInv, TypeOK, Delivery, MaxDeliver, AnswerLost, serverVars, effectVars, faultVars, Interrupt, Done
<1>1. TypeOK'
  BY DEF Status, Phase, Step
<1>2. AckedIsHandled'
  BY DEF AckedIsHandled, StepControl, Attempts
<1>3. StepControl'
  BY DEF StepControl, RetriesExceeded, Attempts
<1>4. ServerControl'
  BY DEF ServerControl, StepControl, Retriable
<1>5. OnlyDelivered'
  BY DEF OnlyDelivered, StepControl, RetriesExceeded
<1>6. Uninterrupted'
  BY DEF Uninterrupted
<1>7. LastIsAnswered'
  BY DEF LastIsAnswered, LastIsHeld, LastDelivery, Attempts, Valid,
      Retriable, StepControl, RetriesExceeded, Uninterrupted
<1> QED BY <1>1, <1>2, <1>3, <1>4, <1>5, <1>6, <1>7

\* Taking a message moves it from the buffer to the handler.
LEMMA TakeMessageInductive ==
  ASSUME InductiveInv, NEW i \in Instance, TakeMessage(i)
  PROVE  InductiveInv'
<1> USE EventConsumerAssumption
    DEF InductiveInv, TypeOK, Delivery, MaxDeliver, TakeMessage, serverVars, effectVars, faultVars, Interrupt
<1>1. TypeOK'
  BY DEF Status, Phase, Step
<1>2. AckedIsHandled'
  BY DEF AckedIsHandled, StepControl, Attempts
<1>3. StepControl'
  BY DEF StepControl, RetriesExceeded, Attempts
<1>4. ServerControl'
  BY DEF ServerControl, StepControl, Retriable
<1>5. OnlyDelivered'
  BY DEF OnlyDelivered, StepControl, RetriesExceeded
<1>6. Uninterrupted'
  BY DEF Uninterrupted
<1>7. LastIsAnswered'
  BY DEF LastIsAnswered, LastIsHeld, LastDelivery, Attempts, Valid,
      Retriable, StepControl, RetriesExceeded, Uninterrupted
<1> QED BY <1>1, <1>2, <1>3, <1>4, <1>5, <1>6, <1>7

\* Only an invalid message is terminated without a report.
LEMMA RejectInvalidInductive ==
  ASSUME InductiveInv, NEW i \in Instance, RejectInvalid(i)
  PROVE  InductiveInv'
<1> USE EventConsumerAssumption
    DEF InductiveInv, TypeOK, Delivery, MaxDeliver, RejectInvalid, serverVars, effectVars, faultVars, Interrupt, Done, Settle, Settled
<1>1. TypeOK'
  BY DEF Status, Phase, Step
<1>2. AckedIsHandled'
  BY DEF AckedIsHandled, StepControl, Attempts
<1>3. StepControl'
  BY DEF StepControl, RetriesExceeded, Attempts
<1>4. ServerControl'
  BY DEF ServerControl, StepControl, Retriable
<1>5. OnlyDelivered'
  BY DEF OnlyDelivered, StepControl, RetriesExceeded
<1>6. Uninterrupted'
  BY DEF Uninterrupted
<1>7. LastIsAnswered'
  BY DEF LastIsAnswered, LastIsHeld, LastDelivery, Attempts, Valid,
      Retriable, StepControl, RetriesExceeded, Uninterrupted
<1> QED BY <1>1, <1>2, <1>3, <1>4, <1>5, <1>6, <1>7

\* The acknowledgement is due only now that a delivery was handled.
LEMMA HandleEventInductive ==
  ASSUME InductiveInv, NEW i \in Instance, HandleEvent(i)
  PROVE  InductiveInv'
<1> USE EventConsumerAssumption
    DEF InductiveInv, TypeOK, Delivery, MaxDeliver, HandleEvent, serverVars, effectVars, faultVars, Interrupt, NextStep
<1>1. TypeOK'
  BY DEF Status, Phase, Step
<1>2. AckedIsHandled'
  BY DEF AckedIsHandled, StepControl, Attempts
<1>3. StepControl'
  BY DEF StepControl, RetriesExceeded, Attempts
<1>4. ServerControl'
  BY DEF ServerControl, StepControl, Retriable
<1>5. OnlyDelivered'
  BY DEF OnlyDelivered, StepControl, RetriesExceeded
<1>6. Uninterrupted'
  BY DEF Uninterrupted
<1>7. LastIsAnswered'
  BY DEF LastIsAnswered, LastIsHeld, LastDelivery, Attempts, Valid,
      Retriable, StepControl, RetriesExceeded, Uninterrupted
<1> QED BY <1>1, <1>2, <1>3, <1>4, <1>5, <1>6, <1>7

\* A thrown error asks for a retry only while deliveries are left.
LEMMA HandleEventThrowsInductive ==
  ASSUME InductiveInv, NEW i \in Instance, HandleEventThrows(i)
  PROVE  InductiveInv'
<1> USE EventConsumerAssumption
    DEF InductiveInv, TypeOK, Delivery, MaxDeliver, HandleEventThrows, serverVars, effectVars, faultVars, Interrupt, NextStep
<1>1. TypeOK'
  BY DEF Status, Phase, Step
<1>2. AckedIsHandled'
  BY DEF AckedIsHandled, StepControl, Attempts
<1>3. StepControl'
  BY DEF StepControl, RetriesExceeded, Attempts
<1>4. ServerControl'
  BY DEF ServerControl, StepControl, Retriable
<1>5. OnlyDelivered'
  BY DEF OnlyDelivered, StepControl, RetriesExceeded
<1>6. Uninterrupted'
  BY DEF Uninterrupted
<1>7. LastIsAnswered'
  BY DEF LastIsAnswered, LastIsHeld, LastDelivery, Attempts, Valid,
      Retriable, StepControl, RetriesExceeded, Uninterrupted
<1> QED BY <1>1, <1>2, <1>3, <1>4, <1>5, <1>6, <1>7

\* The termination is due only now that the message was reported.
LEMMA ReportInductive ==
  ASSUME InductiveInv, NEW i \in Instance, Report(i)
  PROVE  InductiveInv'
<1> USE EventConsumerAssumption
    DEF InductiveInv, TypeOK, Delivery, MaxDeliver, Report, serverVars, effectVars, faultVars, Interrupt, NextStep
<1>1. TypeOK'
  BY DEF Status, Phase, Step
<1>2. AckedIsHandled'
  BY DEF AckedIsHandled, StepControl, Attempts
<1>3. StepControl'
  BY DEF StepControl, RetriesExceeded, Attempts
<1>4. ServerControl'
  BY DEF ServerControl, StepControl, Retriable
<1>5. OnlyDelivered'
  BY DEF OnlyDelivered, StepControl, RetriesExceeded
<1>6. Uninterrupted'
  BY DEF Uninterrupted
<1>7. LastIsAnswered'
  BY DEF LastIsAnswered, LastIsHeld, LastDelivery, Attempts, Valid,
      Retriable, StepControl, RetriesExceeded, Uninterrupted
<1> QED BY <1>1, <1>2, <1>3, <1>4, <1>5, <1>6, <1>7

\* An answer ends a delivery: ack after handling, term after reporting, nak
\* never for the last one.
LEMMA AnswerInductive ==
  ASSUME InductiveInv, NEW i \in Instance, Answer(i)
  PROVE  InductiveInv'
<1> USE EventConsumerAssumption
    DEF InductiveInv, TypeOK, Delivery, MaxDeliver, Answer, serverVars, effectVars, faultVars, Interrupt, Done, Settle, Settled, Nak, Requeue
<1>1. TypeOK'
  BY DEF Status, Phase, Step
<1>2. AckedIsHandled'
  BY DEF AckedIsHandled, StepControl, Attempts
<1>3. StepControl'
  BY DEF StepControl, RetriesExceeded, Attempts
<1>4. ServerControl'
  BY DEF ServerControl, StepControl, Retriable
<1>5. OnlyDelivered'
  BY DEF OnlyDelivered, StepControl, RetriesExceeded
<1>6. Uninterrupted'
  BY DEF Uninterrupted
<1>7. LastIsAnswered'
  BY DEF LastIsAnswered, LastIsHeld, LastDelivery, Attempts, Valid,
      Retriable, StepControl, RetriesExceeded, Uninterrupted
<1> QED BY <1>1, <1>2, <1>3, <1>4, <1>5, <1>6, <1>7

\* Every step of the server and of the instances preserves the invariant.
LEMMA NextInductive ==
  ASSUME InductiveInv, [Next]_vars
  PROVE  InductiveInv'
<1>1. CASE UNCHANGED vars
  BY <1>1
  DEF vars, serverVars, effectVars, loopVars, faultVars, InductiveInv, TypeOK,
      AckedIsHandled, Attempts, StepControl, RetriesExceeded, ServerControl,
      Retriable, OnlyDelivered, Uninterrupted, LastIsAnswered, LastIsHeld
<1>2. ASSUME NEW m \in Message, Server(m)
      PROVE  InductiveInv'
  BY <1>2, PublishInductive, AckWaitExpiresInductive, DeliverInductive
  DEF Server
<1>3. ASSUME NEW i \in Instance, LifeCycle(i)
      PROVE  InductiveInv'
  BY <1>3, StartInductive, StartedInductive, StopInductive, LoopEndsInductive,
     CrashInductive, ConsumerErrorInductive, AnswerLostInductive
  DEF LifeCycle
<1>4. ASSUME NEW i \in Instance, ProcessMessages(i)
      PROVE  InductiveInv'
  BY <1>4, TakeMessageInductive, RejectInvalidInductive, HandleEventInductive,
     HandleEventThrowsInductive, ReportInductive, AnswerInductive
  DEF ProcessMessages
<1> QED
  BY <1>1, <1>2, <1>3, <1>4 DEF Next

\* The invariant holds in every reachable state.
THEOREM ConsumerInvariance == Spec => []InductiveInv
  BY InitInductive, NextInductive, PTL DEF Spec

-----------------------------------------------------------------------------
(* What follows.                                                            *)

\* Every variable has its type and an instance is in the middle of
\* processMessage exactly while it has a message.
THEOREM ConsumerTypeCorrect == Spec => []TypeOK
<1>1. InductiveInv => TypeOK
  BY DEF InductiveInv
<1> QED
  BY <1>1, ConsumerInvariance, PTL

\* A message is acknowledged only after a delivery of it was handled, whatever
\* handlers throw, deadlines pass and instances stop or die.
THEOREM AckedHandled == Spec => []AckedIsHandled
<1>1. InductiveInv => AckedIsHandled
  BY DEF InductiveInv
<1> QED
  BY <1>1, ConsumerInvariance, PTL

\* max_deliver and the retry test fit together: without an interruption no
\* valid message leaves the stream unhandled and unreported, whether the client
\* counts a first delivery as 0 or as 1.
THEOREM GivenUpReported == Spec => []GivenUpIsReported
<1>1. ASSUME InductiveInv
      PROVE  GivenUpIsReported
  <2> SUFFICES ASSUME NEW m \in Valid, GivenUp(m), Attempts(m) = {},
                      interrupts = 0
               PROVE  m \in reported
    BY DEF GivenUpIsReported, Valid
  <2>1. CASE status[m] = "terminated"
    BY <1>1, <2>1 DEF InductiveInv, ServerControl, Valid
  <2>2. CASE status[m] = "exhausted"
    <3>1. LastDelivery(m).msg = m /\ LastDelivery(m) # None
      BY EventConsumerAssumption DEF LastDelivery, MaxDeliver, Valid
    <3>2. ~LastIsHeld(m)
      BY <3>1 DEF GivenUp, Holds, LastIsHeld
    <3> QED
      BY <1>1, <2>2, <3>2
      DEF InductiveInv, LastIsAnswered, ServerControl, Valid
  <2> QED
    BY <2>1, <2>2 DEF GivenUp
<1> QED
  BY <1>1, ConsumerInvariance, PTL

\* A message is reported as failed only after the first delivery and every
\* retry the client's count leaves, for either way of counting.
THEOREM ReportedExhausted == Spec => []ReportedIsExhausted
<1>1. InductiveInv => ReportedIsExhausted
  BY EventConsumerAssumption
  DEF InductiveInv, OnlyDelivered, TypeOK, ReportedIsExhausted, Retries
<1> QED
  BY <1>1, ConsumerInvariance, PTL
=============================================================================
