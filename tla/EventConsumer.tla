--------------------------- MODULE EventConsumer ---------------------------
(***************************************************************************)
(* BaseEventConsumer (packages/events): the instances of one service share *)
(* a durable JetStream consumer with explicit acknowledgement. The server  *)
(* delivers a message, at most max_deliver times, to any instance that has *)
(* an open subscription; an instance works off what it was sent one        *)
(* message at a time and answers each with ack, nak or term.               *)
(*                                                                         *)
(* The server's side (status, deliveries) is modelled from how the code    *)
(* configures and uses it. The client holds several deliveries at once, so *)
(* the acknowledgement deadline of one may pass while it waits its turn:   *)
(* the server then delivers the message again and both copies are handled. *)
(***************************************************************************)
EXTENDS Naturals, FiniteSets

CONSTANTS
  Message,        \* events of the consumer's subject
  Invalid,        \* those that are not JSON or do not match the schema
  Instance,       \* instances of the service
  None,           \* no delivery
  FirstDelivery,  \* msg.info.redeliveryCount of a first delivery: 1 in nats.js
                  \* (and in the context's comment), 0 in the unit tests' mocks
  maxRetries,     \* EventConsumerConfig.maxRetries
  MaxFailures,    \* bound: how often handleEvent throws in a behaviour
  MaxInterrupts   \* bound: stops, crashes and lost connections

ASSUME EventConsumerAssumption ==
  /\ Invalid \subseteq Message
  /\ None \notin [msg : Message, attempt : Nat]
  /\ FirstDelivery \in {0, 1}
  /\ maxRetries \in Nat \ {0}
  /\ MaxFailures \in Nat
  /\ MaxInterrupts \in Nat

VARIABLES
  status,     \* what the server knows of each message
  deliveries, \* how often it delivered it
  handled,    \* deliveries whose handleEvent took effect
  reported,   \* messages onMaxRetriesExceeded was called for
  phase,      \* of each instance: its running and consumerMessages
  buffer,     \* deliveries it was sent and has not looked at
  cur,        \* delivery it is processing, or None
  step,       \* what it does next with it
  failures,   \* how often handleEvent threw
  interrupts  \* how often an instance stopped, died or lost an answer

serverVars == <<status, deliveries>>
effectVars == <<handled, reported>>
loopVars   == <<phase, buffer, cur, step>>
faultVars  == <<failures, interrupts>>
vars == <<serverVars, effectVars, loopVars, faultVars>>

\* max_deliver of the durable consumer: initial delivery and retries.
MaxDeliver == maxRetries + 1

\* One delivery of a message: the attempt-th.
Delivery == [msg : Message, attempt : 1..(maxRetries + 1)]

\* Mutant of RetriesExceeded: the test waits for one delivery too many.
RetriesExceededLate(d) == d.attempt - 1 > maxRetries

\* Mutant of RetriesExceeded: one retry too few.
RetriesExceededOffByOne(d) == d.attempt + FirstDelivery >= maxRetries

\* deliveryAttempt >= this.maxRetries
RetriesExceeded(d) == d.attempt - 1 + FirstDelivery >= maxRetries

Init ==
  /\ status = [m \in Message |-> "absent"]
  /\ deliveries = [m \in Message |-> 0]
  /\ handled = {}
  /\ reported = {}
  /\ phase = [i \in Instance |-> "off"]
  /\ buffer = [i \in Instance |-> {}]
  /\ cur = [i \in Instance |-> None]
  /\ step = [i \in Instance |-> "next"]
  /\ failures = 0
  /\ interrupts = 0
-----------------------------------------------------------------------------
(* The server.                                                              *)

Retriable(m) == deliveries[m] < MaxDeliver

\* A message without an answer: deliver it again, or nevermore.
Requeue(m) ==
  status' = [status EXCEPT ![m] = IF Retriable(m) THEN "ready" ELSE "exhausted"]

Publish(m) ==
  /\ status[m] = "absent"
  /\ status' = [status EXCEPT ![m] = "ready"]
  /\ UNCHANGED <<deliveries, effectVars, loopVars, faultVars>>

Deliver(m, i) ==
  /\ status[m] = "ready"
  /\ phase[i] = "on"
  /\ status' = [status EXCEPT ![m] = "sent"]
  /\ deliveries' = [deliveries EXCEPT ![m] = @ + 1]
  /\ buffer' = [buffer EXCEPT ![i] =
                  @ \cup {[msg |-> m, attempt |-> deliveries[m] + 1]}]
  /\ UNCHANGED <<effectVars, phase, cur, step, faultVars>>

\* ack_wait passes: in a buffer, in a handler, or after the client died.
AckWaitExpires(m) ==
  /\ status[m] = "sent"
  /\ Requeue(m)
  /\ UNCHANGED <<deliveries, effectVars, loopVars, faultVars>>

Settled == {"acked", "terminated"}

\* An ack or term counts whichever delivery it answers; a nak is ignored
\* unless the message still waits for an answer.
Settle(m, s) ==
  status' = IF status[m] \in Settled THEN status
            ELSE [status EXCEPT ![m] = s]
Nak(m) == IF status[m] = "sent" THEN Requeue(m) ELSE UNCHANGED status
-----------------------------------------------------------------------------
(* The life of an instance.                                                 *)

\* start() sets running; the durable consumer is found or created.
Start(i) ==
  /\ phase[i] = "off"
  /\ phase' = [phase EXCEPT ![i] = "starting"]
  /\ UNCHANGED <<serverVars, effectVars, buffer, cur, step, faultVars>>

\* consume() opened the subscription and processMessages begins.
Started(i) ==
  /\ phase[i] = "starting"
  /\ phase' = [phase EXCEPT ![i] = "on"]
  /\ UNCHANGED <<serverVars, effectVars, buffer, cur, step, faultVars>>

Interrupt ==
  /\ interrupts < MaxInterrupts
  /\ interrupts' = interrupts + 1
  /\ UNCHANGED failures

\* stop(): running is cleared. The applications call it after start() returned.
Stop(i) ==
  /\ phase[i] = "on"
  /\ Interrupt
  /\ phase' = [phase EXCEPT ![i] = "stopping"]
  /\ UNCHANGED <<serverVars, effectVars, buffer, cur, step>>

\* The loop breaks once the current message is answered: the rest of the
\* buffer is discarded unanswered, stop() resolves and the process exits.
LoopEnds(i) ==
  /\ phase[i] = "stopping"
  /\ cur[i] = None
  /\ phase' = [phase EXCEPT ![i] = "off"]
  /\ buffer' = [buffer EXCEPT ![i] = {}]
  /\ UNCHANGED <<serverVars, effectVars, cur, step, faultVars>>

\* The process dies, or start() throws and takes the process with it.
Crash(i) ==
  /\ phase[i] # "off"
  /\ Interrupt
  /\ phase' = [phase EXCEPT ![i] = "off"]
  /\ buffer' = [buffer EXCEPT ![i] = {}]
  /\ cur' = [cur EXCEPT ![i] = None]
  /\ step' = [step EXCEPT ![i] = "next"]
  /\ UNCHANGED <<serverVars, effectVars>>

\* The iterator throws: the loop ends and nothing in the process restarts it.
ConsumerError(i) ==
  /\ phase[i] = "on"
  /\ cur[i] = None
  /\ Interrupt
  /\ phase' = [phase EXCEPT ![i] = "dead"]
  /\ buffer' = [buffer EXCEPT ![i] = {}]
  /\ UNCHANGED <<serverVars, effectVars, cur, step>>
-----------------------------------------------------------------------------
(* processMessages and processMessage.                                      *)

TakeMessage(i) ==
  /\ phase[i] = "on"
  /\ cur[i] = None
  /\ \E d \in buffer[i] :
       /\ buffer' = [buffer EXCEPT ![i] = @ \ {d}]
       /\ cur' = [cur EXCEPT ![i] = d]
  /\ step' = [step EXCEPT ![i] = "handle"]
  /\ UNCHANGED <<serverVars, effectVars, phase, faultVars>>

NextStep(i, s) == step' = [step EXCEPT ![i] = s] /\ UNCHANGED cur

\* processMessage returns.
Done(i) ==
  /\ cur' = [cur EXCEPT ![i] = None]
  /\ step' = [step EXCEPT ![i] = "next"]

\* The message does not parse or validate: it would not on a retry either.
RejectInvalid(i) ==
  /\ step[i] = "handle"
  /\ cur[i].msg \in Invalid
  /\ Settle(cur[i].msg, "terminated")
  /\ Done(i)
  /\ UNCHANGED <<deliveries, effectVars, phase, buffer, faultVars>>

HandleEvent(i) ==
  /\ step[i] = "handle"
  /\ cur[i].msg \notin Invalid
  /\ handled' = handled \cup {cur[i]}
  /\ NextStep(i, "ack")
  /\ UNCHANGED <<serverVars, reported, phase, buffer, faultVars>>

\* Mutant of HandleEventThrows: the acknowledgement is in a finally block.
AckInFinally(i) ==
  /\ step[i] = "handle"
  /\ cur[i].msg \notin Invalid
  /\ failures < MaxFailures
  /\ failures' = failures + 1
  /\ NextStep(i, "ack")
  /\ UNCHANGED <<serverVars, effectVars, phase, buffer, interrupts>>

HandleEventThrows(i) ==
  /\ step[i] = "handle"
  /\ cur[i].msg \notin Invalid
  /\ failures < MaxFailures
  /\ failures' = failures + 1
  /\ NextStep(i, IF RetriesExceeded(cur[i]) THEN "report" ELSE "nak")
  /\ UNCHANGED <<serverVars, effectVars, phase, buffer, interrupts>>

Report(i) ==
  /\ step[i] = "report"
  /\ reported' = reported \cup {cur[i].msg}
  /\ NextStep(i, "term")
  /\ UNCHANGED <<serverVars, handled, phase, buffer, faultVars>>

\* The answer is written to the socket and never awaited.
AnswerLost(i) ==
  /\ step[i] \in {"ack", "term", "nak"}
  /\ Interrupt
  /\ Done(i)
  /\ UNCHANGED <<serverVars, effectVars, phase, buffer>>

Answer(i) ==
  LET m == cur[i].msg IN
  /\ \/ step[i] = "ack" /\ Settle(m, "acked")
     \/ step[i] = "term" /\ Settle(m, "terminated")
     \/ step[i] = "nak" /\ Nak(m)
  /\ Done(i)
  /\ UNCHANGED <<deliveries, effectVars, phase, buffer, faultVars>>

ProcessMessages(i) ==
  \/ TakeMessage(i) \/ RejectInvalid(i) \/ HandleEvent(i)
  \/ HandleEventThrows(i) \/ Report(i) \/ Answer(i)

LifeCycle(i) ==
  \/ Start(i) \/ Started(i) \/ Stop(i) \/ LoopEnds(i) \/ Crash(i)
  \/ ConsumerError(i) \/ AnswerLost(i)

Server(m) ==
  \/ Publish(m) \/ AckWaitExpires(m) \/ \E i \in Instance : Deliver(m, i)

Next ==
  \/ \E m \in Message : Server(m)
  \/ \E i \in Instance : LifeCycle(i) \/ ProcessMessages(i)

Spec == Init /\ [][Next]_vars

\* The service is started, the server delivers to a subscription and keeps
\* its deadlines, and handlers return or throw.
Fairness ==
  /\ \A i \in Instance :
       /\ WF_vars(Start(i))
       /\ WF_vars(Started(i))
       /\ WF_vars(LoopEnds(i))
       /\ WF_vars(ProcessMessages(i))
  /\ \A m \in Message :
       /\ WF_vars(AckWaitExpires(m))
       /\ WF_vars(\E i \in Instance : Deliver(m, i))

FairSpec == Spec /\ Fairness
-----------------------------------------------------------------------------
(* Properties.                                                              *)

Status == {"absent", "ready", "sent", "acked", "terminated", "exhausted"}
Phase  == {"off", "starting", "on", "stopping", "dead"}
Step   == {"next", "handle", "ack", "nak", "report", "term"}

\* Every variable has its type; an instance is in the middle of processMessage
\* exactly while it has a message, and only with its subscription open.
TypeOK ==
  /\ status \in [Message -> Status]
  /\ deliveries \in [Message -> 0..MaxDeliver]
  /\ handled \subseteq Delivery
  /\ reported \subseteq Message
  /\ phase \in [Instance -> Phase]
  /\ buffer \in [Instance -> SUBSET Delivery]
  /\ cur \in [Instance -> Delivery \cup {None}]
  /\ step \in [Instance -> Step]
  /\ failures \in 0..MaxFailures
  /\ interrupts \in 0..MaxInterrupts
  /\ \A i \in Instance :
       /\ cur[i] = None <=> step[i] = "next"
       /\ cur[i] # None => phase[i] \in {"on", "stopping"}
       /\ buffer[i] # {} => phase[i] \in {"on", "stopping"}

Attempts(m) == {d \in handled : d.msg = m}

Holds(i, m) ==
  \/ \E d \in buffer[i] : d.msg = m
  \/ cur[i] # None /\ cur[i].msg = m

\* Nobody will look at the message again.
GivenUp(m) ==
  /\ status[m] \in {"terminated", "exhausted"}
  /\ \A i \in Instance : ~Holds(i, m)

\* A message is acknowledged only after its handler completed for one of its
\* deliveries: no error path, restart or late answer acknowledges it
\* (processMessage, ack inside the try).
AckedIsHandled ==
  \A m \in Message : status[m] = "acked" => Attempts(m) # {}

\* A valid message leaves the stream unhandled only through
\* onMaxRetriesExceeded, where a subclass could save it; it takes a stop, a
\* crash or a lost answer to drop one unreported (max_deliver against
\* deliveryAttempt >= maxRetries).
GivenUpIsReported ==
  \A m \in Message \ Invalid :
    GivenUp(m) /\ Attempts(m) = {} /\ interrupts = 0 => m \in reported

\* The retries the client's count leaves of the maxRetries that max_deliver
\* allows: a count that begins at 1 gives up with one delivery left.
Retries == maxRetries - FirstDelivery

\* A message is reported as failed for good only after the first delivery and
\* these retries, whichever copy of it fails first (processMessage against
\* max_deliver).
ReportedIsExhausted ==
  \A m \in reported : deliveries[m] >= 1 + Retries

\* Unless handleEvent fails more often than there are such retries, every valid
\* message that was published is handled, however many acknowledgement deadlines
\* pass meanwhile, if no stop, crash or lost answer interrupts the consumer.
EventuallyHandled ==
  \A m \in Message \ Invalid :
    status[m] # "absent" ~>
      Attempts(m) # {} \/ failures > Retries \/ interrupts > 0
=============================================================================
