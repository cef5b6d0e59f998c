------------------------ MODULE UploadSessionProofs ------------------------
(***************************************************************************)
(* Proofs about UploadSession, for any number of files, timers, instances  *)
(* and requests per window, and any length of the window.                  *)
(***************************************************************************)
EXTENDS UploadSession, TLAPS

----------------------------------------------------------------------------
(* Seconds.                                                                *)

LEMMA Division ==
  \A a \in Nat : /\ a \div Second \in Nat
                 /\ (a \div Second) * Second <= a
                 /\ a < (a \div Second) * Second + Second
  BY ClockAssumption

\* Math.ceil rounds to a time that is not shorter, and keeps the order of times.
LEMMA CeilIsEnough ==
  \A a \in Nat : CeilSeconds(a) \in Nat /\ CeilSeconds(a) * Second >= a
<1> TAKE a \in Nat
<1>1. a + Second - 1 \in Nat
  BY ClockAssumption
<1> QED
  BY <1>1, Division, ClockAssumption DEF CeilSeconds

LEMMA CeilIsMonotone ==
  \A a, b \in Nat : a <= b => CeilSeconds(a) <= CeilSeconds(b)
<1> TAKE a, b \in Nat
<1> HAVE a <= b
<1> DEFINE x == CeilSeconds(a)
           y == CeilSeconds(b)
<1>1. a + Second - 1 \in Nat /\ b + Second - 1 \in Nat
  BY ClockAssumption
<1>2. /\ x \in Nat /\ y \in Nat
      /\ x * Second <= a + Second - 1
      /\ b + Second - 1 < y * Second + Second
  BY <1>1, Division DEF CeilSeconds
<1> HIDE DEF x, y
<1>3. x * Second < (y + 1) * Second
  BY <1>2, ClockAssumption
<1>4. x < y + 1
  <2> SUFFICES ASSUME x >= y + 1 PROVE FALSE
    BY <1>2
  <2>1. x * Second >= (y + 1) * Second
    BY <1>2, ClockAssumption
  <2> QED
    BY <1>2, <1>3, <2>1, ClockAssumption
<1> QED
  BY <1>2, <1>4 DEF x, y

LEMMA RetryAfterRange ==
  ASSUME RateLimitTypeOK, NEW s \in Store
  PROVE  /\ RetryAfter(s) \in 0 .. MaxRetryAfter
         /\ RetryAfter(s) * Second >= ttl[s]
         /\ RetryAfter(s) * Second > 0
<1> DEFINE left == IF ttl[s] > 0 THEN ttl[s] ELSE windowMs
<1>1. left \in Nat /\ left > 0 /\ left <= windowMs /\ left >= ttl[s]
  BY RateLimitAssumption DEF RateLimitTypeOK
<1>2. RetryAfter(s) = CeilSeconds(left)
  BY DEF RetryAfter
<1> HIDE DEF left
<1>3. CeilSeconds(left) \in Nat /\ CeilSeconds(left) * Second >= left
  BY <1>1, CeilIsEnough
<1>4. CeilSeconds(left) <= CeilSeconds(windowMs) /\ CeilSeconds(windowMs) \in Nat
  BY <1>1, CeilIsMonotone, CeilIsEnough, RateLimitAssumption
<1>5. CeilSeconds(left) * Second \in Nat /\ ttl[s] \in Nat
  BY <1>3, ClockAssumption, RateLimitAssumption DEF RateLimitTypeOK
<1> QED
  BY <1>1, <1>2, <1>3, <1>4, <1>5, UploadSessionAssumption, UploadQueueAssumption

----------------------------------------------------------------------------
(* Types. A step of the session is a step of its parts.                    *)

LimitStep ==
  \/ \E s \in Store : Grant(s)
  \/ WindowsTick
  \/ UNCHANGED limitVars

QueueStep ==
  \/ UserStep
  \/ PageStep
  \/ \E f \in File, a \in Answer, n \in 0 .. MaxRetryAfter : Respond(f, a, n)
  \/ ClockTick
  \/ UNCHANGED queueVars

LEMMA StoreOfIsStore == \A i \in Instance : StoreOf(i) \in Store
  BY DEF StoreOf, Store

LEMMA PartsStep ==
  ASSUME RateLimitTypeOK, [Next]_vars
  PROVE  LimitStep /\ QueueStep
<1> USE DEF LimitStep, QueueStep
<1>1. CASE UNCHANGED vars
  BY <1>1 DEF vars
<1>2. CASE UserActs
  BY <1>2 DEF UserActs
<1>3. CASE PageActs
  BY <1>3 DEF PageActs
<1>4. ASSUME NEW i \in Instance, NEW f \in File, Accept(i, f)
      PROVE  LimitStep /\ QueueStep
  BY <1>4, StoreOfIsStore, UploadQueueAssumption DEF Accept, Answer
<1>5. ASSUME NEW i \in Instance, NEW f \in File, Refuse(i, f)
      PROVE  LimitStep /\ QueueStep
  BY <1>5, StoreOfIsStore, RetryAfterRange DEF Refuse, Reject, Answer
<1>6. CASE \E f \in File : Break(f)
  BY <1>6, UploadQueueAssumption DEF Break, Answer
<1>7. CASE \E i \in Instance : OtherUpload(i)
  BY <1>7, StoreOfIsStore DEF OtherUpload
<1>8. CASE Tick
  BY <1>8 DEF Tick
<1> QED
  BY <1>1, <1>2, <1>3, <1>4, <1>5, <1>6, <1>7, <1>8 DEF Next

LEMMA LimitTypeStep == RateLimitTypeOK /\ LimitStep => RateLimitTypeOK'
<1> SUFFICES ASSUME RateLimitTypeOK, LimitStep PROVE RateLimitTypeOK'
  OBVIOUS
<1> USE RateLimitAssumption DEF RateLimitTypeOK
<1>1. ASSUME NEW s \in Store, Grant(s) PROVE RateLimitTypeOK'
  <2>1. Current(s) \in 0 .. max
    BY DEF Current
  <2>2. (IF Current(s) < max THEN Current(s) + 1 ELSE max) \in 0 .. max
    BY <2>1
  <2>3. windowMs \in 0 .. windowMs
    OBVIOUS
  <2> QED
    BY <1>1, <2>2, <2>3 DEF Grant
<1>2. CASE WindowsTick
  BY <1>2 DEF WindowsTick
<1>3. CASE UNCHANGED limitVars
  BY <1>3 DEF limitVars
<1> QED
  BY <1>1, <1>2, <1>3 DEF LimitStep

LEMMA NewTimerIsFree ==
  Timer \ Armed # {} => NewTimer \in Timer \ Armed
<1> SUFFICES ASSUME Timer \ Armed # {} PROVE NewTimer \in Timer \ Armed
  OBVIOUS
<1> PICK t \in Timer : t \notin Armed
  OBVIOUS
<1> QED
  BY DEF NewTimer

\* The reducer's reset, a timer that is set or cleared, keep the types.
LEMMA ResetType ==
  ASSUME UploadQueueTypeOK, Reset
  PROVE  (/\ status \in [File -> FileStatus \union {"new", "gone"}]
          /\ isPaused \in BOOLEAN /\ isStopped \in BOOLEAN
          /\ pausedUntil \in TimeLeft \union {None})'
  BY DEF Reset, Without, UploadQueueTypeOK

LEMMA SetTimerType ==
  ASSUME UploadQueueTypeOK, NEW time \in TimeLeft, SetTimer(time)
  PROVE  (/\ timers \in [Timer -> TimeLeft \union {None}]
          /\ resumeTimeoutRef \in Timer \union {None})'
  BY NewTimerIsFree DEF SetTimer, UploadQueueTypeOK

LEMMA ClearTimerType ==
  ASSUME UploadQueueTypeOK, ClearTimer
  PROVE  (/\ timers \in [Timer -> TimeLeft \union {None}]
          /\ resumeTimeoutRef \in Timer \union {None})'
  BY DEF ClearTimer, UploadQueueTypeOK

LEMMA SettleType ==
  ASSUME UploadQueueTypeOK, NEW f \in File, NEW s \in FileStatus, NEW paused \in BOOLEAN,
         NEW until \in TimeLeft \union {None}, Settle(f, s, paused, until)
  PROVE  (/\ status \in [File -> FileStatus \union {"new", "gone"}]
          /\ isPaused \in BOOLEAN /\ isStopped \in BOOLEAN
          /\ pausedUntil \in TimeLeft \union {None})'
<1>1. CASE StopIsOver(Settled(f, s))
  BY <1>1, ResetType DEF Settle
<1>2. CASE ~StopIsOver(Settled(f, s))
  BY <1>2 DEF Settle, Settled, UploadQueueTypeOK
<1> QED
  BY <1>1, <1>2

LEMMA QueueTypeStep == UploadQueueTypeOK /\ QueueStep => UploadQueueTypeOK'
<1> SUFFICES ASSUME UploadQueueTypeOK, QueueStep PROVE UploadQueueTypeOK'
  OBVIOUS
<1> USE UploadQueueAssumption, ClockAssumption
<1> DEFINE Typed == UploadQueueTypeOK'
<1> 0 \in 0 .. MaxRetryAfter
  OBVIOUS
<1>1. ASSUME NEW S \in SUBSET File, AddFiles(S) PROVE Typed
  BY <1>1 DEF AddFiles, UploadQueueTypeOK, FileStatus, timerVars, flightVars
<1>2. CASE StopQueue
  BY <1>2, ClearTimerType DEF StopQueue, UploadQueueTypeOK, flightVars
<1>3. CASE ResumeQueue
  <2>1. (isPaused \in BOOLEAN /\ isStopped \in BOOLEAN /\ pausedUntil \in TimeLeft \union {None})'
    BY <1>3 DEF ResumeQueue, Resumed, UploadQueueTypeOK
  <2>2. InsideRateLimit => pausedUntil \in TimeLeft
    BY DEF InsideRateLimit, UploadQueueTypeOK
  <2>3. (timers \in [Timer -> TimeLeft \union {None}] /\ resumeTimeoutRef \in Timer \union {None})'
    BY <1>3, <2>2, SetTimerType DEF ResumeQueue, UploadQueueTypeOK
  <2> QED
    BY <1>3, <2>1, <2>3 DEF ResumeQueue, UploadQueueTypeOK, flightVars
<1>4. CASE RetryFailed
  BY <1>4 DEF RetryFailed, Retried, UploadQueueTypeOK, FileStatus, timerVars, flightVars
<1>5. CASE CancelAll
  BY <1>5, ResetType, ClearTimerType DEF CancelAll, UploadQueueTypeOK, flightVars
<1>6. CASE ClearCompleted
  BY <1>6 DEF ClearCompleted, Without, UploadQueueTypeOK, timerVars, flightVars
<1>7. CASE Dismiss
  BY <1>7 DEF Dismiss, UploadQueueTypeOK, reducerVars, timerVars, flightVars
<1>8. CASE Dismissed
  <2>1. CASE dismissing = "cancel"
    BY <1>8, <2>1, ResetType, ClearTimerType DEF Dismissed, UploadQueueTypeOK, flightVars
  <2>2. CASE dismissing # "cancel"
    BY <1>8, <2>2 DEF Dismissed, Without, UploadQueueTypeOK, flightVars
  <2> QED
    BY <2>1, <2>2
<1>9. ASSUME NEW f \in File, StartUpload(f) PROVE Typed
  BY <1>9 DEF StartUpload, UploadQueueTypeOK, FileStatus, timerVars
<1>10. ASSUME NEW f \in File, Answered(f) PROVE Typed
  <2> DEFINE s == IF flight[f] = "error" THEN "failed" ELSE flight[f]
  <2>1. s \in FileStatus
    BY <1>10 DEF Answered, FileStatus
  <2>2. Settle(f, s, isPaused, pausedUntil)
    BY <1>10 DEF Answered
  <2> HIDE DEF s
  <2>3. (/\ status \in [File -> FileStatus \union {"new", "gone"}]
         /\ isPaused \in BOOLEAN /\ isStopped \in BOOLEAN
         /\ pausedUntil \in TimeLeft \union {None})'
    BY <2>1, <2>2, SettleType DEF UploadQueueTypeOK
  <2>4. (flight \in [File -> Answer \union {"none", "sent"}] /\ retryAfter \in [File -> 0 .. MaxRetryAfter])'
    BY <1>10 DEF Answered, UploadQueueTypeOK
  <2> QED
    BY <1>10, <2>3, <2>4 DEF Answered, UploadQueueTypeOK, timerVars
<1>11. ASSUME NEW f \in File, RateLimited(f) PROVE Typed
  <2>1. retryAfter[f] * Second \in TimeLeft
    <3>1. retryAfter[f] \in Nat /\ retryAfter[f] <= MaxRetryAfter
      BY DEF UploadQueueTypeOK
    <3>2. retryAfter[f] * Second <= MaxRetryAfter * Second /\ retryAfter[f] * Second \in Nat
      BY <3>1
    <3> QED
      BY <3>2 DEF TimeLeft
  <2>2. (/\ status \in [File -> FileStatus \union {"new", "gone"}]
         /\ isPaused \in BOOLEAN /\ isStopped \in BOOLEAN
         /\ pausedUntil \in TimeLeft \union {None})'
    BY <1>11, <2>1, SettleType DEF RateLimited, FileStatus
  <2>3. (timers \in [Timer -> TimeLeft \union {None}] /\ resumeTimeoutRef \in Timer \union {None})'
    BY <1>11, <2>1, SetTimerType DEF RateLimited
  <2>4. (flight \in [File -> Answer \union {"none", "sent"}] /\ retryAfter \in [File -> 0 .. MaxRetryAfter])'
    BY <1>11 DEF RateLimited, UploadQueueTypeOK
  <2> QED
    BY <1>11, <2>2, <2>3, <2>4 DEF RateLimited, UploadQueueTypeOK
<1>12. ASSUME NEW t \in Timer, ResumeTimer(t) PROVE Typed
  <2>1. (isPaused \in BOOLEAN /\ isStopped \in BOOLEAN /\ pausedUntil \in TimeLeft \union {None})'
    BY <1>12 DEF ResumeTimer, Resumed, UploadQueueTypeOK
  <2> QED
    BY <1>12, <2>1 DEF ResumeTimer, Retried, UploadQueueTypeOK, FileStatus, flightVars
<1>13. ASSUME NEW f \in File, NEW a \in Answer, NEW n \in 0 .. MaxRetryAfter, Respond(f, a, n)
       PROVE  Typed
  BY <1>13 DEF Respond, UploadQueueTypeOK, reducerVars, timerVars
<1>14. CASE ClockTick
  <2>1. \A time \in TimeLeft \union {None} : Less(time) \in TimeLeft \union {None}
    BY DEF Less, TimeLeft
  <2> QED
    BY <1>14, <2>1 DEF ClockTick, UploadQueueTypeOK, flightVars
<1>15. CASE UNCHANGED queueVars
  BY <1>15 DEF queueVars, reducerVars, timerVars, flightVars, UploadQueueTypeOK
<1> QED
  BY <1>1, <1>2, <1>3, <1>4, <1>5, <1>6, <1>7, <1>8, <1>9, <1>10, <1>11, <1>12, <1>13, <1>14,
     <1>15
  DEF QueueStep, UserStep, PageStep

LEMMA TypeInit == Init => TypeOK
<1> SUFFICES ASSUME Init PROVE TypeOK
  OBVIOUS
<1>1. UploadQueueTypeOK
  <2> 0 \in 0 .. MaxRetryAfter
    BY UploadQueueAssumption
  <2> QED
    BY DEF Init, UploadQueueInit, UploadQueueTypeOK
<1>2. RateLimitTypeOK
  BY RateLimitAssumption DEF Init, RateLimitInit, RateLimitTypeOK
<1> QED
  BY <1>1, <1>2 DEF Init, TypeOK

LEMMA TypeStep == TypeOK /\ [Next]_vars => TypeOK'
<1> SUFFICES ASSUME TypeOK, [Next]_vars PROVE TypeOK'
  OBVIOUS
<1>1. (UploadQueueTypeOK /\ RateLimitTypeOK)'
  BY PartsStep, LimitTypeStep, QueueTypeStep DEF TypeOK
<1>2. (rejectedBy \in [File -> Store \union {NoStore}])'
  BY StoreOfIsStore DEF TypeOK, Next, vars, UserActs, PageActs, Accept, Refuse, Break, OtherUpload, Tick
<1> QED
  BY <1>1, <1>2 DEF TypeOK

\* Types and ranges: no Retry-After of the limiter is longer than its window.
THEOREM TypeCorrect == Spec => []TypeOK
  BY TypeInit, TypeStep, PTL DEF Spec

----------------------------------------------------------------------------
(* The rate limiter.                                                       *)

\* A counter that is worth anything counts what its window let through.
CountIsGranted ==
  \A s \in Store : granted[s] <= max /\ (Current(s) # 0 => granted[s] = count[s])

LimitInv == TypeOK /\ CountIsGranted

LEMMA LimitInit == Init => LimitInv
  BY TypeInit, RateLimitAssumption DEF Init, RateLimitInit, LimitInv, CountIsGranted, Current

LEMMA LimitInvStep == LimitInv /\ [Next]_vars => LimitInv'
<1> SUFFICES ASSUME LimitInv, [Next]_vars PROVE CountIsGranted'
  BY TypeStep DEF LimitInv
<1> RateLimitTypeOK /\ LimitStep
  BY PartsStep DEF LimitInv, TypeOK
<1> USE RateLimitAssumption DEF RateLimitTypeOK, LimitInv, CountIsGranted
<1>1. ASSUME NEW s \in Store, Grant(s) PROVE CountIsGranted'
  <2>1. Current(s) < max /\ Current(s) \in Nat
    BY <1>1 DEF Grant, Exceeded, Current
  <2>2. CASE Current(s) = 0
    BY <1>1, <2>1, <2>2 DEF Grant, Current
  <2>3. CASE Current(s) # 0
    <3>1. Current(s) = count[s]
      BY <2>3 DEF Current
    <3> QED
      BY <1>1, <2>1, <2>3, <3>1 DEF Grant, Current
  <2> QED
    BY <2>2, <2>3
<1>2. CASE WindowsTick
  BY <1>2 DEF WindowsTick, Current
<1>3. CASE UNCHANGED limitVars
  BY <1>3 DEF limitVars, Current
<1> QED
  BY <1>1, <1>2, <1>3 DEF LimitStep

\* checkRateLimit: however many instances share a store, a window lets through
\* no more requests than rateLimitMax.
THEOREM GrantsAreLimited == Spec => []GrantedPerWindow
<1>1. LimitInv => GrantedPerWindow
  BY DEF LimitInv, CountIsGranted, GrantedPerWindow
<1> QED
  BY <1>1, LimitInit, LimitInvStep, PTL DEF Spec

----------------------------------------------------------------------------
(* Requests in flight.                                                     *)

LEMMA ResetLeavesNothing ==
  ASSUME UploadQueueTypeOK, Reset
  PROVE  \A f \in File : status'[f] \in {"new", "gone"} /\ (status[f] = "gone" => status'[f] = "gone")
                         /\ (status[f] # "new" => status'[f] = "gone")
  BY DEF Reset, Without, Queued, FileStatus, UploadQueueTypeOK

\* An answer changes its own file, or leaves a queue in which none waits.
LEMMA SettleChanges ==
  ASSUME UploadQueueTypeOK, NEW f \in File, NEW s \in {"success", "duplicate", "failed"},
         NEW paused, NEW until, Settle(f, s, paused, until)
  PROVE  /\ status'[f] \in {"new", "gone", s}
         /\ \A g \in File \ {f} :
              \/ status'[g] = status[g]
              \/ status[g] \notin {"new", "pending", "uploading"} /\ status'[g] = "gone"
<1>1. CASE StopIsOver(Settled(f, s))
  <2>1. Reset
    BY <1>1 DEF Settle
  <2>2. \A g \in File \ {f} : Settled(f, s)[g] = status[g]
    BY DEF Settled, UploadQueueTypeOK
  <2>3. \A g \in File \ {f} : status[g] \notin {"pending", "uploading"}
    BY <1>1, <2>2 DEF StopIsOver, Waiting
  <2> QED
    BY <2>1, <2>3 DEF Reset, Without, Queued, FileStatus, UploadQueueTypeOK
<1>2. CASE ~StopIsOver(Settled(f, s))
  <2>1. status' = Settled(f, s)
    BY <1>2 DEF Settle
  <2> QED
    BY <2>1 DEF Settled, Queued, FileStatus, UploadQueueTypeOK
<1> QED
  BY <1>1, <1>2

LEMMA AnswerChanges ==
  ASSUME UploadQueueTypeOK, NEW f \in File, Answered(f) \/ RateLimited(f)
  PROVE  /\ status'[f] \in {"new", "gone", "success", "duplicate", "failed"}
         /\ \A g \in File \ {f} :
              \/ status'[g] = status[g]
              \/ status[g] \notin {"new", "pending", "uploading"} /\ status'[g] = "gone"
         /\ flight[f] # "none" /\ flight' = [flight EXCEPT ![f] = "none"]
<1>1. CASE Answered(f)
  <2> DEFINE s == IF flight[f] = "error" THEN "failed" ELSE flight[f]
  <2>1. s \in {"success", "duplicate", "failed"} /\ Settle(f, s, isPaused, pausedUntil)
    BY <1>1 DEF Answered
  <2> HIDE DEF s
  <2> QED
    BY <1>1, <2>1, SettleChanges DEF Answered
<1>2. CASE RateLimited(f)
  BY <1>2, SettleChanges DEF RateLimited
<1> QED
  BY <1>1, <1>2

FlightInv == TypeOK /\ InFlightIsShown

LEMMA FlightInit == Init => FlightInv
  BY TypeInit DEF Init, UploadQueueInit, FlightInv, InFlightIsShown, Uploading

LEMMA FlightStep == FlightInv /\ [Next]_vars => FlightInv'
<1> SUFFICES ASSUME FlightInv, [Next]_vars PROVE InFlightIsShown'
  BY TypeStep DEF FlightInv
<1> UploadQueueTypeOK /\ QueueStep
  BY PartsStep DEF FlightInv, TypeOK
<1> USE DEF FlightInv, InFlightIsShown, Uploading, flightVars
<1>1. ASSUME NEW S \in SUBSET File, AddFiles(S) PROVE InFlightIsShown'
  BY <1>1 DEF AddFiles, UploadQueueTypeOK
<1>2. CASE StopQueue \/ ResumeQueue
  BY <1>2 DEF StopQueue, ResumeQueue
<1>3. CASE RetryFailed
  BY <1>3 DEF RetryFailed, Retried, UploadQueueTypeOK
<1>4. CASE CancelAll
  BY <1>4, ResetLeavesNothing DEF CancelAll
<1>5. CASE ClearCompleted
  BY <1>5 DEF ClearCompleted, Without, Completed, UploadQueueTypeOK
<1>6. CASE Dismiss
  BY <1>6 DEF Dismiss, reducerVars
<1>7. CASE Dismissed
  <2>1. CASE dismissing = "cancel"
    BY <1>7, <2>1, ResetLeavesNothing DEF Dismissed
  <2>2. CASE dismissing # "cancel"
    BY <1>7, <2>2 DEF Dismissed, Without, Completed, UploadQueueTypeOK
  <2> QED
    BY <2>1, <2>2
<1>8. ASSUME NEW f \in File, StartUpload(f) PROVE InFlightIsShown'
  BY <1>8 DEF StartUpload, MayStart, UploadQueueTypeOK
<1>9. ASSUME NEW f \in File, Answered(f) \/ RateLimited(f) PROVE InFlightIsShown'
  BY <1>9, AnswerChanges DEF UploadQueueTypeOK
<1>10. ASSUME NEW t \in Timer, ResumeTimer(t) PROVE InFlightIsShown'
  BY <1>10 DEF ResumeTimer, Retried, UploadQueueTypeOK
<1>11. ASSUME NEW f \in File, NEW a \in Answer, NEW n \in 0 .. MaxRetryAfter, Respond(f, a, n)
       PROVE  InFlightIsShown'
  BY <1>11 DEF Respond, reducerVars, UploadQueueTypeOK, Answer
<1>12. CASE ClockTick \/ UNCHANGED queueVars
  BY <1>12 DEF ClockTick, queueVars, reducerVars
<1> QED
  BY <1>1, <1>2, <1>3, <1>4, <1>5, <1>6, <1>7, <1>8, <1>9, <1>10, <1>11, <1>12
  DEF QueueStep, UserStep, PageStep

\* One upload at a time, and the queue shows what is in flight.
THEOREM InFlightShown == Spec => []InFlightIsShown
<1>1. FlightInv => InFlightIsShown
  BY DEF FlightInv
<1> QED
  BY <1>1, FlightInit, FlightStep, PTL DEF Spec

\* An answer, a timer or the clearing of finished files drops no file that waits.
THEOREM DropsAreRequested == Spec => DropsOnlyOnRequest
<1> DEFINE Requested(f) ==
      \/ CancelAll \/ (Dismissed /\ dismissing = "cancel")
      \/ flight[f] # "none" /\ flight'[f] = "none"
<1>1. ASSUME TypeOK, [Next]_vars
      PROVE  \A f \in Waiting(status) : status'[f] = "gone" => Requested(f)
  <2> SUFFICES ASSUME NEW f \in File, status[f] \in {"pending", "uploading"},
                      status'[f] = "gone", ~CancelAll
               PROVE  (Dismissed /\ dismissing = "cancel") \/ (flight[f] # "none" /\ flight'[f] = "none")
    BY DEF Waiting
  <2> UploadQueueTypeOK /\ QueueStep
    BY <1>1, PartsStep DEF TypeOK
  <2> USE DEF UploadQueueTypeOK
  <2>1. CASE UserStep
    BY <2>1 DEF UserStep, AddFiles, StopQueue, ResumeQueue, RetryFailed, Retried, ClearCompleted,
       Without, Completed, Dismiss, reducerVars
  <2>2. CASE Dismissed
    BY <2>2 DEF Dismissed, Without, Completed
  <2>3. ASSUME NEW g \in File, Answered(g) \/ RateLimited(g)
        PROVE  flight[f] # "none" /\ flight'[f] = "none"
    BY <2>3, AnswerChanges
  <2>4. ASSUME NEW g \in File, StartUpload(g) PROVE FALSE
    BY <2>4 DEF StartUpload
  <2>5. ASSUME NEW t \in Timer, ResumeTimer(t) PROVE FALSE
    BY <2>5 DEF ResumeTimer, Retried
  <2>6. CASE ClockTick \/ UNCHANGED queueVars
             \/ \E g \in File, a \in Answer, n \in 0 .. MaxRetryAfter : Respond(g, a, n)
    BY <2>6 DEF ClockTick, queueVars, reducerVars, Respond
  <2> QED
    BY <2>1, <2>2, <2>3, <2>4, <2>5, <2>6 DEF QueueStep, PageStep
<1> QED
  BY <1>1, TypeCorrect, PTL DEF Spec, DropsOnlyOnRequest

----------------------------------------------------------------------------
(* Timers.                                                                 *)

\* The timer the buttons would clear runs out when the rate limit does.
RefKeepsTime ==
  resumeTimeoutRef \in Armed /\ pausedUntil # None => timers[resumeTimeoutRef] = pausedUntil

PauseInv == TypeOK /\ RefKeepsTime /\ PausedHasTimer

LEMMA PauseInit == Init => PauseInv
  BY TypeInit, UploadQueueAssumption
  DEF Init, UploadQueueInit, PauseInv, RefKeepsTime, PausedHasTimer

LEMMA SetTimerArms ==
  ASSUME UploadQueueTypeOK, NEW time \in TimeLeft, SetTimer(time)
  PROVE  /\ NewTimer \in Timer \ Armed
         /\ resumeTimeoutRef' = NewTimer
         /\ Armed' = Armed \union {NewTimer}
         /\ timers'[NewTimer] = time
         /\ \A t \in Timer \ {NewTimer} : timers'[t] = timers[t]
<1>1. NewTimer \in Timer \ Armed
  BY NewTimerIsFree DEF SetTimer
<1>2. time # None
  BY UploadQueueAssumption, ClockAssumption DEF TimeLeft
<1>3. /\ timers' = [timers EXCEPT ![NewTimer] = time]
      /\ resumeTimeoutRef' = NewTimer
  BY DEF SetTimer
<1> QED
  BY <1>1, <1>2, <1>3 DEF Armed, UploadQueueTypeOK

LEMMA LimitedTime ==
  ASSUME UploadQueueTypeOK, NEW f \in File
  PROVE  retryAfter[f] * Second \in TimeLeft
<1>1. retryAfter[f] \in Nat /\ retryAfter[f] <= MaxRetryAfter
  BY DEF UploadQueueTypeOK
<1>2. retryAfter[f] * Second <= MaxRetryAfter * Second /\ retryAfter[f] * Second \in Nat
  BY <1>1, ClockAssumption, UploadQueueAssumption
<1> QED
  BY <1>2 DEF TimeLeft

LEMMA PauseStep == PauseInv /\ [Next]_vars => PauseInv'
<1> SUFFICES ASSUME PauseInv, [Next]_vars PROVE (RefKeepsTime /\ PausedHasTimer)'
  BY TypeStep DEF PauseInv
<1> UploadQueueTypeOK /\ QueueStep
  BY PartsStep DEF PauseInv, TypeOK
<1> USE UploadQueueAssumption DEF PauseInv, RefKeepsTime, PausedHasTimer, timerVars
<1> DEFINE Kept == (RefKeepsTime /\ PausedHasTimer)'
<1>1. CASE \E S \in SUBSET File : AddFiles(S)
  BY <1>1 DEF AddFiles, Armed
<1>2. CASE StopQueue \/ CancelAll \/ (Dismissed /\ dismissing = "cancel")
  BY <1>2 DEF StopQueue, CancelAll, Dismissed, Reset, ClearTimer, Armed
<1>3. CASE ResumeQueue
  <2>1. CASE InsideRateLimit
    <3>1. pausedUntil \in TimeLeft
      BY <2>1 DEF InsideRateLimit, UploadQueueTypeOK
    <3>2. SetTimer(pausedUntil) /\ pausedUntil' = pausedUntil
      BY <1>3, <2>1 DEF ResumeQueue, Resumed
    <3> QED
      BY <3>1, <3>2, SetTimerArms
  <2>2. CASE ~InsideRateLimit
    BY <1>3, <2>2 DEF ResumeQueue, Resumed, Armed
  <2> QED
    BY <2>1, <2>2
<1>4. CASE RetryFailed \/ ClearCompleted \/ (Dismissed /\ dismissing # "cancel")
  BY <1>4 DEF RetryFailed, ClearCompleted, Dismissed, Armed
<1>5. CASE Dismiss
  BY <1>5 DEF Dismiss, reducerVars, Armed
<1>6. CASE \E f \in File : StartUpload(f)
  BY <1>6 DEF StartUpload, Armed
<1>7. ASSUME NEW f \in File, Answered(f) PROVE Kept
  BY <1>7 DEF Answered, Settle, Reset, Armed
<1>8. ASSUME NEW f \in File, RateLimited(f) PROVE Kept
  <2> DEFINE time == retryAfter[f] * Second
  <2>1. time \in TimeLeft
    BY LimitedTime
  <2>2. SetTimer(time) /\ (pausedUntil' = time \/ pausedUntil' = None)
    BY <1>8 DEF RateLimited, Settle, Reset
  <2> HIDE DEF time
  <2> QED
    BY <2>1, <2>2, SetTimerArms
<1>9. ASSUME NEW t \in Timer, ResumeTimer(t) PROVE Kept
  <2>1. timers[t] = 0 /\ timers' = [timers EXCEPT ![t] = None] /\ t \in Armed
    BY <1>9 DEF ResumeTimer, Armed
  <2>2. pausedUntil' = None \/ pausedUntil' = pausedUntil
    BY <1>9 DEF ResumeTimer, Resumed
  <2>3. RefKeepsTime'
    BY <1>9, <2>1, <2>2 DEF ResumeTimer, Armed, UploadQueueTypeOK
  <2>4. CASE isStopped /\ InsideRateLimit
    <3>1. t # resumeTimeoutRef
      BY <2>1, <2>4 DEF InsideRateLimit
    <3>2. stranded'
      BY <1>9, <2>1, <2>4, <3>1 DEF ResumeTimer, Forgotten
    <3> QED
      BY <2>3, <3>2
  <2>5. CASE ~(isStopped /\ InsideRateLimit)
    BY <1>9, <2>3, <2>5 DEF ResumeTimer, Resumed
  <2> QED
    BY <2>4, <2>5
<1>10. CASE \E f \in File, a \in Answer, n \in 0 .. MaxRetryAfter : Respond(f, a, n)
  BY <1>10 DEF Respond, reducerVars, Armed
<1>11. CASE ClockTick
  <2>1. \A time \in TimeLeft \union {None} : Less(time) = None <=> time = None
    BY ClockAssumption DEF Less, TimeLeft
  <2> QED
    BY <1>11, <2>1 DEF ClockTick, Armed, UploadQueueTypeOK
<1>12. CASE UNCHANGED queueVars
  BY <1>12 DEF queueVars, reducerVars, Armed
<1> QED
  BY <1>1, <1>2, <1>3, <1>4, <1>5, <1>6, <1>7, <1>8, <1>9, <1>10, <1>11, <1>12
  DEF QueueStep, UserStep, PageStep

\* A pause is left to a timer that only a forgotten one can have taken away.
THEOREM PauseEnds == Spec => []PausedHasTimer
<1>1. PauseInv => PausedHasTimer
  BY DEF PauseInv
<1> QED
  BY <1>1, PauseInit, PauseStep, PTL DEF Spec

----------------------------------------------------------------------------
(* Retries.                                                                *)

\* A time that outlasts a window which refuses requests.
OutlastsWindow(s, time) == Exceeded(s) /\ time >= ttl[s] /\ time > 0

\* A 429 on its way, and a pause or a stop that keeps a refused file back.
LimitOutlasts ==
  \A f \in File : flight[f] = "limited" /\ rejectedBy[f] \in Store =>
    OutlastsWindow(rejectedBy[f], retryAfter[f] * Second)

HeldBack(f) ==
  /\ isPaused \/ isStopped
  /\ pausedUntil # None
  /\ OutlastsWindow(rejectedBy[f], pausedUntil)

\* Where a file can be whose window is still open.
RefusedIsHeld(f) ==
  /\ status[f] # "new"
  /\ ~cutShort => /\ status[f] = "uploading" => flight[f] = "limited"
                  /\ status[f] \in {"pending", "failed"} => HeldBack(f)

RetryInv ==
  /\ FlightInv
  /\ PauseInv
  /\ LimitOutlasts
  /\ \A f \in File : rejectedBy[f] \in Store => RefusedIsHeld(f)

LEMMA StoreIsAStore == NoStore \notin Store
  BY UploadSessionAssumption DEF Store, NoStore

LEMMA RetryInit == Init => RetryInv
  BY FlightInit, PauseInit, StoreIsAStore
  DEF Init, UploadQueueInit, RetryInv, LimitOutlasts

\* What the user or the page does brings no new 429 and opens no window.
LEMMA PageKeepsLimits ==
  ASSUME RetryInv, UserStep \/ PageStep, UNCHANGED <<limitVars, rejectedBy>>
  PROVE  LimitOutlasts'
<1>1. \A f \in File : flight'[f] = "limited" => flight[f] = "limited" /\ retryAfter'[f] = retryAfter[f]
  <2> UploadQueueTypeOK
    BY DEF RetryInv, FlightInv, TypeOK
  <2> USE DEF UploadQueueTypeOK, flightVars
  <2>1. CASE UserStep
    BY <2>1 DEF UserStep, AddFiles, StopQueue, ResumeQueue, RetryFailed, CancelAll, ClearCompleted,
       Dismiss
  <2>2. CASE Dismissed \/ \E t \in Timer : ResumeTimer(t)
    BY <2>2 DEF Dismissed, ResumeTimer
  <2>3. ASSUME NEW f \in File, StartUpload(f) \/ Answered(f) \/ RateLimited(f)
        PROVE  \A g \in File : flight'[g] = "limited" =>
                 flight[g] = "limited" /\ retryAfter'[g] = retryAfter[g]
    BY <2>3 DEF StartUpload, Answered, RateLimited
  <2> QED
    BY <2>1, <2>2, <2>3 DEF PageStep
<1> QED
  BY <1>1 DEF RetryInv, LimitOutlasts, OutlastsWindow, Exceeded, Current, limitVars

\* The user's buttons keep a refused file held back.
LEMMA UserKeepsHeld ==
  ASSUME RetryInv, UserStep, UNCHANGED <<limitVars, rejectedBy>>,
         NEW f \in File, rejectedBy[f] \in Store
  PROVE  RefusedIsHeld(f)'
<1> UploadQueueTypeOK /\ RefusedIsHeld(f)
  BY DEF RetryInv, FlightInv, TypeOK
<1> USE DEF RefusedIsHeld, HeldBack, OutlastsWindow, Exceeded, Current, limitVars,
        UploadQueueTypeOK, timerVars, flightVars
<1>1. CASE \E S \in SUBSET File : AddFiles(S)
  BY <1>1 DEF AddFiles
<1>2. CASE StopQueue
  BY <1>2 DEF StopQueue
<1>3. CASE ResumeQueue
  BY <1>3 DEF ResumeQueue, Resumed, InsideRateLimit
<1>4. CASE RetryFailed
  BY <1>4 DEF RetryFailed, Retried
<1>5. CASE CancelAll
  BY <1>5, ResetLeavesNothing DEF CancelAll
<1>6. CASE ClearCompleted
  BY <1>6 DEF ClearCompleted, Without, Completed
<1>7. CASE Dismiss
  BY <1>7 DEF Dismiss, reducerVars
<1> QED
  BY <1>1, <1>2, <1>3, <1>4, <1>5, <1>6, <1>7 DEF UserStep

\* So do answers, timers and the effect, unless they cut a pause short.
LEMMA PageKeepsHeld ==
  ASSUME RetryInv, PageStep, UNCHANGED <<limitVars, rejectedBy>>,
         NEW f \in File, rejectedBy[f] \in Store
  PROVE  RefusedIsHeld(f)'
<1> UploadQueueTypeOK /\ RefusedIsHeld(f) /\ InFlightIsShown
  BY DEF RetryInv, FlightInv, TypeOK
<1> USE DEF RefusedIsHeld, HeldBack, OutlastsWindow, Exceeded, Current, limitVars,
        UploadQueueTypeOK, timerVars, flightVars
<1>1. CASE Dismissed
  BY <1>1, ResetLeavesNothing DEF Dismissed, Without, Completed
<1>2. ASSUME NEW g \in File, StartUpload(g) PROVE RefusedIsHeld(f)'
  BY <1>2 DEF StartUpload, MayStart
<1>3. ASSUME NEW g \in File, Answered(g) PROVE RefusedIsHeld(f)'
  <2>1. /\ status'[g] \in {"new", "gone", "success", "duplicate", "failed"}
        /\ g # f => status'[f] = status[f] \/ status'[f] = "gone"
        /\ flight' = [flight EXCEPT ![g] = "none"]
    BY <1>3, AnswerChanges
  <2>2. UNCHANGED cutShort /\ flight[g] \notin {"none", "limited"}
    BY <1>3 DEF Answered
  <2>3. status[g] \in {"uploading", "gone"}
    BY <2>2 DEF InFlightIsShown
  <2>4. CASE Reset
    BY <2>4, ResetLeavesNothing
  <2>5. CASE ~Reset
    <3>1. UNCHANGED <<isPaused, isStopped, pausedUntil>>
      BY <1>3, <2>5 DEF Answered, Settle
    <3>2. /\ status[g] = "gone" => status'[g] = "gone"
          /\ status[g] = "uploading" => status'[g] \notin {"new", "uploading"}
      BY <1>3, <2>5 DEF Answered, Settle, Settled, Queued, FileStatus
    <3>3. CASE g = f
      BY <2>2, <2>3, <3>2, <3>3
    <3>4. CASE g # f
      BY <2>1, <2>2, <3>1, <3>4
    <3> QED
      BY <3>3, <3>4
  <2> QED
    BY <2>4, <2>5
<1>4. ASSUME NEW g \in File, RateLimited(g) PROVE RefusedIsHeld(f)'
  <2>1. /\ status'[g] \in {"new", "gone", "failed"}
        /\ g # f => status'[f] = status[f] \/ status'[f] = "gone"
    BY <1>4, SettleChanges DEF RateLimited
  <2>2. /\ flight[g] = "limited" /\ flight' = [flight EXCEPT ![g] = "none"]
        /\ cutShort' = (cutShort \/ (InsideRateLimit /\ pausedUntil' # None /\ pausedUntil' < pausedUntil))
    BY <1>4 DEF RateLimited
  <2>3. status[g] \in {"uploading", "gone"}
    BY <2>2 DEF InFlightIsShown
  <2>4. CASE Reset
    BY <2>4, ResetLeavesNothing
  <2>5. CASE ~Reset
    <3> DEFINE time == retryAfter[g] * Second
    <3>1. time \in TimeLeft /\ time # None /\ time \in Int
      BY LimitedTime, UploadQueueAssumption, ClockAssumption DEF TimeLeft
    <3>2. /\ isPaused' = TRUE /\ pausedUntil' = time
          /\ status[g] = "gone" => status'[g] = "gone"
          /\ status[g] = "uploading" => status'[g] = "failed"
      BY <1>4, <2>5 DEF RateLimited, Settle, Settled, Queued, FileStatus
    <3>3. g = f => OutlastsWindow(rejectedBy[f], time)
      BY <2>2 DEF RetryInv, LimitOutlasts
    <3>4. InsideRateLimit /\ ~cutShort' => ~(time < pausedUntil)
      BY <2>2, <3>1, <3>2
    <3>5. ttl[rejectedBy[f]] \in Int /\ (pausedUntil # None => pausedUntil \in Int)
      BY RateLimitAssumption DEF RetryInv, FlightInv, TypeOK, RateLimitTypeOK, TimeLeft
    <3> HIDE DEF time
    <3>6. CASE g = f
      BY <2>3, <3>1, <3>2, <3>3, <3>6
    <3>7. CASE g # f
      BY <2>1, <2>2, <3>1, <3>2, <3>4, <3>5, <3>7 DEF InsideRateLimit
    <3> QED
      BY <3>6, <3>7
  <2> QED
    BY <2>4, <2>5
<1>5. ASSUME NEW t \in Timer, ResumeTimer(t) PROVE RefusedIsHeld(f)'
  <2>1. /\ t \in Armed /\ timers[t] = 0
        /\ status' = Retried /\ Resumed /\ UNCHANGED flight
        /\ cutShort' = (cutShort \/ (t \in Forgotten /\ ~isStopped /\ InsideRateLimit))
    BY <1>5, UploadQueueAssumption DEF ResumeTimer, Armed
  <2>2. CASE cutShort'
    BY <2>1, <2>2 DEF Retried
  <2>3. CASE ~cutShort' /\ status[f] \in {"pending", "failed"}
    <3>1. HeldBack(f) /\ InsideRateLimit
      BY <2>1, <2>3 DEF InsideRateLimit
    <3>2. t # resumeTimeoutRef
      BY <2>1, <3>1 DEF RetryInv, PauseInv, RefKeepsTime, InsideRateLimit
    <3>3. isStopped
      BY <2>1, <2>3, <3>1, <3>2 DEF Forgotten
    <3>4. isPaused' = TRUE /\ UNCHANGED pausedUntil
      BY <2>1, <3>1, <3>3 DEF Resumed
    <3> QED
      BY <2>1, <3>1, <3>4 DEF Retried
  <2>4. CASE ~cutShort' /\ status[f] \notin {"pending", "failed"}
    BY <2>1, <2>4 DEF Retried
  <2> QED
    BY <2>2, <2>3, <2>4
<1> QED
  BY <1>1, <1>2, <1>3, <1>4, <1>5 DEF PageStep

\* A request that is let through touches no window that is exceeded.
LEMMA GrantKeepsExceeded ==
  ASSUME RateLimitTypeOK, NEW s \in Store, Grant(s)
  PROVE  \A r \in Store : Exceeded(r) => Exceeded(r)' /\ ttl'[r] = ttl[r]
<1> SUFFICES ASSUME NEW r \in Store, Exceeded(r) PROVE Exceeded(r)' /\ ttl'[r] = ttl[r]
  OBVIOUS
<1>1. r # s
  BY DEF Grant
<1>2. count'[r] = count[r] /\ ttl'[r] = ttl[r]
  BY <1>1 DEF Grant, RateLimitTypeOK
<1> QED
  BY <1>2 DEF Exceeded, Current

HeldInv == LimitOutlasts /\ \A f \in File : rejectedBy[f] \in Store => RefusedIsHeld(f)

LEMMA RetryStep == RetryInv /\ [Next]_vars => RetryInv'
<1> SUFFICES ASSUME RetryInv, [Next]_vars PROVE HeldInv'
  BY FlightStep, PauseStep DEF RetryInv, HeldInv
<1> UploadQueueTypeOK /\ RateLimitTypeOK /\ InFlightIsShown
  BY DEF RetryInv, FlightInv, TypeOK
<1>t. UploadQueueTypeOK'
  BY FlightStep DEF RetryInv, FlightInv, TypeOK
<1> HeldInv
  BY DEF RetryInv, HeldInv
<1> USE DEF HeldInv
<1>1. CASE UNCHANGED vars
  BY <1>1 DEF vars, queueVars, limitVars, reducerVars, timerVars, flightVars, LimitOutlasts,
     RefusedIsHeld, HeldBack, OutlastsWindow, Exceeded, Current
<1>2. CASE UserActs
  BY <1>2, PageKeepsLimits, UserKeepsHeld DEF UserActs
<1>3. CASE PageActs
  BY <1>3, PageKeepsLimits, PageKeepsHeld DEF PageActs
<1>4. ASSUME UNCHANGED <<reducerVars, timerVars, rejectedBy>>,
             \A r \in Store : Exceeded(r) => Exceeded(r)' /\ ttl'[r] = ttl[r],
             \A g \in File : (flight[g] = "limited" <=> flight'[g] = "limited")
                             /\ (flight[g] = "limited" => retryAfter'[g] = retryAfter[g])
      PROVE  HeldInv'
  BY <1>4 DEF LimitOutlasts, RefusedIsHeld, HeldBack, OutlastsWindow, reducerVars, timerVars
<1>5. ASSUME NEW i \in Instance, NEW f \in File, Accept(i, f) PROVE HeldInv'
  <2>1. \A r \in Store : Exceeded(r) => Exceeded(r)' /\ ttl'[r] = ttl[r]
    BY <1>5, StoreOfIsStore, GrantKeepsExceeded DEF Accept
  <2>2. /\ UNCHANGED <<reducerVars, timerVars, rejectedBy>>
        /\ \A g \in File : (flight[g] = "limited" <=> flight'[g] = "limited")
                           /\ (flight[g] = "limited" => retryAfter'[g] = retryAfter[g])
    BY <1>5 DEF Accept, Respond, UploadQueueTypeOK
  <2> QED
    BY <2>1, <2>2, <1>4
<1>6. ASSUME NEW i \in Instance, NEW f \in File, Refuse(i, f) PROVE HeldInv'
  <2> DEFINE s == StoreOf(i)
             n == RetryAfter(s)
  <2>1. s \in Store /\ Exceeded(s) /\ UNCHANGED limitVars
    BY <1>6, StoreOfIsStore DEF Refuse, Reject
  <2>2. n * Second >= ttl[s] /\ n * Second > 0
    BY <2>1, RetryAfterRange
  <2>3. /\ UNCHANGED <<reducerVars, timerVars>> /\ flight[f] = "sent"
        /\ rejectedBy' = [rejectedBy EXCEPT ![f] = s]
        /\ retryAfter' = [retryAfter EXCEPT ![f] = n]
        /\ flight' = [flight EXCEPT ![f] = "limited"]
    BY <1>6 DEF Refuse, Respond
  <2> HIDE DEF s, n
  <2>4. rejectedBy \in [File -> Store \union {NoStore}]
    BY DEF RetryInv, FlightInv, TypeOK
  <2>5. LimitOutlasts'
    <3> SUFFICES ASSUME NEW g \in File, flight'[g] = "limited", rejectedBy'[g] \in Store
                 PROVE  OutlastsWindow(rejectedBy[g], retryAfter[g] * Second)'
      BY DEF LimitOutlasts
    <3>1. CASE g = f
      <4>1. rejectedBy'[g] = s /\ retryAfter'[g] = n
        BY <3>1, <2>3, <2>4 DEF UploadQueueTypeOK
      <4> QED
        BY <4>1, <2>1, <2>2 DEF OutlastsWindow, Exceeded, Current, limitVars
    <3>2. CASE g # f
      <4>1. /\ rejectedBy'[g] = rejectedBy[g] /\ retryAfter'[g] = retryAfter[g]
            /\ flight'[g] = flight[g]
        BY <3>2, <2>3, <2>4 DEF UploadQueueTypeOK
      <4>2. OutlastsWindow(rejectedBy[g], retryAfter[g] * Second)
        BY <4>1 DEF LimitOutlasts
      <4> QED
        BY <4>1, <4>2, <2>1 DEF OutlastsWindow, Exceeded, Current, limitVars
    <3> QED
      BY <3>1, <3>2
  <2>6. ASSUME NEW g \in File, rejectedBy'[g] \in Store PROVE RefusedIsHeld(g)'
    <3>1. CASE g = f
      <4>1. status'[f] \in {"uploading", "gone"} /\ flight'[f] = "limited"
        BY <2>3 DEF InFlightIsShown, reducerVars, UploadQueueTypeOK
      <4> QED
        BY <3>1, <4>1 DEF RefusedIsHeld
    <3>2. CASE g # f
      <4>1. rejectedBy'[g] = rejectedBy[g] /\ flight'[g] = flight[g]
        BY <3>2, <2>3, <2>4 DEF UploadQueueTypeOK
      <4>2. RefusedIsHeld(g)
        BY <4>1, <2>6
      <4> QED
        BY <4>1, <4>2, <2>1, <2>3
        DEF RefusedIsHeld, HeldBack, OutlastsWindow, Exceeded, Current, limitVars, reducerVars,
            timerVars
    <3> QED
      BY <3>1, <3>2
  <2> QED
    BY <2>5, <2>6
<1>7. CASE \E f \in File : Break(f)
  <2>1. /\ UNCHANGED <<reducerVars, timerVars, rejectedBy, limitVars>>
        /\ \A g \in File : (flight[g] = "limited" <=> flight'[g] = "limited")
                           /\ (flight[g] = "limited" => retryAfter'[g] = retryAfter[g])
    BY <1>7 DEF Break, Respond, UploadQueueTypeOK
  <2>2. \A r \in Store : Exceeded(r) => Exceeded(r)' /\ ttl'[r] = ttl[r]
    BY <2>1 DEF Exceeded, Current, limitVars
  <2> QED
    BY <2>1, <2>2, <1>4
<1>8. CASE \E i \in Instance : OtherUpload(i)
  <2>1. \A r \in Store : Exceeded(r) => Exceeded(r)' /\ ttl'[r] = ttl[r]
    BY <1>8, StoreOfIsStore, GrantKeepsExceeded DEF OtherUpload
  <2>2. UNCHANGED <<reducerVars, timerVars, flightVars, rejectedBy>>
    BY <1>8 DEF OtherUpload, queueVars
  <2> QED
    BY <2>1, <2>2, <1>4 DEF flightVars
<1>9. CASE Tick
  <2>1. \A s \in Store : Exceeded(s) /\ ttl'[s] # 0 =>
          count'[s] = count[s] /\ ttl[s] \in Nat /\ ttl[s] > 1 /\ ttl'[s] = ttl[s] - 1
    BY <1>9 DEF Tick, WindowsTick, Exceeded, Current, RateLimitTypeOK
  <2>2. pausedUntil' # None =>
          /\ pausedUntil # None /\ pausedUntil \in Nat
          /\ pausedUntil > 0 => pausedUntil' = pausedUntil - 1
    BY <1>9, <1>t, UploadQueueAssumption, ClockAssumption
    DEF Tick, ClockTick, Less, UploadQueueTypeOK, TimeLeft
  <2>3. pausedUntil' = None => pausedUntil = None
    BY <1>9, UploadQueueAssumption, ClockAssumption
    DEF Tick, ClockTick, Less, UploadQueueTypeOK, TimeLeft
  <2>4. \A f \in File : rejectedBy'[f] \in Store =>
          rejectedBy'[f] = rejectedBy[f] /\ ttl'[rejectedBy[f]] # 0
    BY <1>9, StoreIsAStore DEF Tick
  <2>5. /\ UNCHANGED <<flightVars, status, isPaused, isStopped, cutShort>>
        /\ \A f \in File : retryAfter[f] * Second \in Nat
    BY <1>9, LimitedTime, ClockAssumption, UploadQueueAssumption DEF Tick, ClockTick, TimeLeft
  <2>6. LimitOutlasts'
    BY <2>1, <2>4, <2>5 DEF LimitOutlasts, OutlastsWindow, Exceeded, Current, flightVars
  <2>7. ASSUME NEW f \in File, rejectedBy'[f] \in Store PROVE RefusedIsHeld(f)'
    <3> DEFINE s == rejectedBy[f]
    <3>1. s \in Store /\ rejectedBy'[f] = s /\ ttl'[s] # 0 /\ RefusedIsHeld(f)
      BY <2>4, <2>7
    <3>2. HeldBack(f) => HeldBack(f)'
      <4> SUFFICES ASSUME HeldBack(f) PROVE HeldBack(f)'
        OBVIOUS
      <4>1. Exceeded(s) /\ pausedUntil >= ttl[s] /\ pausedUntil > 0 /\ pausedUntil # None
        BY DEF HeldBack, OutlastsWindow
      <4>2. pausedUntil' = pausedUntil - 1 /\ pausedUntil \in Nat /\ pausedUntil' # None
        BY <2>2, <2>3, <4>1
      <4>3. count'[s] = count[s] /\ ttl[s] \in Nat /\ ttl[s] > 1 /\ ttl'[s] = ttl[s] - 1
        BY <2>1, <3>1, <4>1
      <4>4. (isPaused \/ isStopped)'
        BY <2>5 DEF HeldBack
      <4> HIDE DEF s
      <4> QED
        BY <3>1, <4>1, <4>2, <4>3, <4>4 DEF HeldBack, OutlastsWindow, Exceeded, Current
    <3> QED
      BY <2>5, <3>1, <3>2 DEF RefusedIsHeld, flightVars
  <2> QED
    BY <2>6, <2>7
<1> QED
  BY <1>1, <1>2, <1>3, <1>5, <1>6, <1>7, <1>8, <1>9 DEF Next

\* No upload starts inside the window that refused its file, unless a pause was
\* cut short.
THEOREM RetriesAreInTime == Spec => []RetryIsInTime
<1>1. RetryInv => RetryIsInTime
  BY DEF RetryInv, FlightInv, TypeOK, RefusedIsHeld, HeldBack, RetryIsInTime, MayStart
<1> QED
  BY <1>1, RetryInit, RetryStep, PTL DEF Spec

=============================================================================
