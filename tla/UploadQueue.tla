---------------------------- MODULE UploadQueue ----------------------------
(***************************************************************************)
(* UploadQueueProvider (apps/web): the files a user dropped on the page,   *)
(* uploaded one after the other. The reducer's state is changed by the     *)
(* user's buttons, by an effect that starts the next upload, by answers    *)
(* that arrive long after, and by the timers a rate limit sets.            *)
(*                                                                         *)
(* Times are what is left of them: pausedUntil and the timers count down.  *)
(* A file that left the queue is "gone"; its upload may still be in flight. *)
(* Which pending file is next is left open (the code takes the first).     *)
(***************************************************************************)
EXTENDS Clock, FiniteSets

CONSTANTS
  File,                 \* files the user may choose; each has its own id
  Timer,                \* bound: timers that may be set at one time
  None,                 \* no time, no timer
  MAX_FILES_PER_BATCH,  \* capacity of the queue
  MaxRetryAfter         \* bound: the longest Retry-After, in seconds

ASSUME UploadQueueAssumption ==
  /\ None \notin Timer \union Int
  /\ MAX_FILES_PER_BATCH \in Nat \ {0}
  /\ MaxRetryAfter \in Nat \ {0}

VARIABLES
  status,           \* of each file: its FileStatus, "new" or "gone"
  isPaused,         \* a rate limit holds the queue
  isStopped,        \* the user holds it
  pausedUntil,      \* time left of the rate limit, or None
  flight,           \* of each file: its request, the answer, or "none"
  retryAfter,       \* the Retry-After of an answer 429
  timers,           \* time left of each timer, or None
  resumeTimeoutRef, \* the timer stopQueue and cancelAll would clear
  dismissing,       \* a dismissed toast: what its timeout will do
  stranded,         \* history: a forgotten timer ended a stop inside a limit
  cutShort          \* history: one ended the pause of another limit, or a later
                    \* 429 put a shorter limit in the place of one that was on

reducerVars == <<status, isPaused, isStopped, pausedUntil>>
timerVars   == <<timers, resumeTimeoutRef, stranded, cutShort>>
flightVars  == <<flight, retryAfter>>
queueVars   == <<reducerVars, timerVars, flightVars, dismissing>>

FileStatus == {"pending", "uploading", "success", "failed", "duplicate"}
Answer == {"success", "duplicate", "error", "limited"}
TimeLeft == 0 .. (MaxRetryAfter * Second)

Waiting(st) == {f \in File : st[f] \in {"pending", "uploading"}}
Queued == {f \in File : status[f] \in FileStatus}
Pending == {f \in File : status[f] = "pending"}
Uploading == {f \in File : status[f] = "uploading"}
Armed == {t \in Timer : timers[t] # None}

\* Timers no button clears any more: a later one took their place in the ref.
Forgotten == {t \in Armed : t # resumeTimeoutRef}

\* Types and ranges of the queue's state, and its capacity (ADD_FILES slices).
UploadQueueTypeOK ==
  /\ status \in [File -> FileStatus \union {"new", "gone"}]
  /\ isPaused \in BOOLEAN
  /\ isStopped \in BOOLEAN
  /\ pausedUntil \in TimeLeft \union {None}
  /\ flight \in [File -> Answer \union {"none", "sent"}]
  /\ retryAfter \in [File -> 0 .. MaxRetryAfter]
  /\ timers \in [Timer -> TimeLeft \union {None}]
  /\ resumeTimeoutRef \in Timer \union {None}
  /\ dismissing \in {"none", "clear", "cancel"}
  /\ stranded \in BOOLEAN
  /\ cutShort \in BOOLEAN

\* initialState, with no file chosen yet.
UploadQueueInit ==
  /\ status = [f \in File |-> "new"]
  /\ isPaused = FALSE
  /\ isStopped = FALSE
  /\ pausedUntil = None
  /\ flight = [f \in File |-> "none"]
  /\ retryAfter = [f \in File |-> 0]
  /\ timers = [t \in Timer |-> None]
  /\ resumeTimeoutRef = None
  /\ dismissing = "none"
  /\ stranded = FALSE
  /\ cutShort = FALSE

----------------------------------------------------------------------------
(* Parts of the reducer.                                                   *)

Without(S) == [f \in File |-> IF f \in S THEN "gone" ELSE status[f]]

\* The state is replaced by initialState.
Reset ==
  /\ status' = Without(Queued)
  /\ isPaused' = FALSE
  /\ isStopped' = FALSE
  /\ pausedUntil' = None

Retried == [f \in File |-> IF status[f] = "failed" THEN "pending" ELSE status[f]]

InsideRateLimit == pausedUntil # None /\ pausedUntil > 0

\* Mutant of Resumed: a timer ends the stop and forgets the pause.
ResumedStillPaused ==
  /\ isStopped' = FALSE
  /\ UNCHANGED <<isPaused, pausedUntil>>

\* RESUME_QUEUE. A stop inside a rate limit becomes a pause.
Resumed ==
  IF isStopped /\ InsideRateLimit
    THEN /\ isStopped' = FALSE
         /\ isPaused' = TRUE
         /\ UNCHANGED pausedUntil
    ELSE /\ isStopped' = FALSE
         /\ isPaused' = FALSE
         /\ pausedUntil' = None

\* The id setTimeout returns: one no armed timer has.
NewTimer == CHOOSE t \in Timer : t \notin Armed

\* Mutant of SetTimer: none is set.
SetNoTimer(time) == UNCHANGED <<timers, resumeTimeoutRef>>

\* setTimeout(..., time), remembered in the ref whatever the ref held.
SetTimer(time) ==
  /\ Timer \ Armed # {}
  /\ timers' = [timers EXCEPT ![NewTimer] = time]
  /\ resumeTimeoutRef' = NewTimer

\* clearTimeout(resumeTimeoutRef.current); a timer that fired is cleared in vain.
ClearTimer ==
  /\ timers' = [t \in Timer |-> IF t = resumeTimeoutRef THEN None ELSE timers[t]]
  /\ resumeTimeoutRef' = None

----------------------------------------------------------------------------
(* The user. A button exists only in the states its guard names.           *)

\* Files are dropped on the page; the zone is disabled while files wait.
AddFiles(S) ==
  /\ Waiting(status) = {}
  /\ S # {}
  /\ \A f \in S : status[f] = "new"
  /\ Cardinality(Queued) + Cardinality(S) <= MAX_FILES_PER_BATCH
  /\ status' = [f \in File |-> IF f \in S THEN "pending" ELSE status[f]]
  /\ UNCHANGED <<isPaused, isStopped, pausedUntil, timerVars, flightVars, dismissing>>

StopQueue ==
  /\ Queued # {}
  /\ isPaused \/ (Waiting(status) # {} /\ ~isStopped)
  /\ isStopped' = TRUE
  /\ isPaused' = FALSE
  /\ ClearTimer
  /\ UNCHANGED <<status, pausedUntil, flightVars, dismissing, stranded, cutShort>>

\* Resume, from the button; a rate limit that is still on gets a timer again.
ResumeQueue ==
  /\ Queued # {}
  /\ isStopped
  /\ Resumed
  /\ IF InsideRateLimit
       THEN SetTimer(pausedUntil)
       ELSE UNCHANGED <<timers, resumeTimeoutRef>>
  /\ UNCHANGED <<status, flightVars, dismissing, stranded, cutShort>>

RetryFailed ==
  /\ \E f \in File : status[f] = "failed"
  /\ status' = Retried
  /\ UNCHANGED <<isPaused, isStopped, pausedUntil, timerVars, flightVars, dismissing>>

\* Clear all: the button hides while the queue is running or paused.
CancelAll ==
  /\ Queued # {}
  /\ ~isPaused
  /\ isStopped \/ Waiting(status) = {}
  /\ Reset
  /\ ClearTimer
  /\ UNCHANGED <<flightVars, dismissing, stranded, cutShort>>

Completed == {f \in File : status[f] \in {"success", "duplicate"}}

ClearCompleted ==
  /\ Queued # {}
  /\ Waiting(status) = {}
  /\ ~isPaused /\ ~isStopped
  /\ status' = Without(Completed)
  /\ UNCHANGED <<isPaused, isStopped, pausedUntil, timerVars, flightVars, dismissing>>

\* The toast is dismissed, by its button or by its own timeout; what happens
\* when it is gone is decided on the files there are now.
Dismiss ==
  /\ dismissing = "none"
  /\ Queued # {}
  /\ Waiting(status) = {}
  /\ ~isPaused
  /\ dismissing' = IF \E f \in File : status[f] = "failed" THEN "clear" ELSE "cancel"
  /\ UNCHANGED <<reducerVars, timerVars, flightVars>>

\* 300 ms later: clearCompleted and, as decided then, cancelAll.
Dismissed ==
  /\ dismissing # "none"
  /\ dismissing' = "none"
  /\ IF dismissing = "cancel"
       THEN Reset /\ ClearTimer
       ELSE /\ status' = Without(Completed)
            /\ UNCHANGED <<isPaused, isStopped, pausedUntil, timers, resumeTimeoutRef>>
  /\ UNCHANGED <<flightVars, stranded, cutShort>>

----------------------------------------------------------------------------
(* Uploads.                                                                *)

\* Mutant of MayStart: the effect forgets to look for an upload in flight.
MayStartBeside(f) == status[f] = "pending" /\ ~isPaused /\ ~isStopped

\* The effect's condition, and that of processNextFile.
MayStart(f) == status[f] = "pending" /\ Uploading = {} /\ ~isPaused /\ ~isStopped

\* processNextFile up to its await.
StartUpload(f) ==
  /\ MayStart(f)
  /\ status' = [status EXCEPT ![f] = "uploading"]
  /\ flight' = [flight EXCEPT ![f] = "sent"]
  /\ UNCHANGED <<isPaused, isStopped, pausedUntil, retryAfter, timerVars, dismissing>>

\* The service, or the network, decides the answer of a request.
Respond(f, a, seconds) ==
  /\ flight[f] = "sent"
  /\ flight' = [flight EXCEPT ![f] = a]
  /\ retryAfter' = [retryAfter EXCEPT ![f] = seconds]
  /\ UNCHANGED <<reducerVars, timerVars, dismissing>>

Settled(f, s) == IF f \in Queued THEN [status EXCEPT ![f] = s] ELSE status

\* Mutant of StopIsOver: files still waiting do not count.
StopIsOverEarly(st) == isStopped /\ \A f \in File : st[f] # "uploading"

\* The last file a stopped queue was waiting for has its answer.
StopIsOver(st) == isStopped /\ Waiting(st) = {}

\* UPLOAD_SUCCESS, UPLOAD_DUPLICATE and UPLOAD_FAILED.
Settle(f, s, paused, until) ==
  IF StopIsOver(Settled(f, s))
    THEN Reset
    ELSE /\ status' = Settled(f, s)
         /\ isPaused' = paused
         /\ pausedUntil' = until
         /\ UNCHANGED isStopped

\* The await returns with an answer that holds nothing up.
Answered(f) ==
  /\ flight[f] \in {"success", "duplicate", "error"}
  /\ Settle(f, IF flight[f] = "error" THEN "failed" ELSE flight[f], isPaused, pausedUntil)
  /\ flight' = [flight EXCEPT ![f] = "none"]
  /\ retryAfter' = [retryAfter EXCEPT ![f] = 0]
  /\ UNCHANGED <<timerVars, dismissing>>

\* It returns with a 429: pause, fail the file, set the timer.
RateLimited(f) ==
  /\ flight[f] = "limited"
  /\ Settle(f, "failed", TRUE, retryAfter[f] * Second)
  /\ SetTimer(retryAfter[f] * Second)
  /\ flight' = [flight EXCEPT ![f] = "none"]
  /\ retryAfter' = [retryAfter EXCEPT ![f] = 0]
  /\ cutShort' = (cutShort \/ (InsideRateLimit /\ pausedUntil' # None /\ pausedUntil' < pausedUntil))
  /\ UNCHANGED <<dismissing, stranded>>

\* A timer fires: RESUME_QUEUE, whatever the user did since, and RETRY_FAILED.
ResumeTimer(t) ==
  /\ timers[t] = 0
  /\ Resumed
  /\ status' = Retried
  /\ timers' = [timers EXCEPT ![t] = None]
  /\ stranded' = (stranded \/ (t \in Forgotten /\ isStopped /\ InsideRateLimit))
  /\ cutShort' = (cutShort \/ (t \in Forgotten /\ ~isStopped /\ InsideRateLimit))
  /\ UNCHANGED <<resumeTimeoutRef, flightVars, dismissing>>

\* A tick of the clock.
Less(time) == IF time = None \/ time = 0 THEN time ELSE time - 1

ClockTick ==
  /\ pausedUntil' = Less(pausedUntil)
  /\ timers' = [t \in Timer |-> Less(timers[t])]
  /\ UNCHANGED <<status, isPaused, isStopped, flightVars, resumeTimeoutRef, dismissing, stranded, cutShort>>

UserStep ==
  \/ \E S \in SUBSET File : AddFiles(S)
  \/ StopQueue
  \/ ResumeQueue
  \/ RetryFailed
  \/ CancelAll
  \/ ClearCompleted
  \/ Dismiss

PageStep ==
  \/ Dismissed
  \/ \E f \in File : StartUpload(f) \/ Answered(f) \/ RateLimited(f)
  \/ \E t \in Timer : ResumeTimer(t)

\* A service that answers as it likes.
ServiceStep ==
  \E f \in File :
    \/ \E a \in Answer \ {"limited"} : Respond(f, a, 0)
    \/ \E n \in 1 .. MaxRetryAfter : Respond(f, "limited", n)

UploadQueueNext == UserStep \/ PageStep \/ ServiceStep \/ ClockTick
UploadQueueSpec == UploadQueueInit /\ [][UploadQueueNext]_queueVars

----------------------------------------------------------------------------
(* Properties.                                                             *)

\* A file shown as uploading has a request in flight, a file that waits or has
\* its answer has none (so that it is never sent twice), and no two files of
\* the queue are uploaded at a time, whatever was cancelled, stopped or retried.
InFlightIsShown ==
  /\ \A f \in File : flight[f] # "none" => status[f] \in {"uploading", "gone"}
  /\ \A f \in File : status[f] = "uploading" => flight[f] # "none"
  /\ \A f, g \in Uploading : f = g

\* A paused queue has a timer that will resume it, unless a timer that had lost
\* its place in resumeTimeoutRef turned a stop into a pause behind its back.
PausedHasTimer == isPaused /\ ~stranded => Armed # {}

\* A file that waits for its upload or its answer leaves the queue only when the
\* user clears it or the timeout of a dismissed toast does; another file's
\* answer (the reset of a stopped queue), a timer, or a button that clears
\* finished files never takes it along.
DropsOnlyOnRequest ==
  [][\A f \in Waiting(status) : status'[f] = "gone" =>
       \/ CancelAll \/ (Dismissed /\ dismissing = "cancel")
       \/ flight[f] # "none" /\ flight'[f] = "none"]_queueVars

\* Files that wait do not wait for ever: an upload starts, or the user stops the
\* queue or clears it (the effect, and the timers of a rate limit).
QueueGoesOn ==
  (Pending # {} /\ Uploading = {} /\ ~isStopped)
    ~> (Pending = {} \/ Uploading # {} \/ isStopped \/ stranded)

=============================================================================
