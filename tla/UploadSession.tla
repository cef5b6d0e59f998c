--------------------------- MODULE UploadSession ---------------------------
(***************************************************************************)
(* The upload queue of a browser (UploadQueue) against instances of the    *)
(* ingestor whose rate limiter (RateLimit) answers for them: the upload    *)
(* route counts a request before it handles it and turns a refusal into a  *)
(* 429 with Retry-After. One clock drives both.                            *)
(***************************************************************************)
EXTENDS UploadQueue, RateLimit

VARIABLE
  rejectedBy  \* history, of each file: the window its last 429 came from, while
              \* that window is open

vars == <<queueVars, limitVars, rejectedBy>>

NoStore == "none"

ASSUME UploadSessionAssumption ==
  /\ NoStore \notin Instance
  /\ CeilSeconds(windowMs) <= MaxRetryAfter

\* Types of the session: those of its two parts and of the history.
TypeOK ==
  /\ UploadQueueTypeOK
  /\ RateLimitTypeOK
  /\ rejectedBy \in [File -> Store \union {NoStore}]

Init ==
  /\ UploadQueueInit
  /\ RateLimitInit
  /\ rejectedBy = [f \in File |-> NoStore]

UserActs ==
  /\ UserStep
  /\ UNCHANGED <<limitVars, rejectedBy>>

PageActs ==
  /\ PageStep
  /\ UNCHANGED <<limitVars, rejectedBy>>

\* uploadHandler: checkRateLimit lets the upload through to the orchestrator.
Accept(i, f) ==
  /\ Grant(StoreOf(i))
  /\ \E a \in {"success", "duplicate", "error"} : Respond(f, a, 0)
  /\ UNCHANGED rejectedBy

\* uploadHandler: it throws RateLimitExceededError, a 429.
Refuse(i, f) ==
  /\ Reject(StoreOf(i))
  /\ Respond(f, "limited", RetryAfter(StoreOf(i)))
  /\ rejectedBy' = [rejectedBy EXCEPT ![f] = StoreOf(i)]

\* The request fails before the limiter sees it, or its connection breaks.
Break(f) ==
  /\ Respond(f, "error", 0)
  /\ UNCHANGED <<limitVars, rejectedBy>>

\* Another tab of the same user uploads.
OtherUpload(i) ==
  /\ Grant(StoreOf(i))
  /\ UNCHANGED <<queueVars, rejectedBy>>

\* Time passes for the page and the limiter; a window that ends is forgotten.
Tick ==
  /\ ClockTick
  /\ WindowsTick
  /\ rejectedBy' = [f \in File |->
       IF rejectedBy[f] \in Store /\ ttl'[rejectedBy[f]] = 0 THEN NoStore ELSE rejectedBy[f]]

Next ==
  \/ UserActs
  \/ PageActs
  \/ \E i \in Instance, f \in File : Accept(i, f) \/ Refuse(i, f)
  \/ \E f \in File : Break(f)
  \/ \E i \in Instance : OtherUpload(i)
  \/ Tick

Spec == Init /\ [][Next]_vars

\* Requests are answered, the page handles its events, and time passes.
Fairness ==
  /\ WF_vars(Tick)
  /\ WF_vars(PageActs)
  /\ \A f \in File : WF_vars(Break(f))

FairSpec == Spec /\ Fairness

----------------------------------------------------------------------------
\* A file is not sent again while the window that refused it is still open,
\* whatever the user stopped, resumed, retried or cleared meanwhile (the rounding
\* of Retry-After, checkRateLimit's reset, the page's setTimeout and the pause
\* agree), unless a forgotten timer or a shorter limit cut a pause short.
RetryIsInTime ==
  ~cutShort => \A f \in File : MayStart(f) => rejectedBy[f] = NoStore

=============================================================================
