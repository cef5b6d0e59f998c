------------------------------ MODULE Ingestor ------------------------------
(***************************************************************************)
(* The ingestor service (apps/ingestor): the upload handler, the state     *)
(* machine of the wallpapers table, the three database reconcilers and the *)
(* object-store cleanup, over one Postgres table, one bucket and one       *)
(* JetStream subject.                                                      *)
(*                                                                         *)
(* Every step is one remote call (a SELECT, an UPDATE, a PUT, a publish):  *)
(* whatever the code awaits, another actor may run before the next step.   *)
(* An upload request u and the wallpaper row it inserts share the name u,  *)
(* the id being a fresh ULID per request.                                  *)
(***************************************************************************)
EXTENDS Naturals, FiniteSets

CONSTANTS
  Upload,           \* upload requests, each with its own wallpaper id
  Content,          \* (userId, contentHash) pairs, the deduplication keys
  Jpeg,             \* the contents whose extension is "jpg"
  Reconciler,       \* one reconciliation cycle at a time per service instance
  Cleaner,          \* MinIO cleanup cycles, which may overlap
  None,             \* no upload
  Key,              \* place of each upload's file in the bucket's key order
  PageSize,         \* keys one answer of ListObjectsV2 holds
  MaxUploadRetries, \* ReconciliationConstants.MAX_UPLOAD_RETRIES
  Faults,           \* the kinds of fault the environment may inject
  MaxFaults         \* bound: how many faults a behaviour may hold

FaultKinds == {"db", "dbAck", "minio", "nats", "crash"}

ASSUME IngestorAssumption ==
  /\ None \notin Upload
  /\ Jpeg \subseteq Content
  /\ MaxUploadRetries \in Nat
  /\ Faults \subseteq FaultKinds
  /\ MaxFaults \in Nat

ASSUME BucketAssumption ==
  /\ Key \in [Upload -> Nat]
  /\ \A u, v \in Upload : Key[u] = Key[v] => u = v
  /\ PageSize \in Nat \ {0}

VARIABLES
  pc,             \* next call of the handler of each upload
  goal,           \* state the handler is moving its row to
  content,        \* deduplication key of the file, chosen by the client
  original,       \* the wallpaper an "already_uploaded" answer names
  uploadState,    \* column upload_state; "absent" when there is no row
  uploadAttempts, \* column upload_attempts
  hasMetadata,    \* file_type .. original_filename are all non-null
  aged,           \* state_changed_at is older than the state's threshold
  objects,        \* uploads whose original file is in the bucket
  published,      \* number of wallpaper.uploaded events in the stream
  rpc,            \* next call of each reconciliation cycle
  rcur,           \* row its open transaction has locked, or None
  errs,           \* consecutiveErrors of the missing-events loop
  cpc,            \* next call of each cleanup cycle
  ccur,           \* object it decided to delete, or None
  todo,           \* objects of its listing still to process
  faults          \* faults injected so far

handlerVars    == <<pc, goal, original>>
rowVars        == <<uploadState, uploadAttempts, hasMetadata, aged>>
reconcilerVars == <<rpc, rcur, errs>>
cleanerVars    == <<cpc, ccur, todo>>
vars == <<handlerVars, content, rowVars, objects, published, reconcilerVars,
          cleanerVars, faults>>
-----------------------------------------------------------------------------
(* The wallpapers table and its state machine.                             *)

UploadState ==
  {"initiated", "uploading", "stored", "processing", "completed", "failed"}

\* The predicate of the partial unique index idx_wallpapers_content_hash.
Active == {"stored", "processing", "completed"}

ValidTransitions ==
  [ initiated  |-> {"uploading", "failed"},
    uploading  |-> {"stored", "failed"},
    stored     |-> {"processing", "failed"},
    processing |-> {"completed", "failed"},
    completed  |-> {},
    failed     |-> {} ]

CanTransition(s, t) == s \in UploadState /\ t \in ValidTransitions[s]

\* Mutant of Conflict: the table has no unique index.
NoUniqueIndex(u, s) == FALSE

\* An UPDATE of u to state s that the unique index rejects.
Conflict(u, s) ==
  /\ s \in Active
  /\ \E v \in Upload \ {u} :
        content[v] = content[u] /\ uploadState[v] \in Active

\* Mutant of Locked: the reconcilers select without FOR UPDATE.
SelectWithoutLock(u) == FALSE

\* A row locked by FOR UPDATE: SKIP LOCKED passes over it, an UPDATE waits.
Locked(u) == \E r \in Reconciler : rcur[r] = u

\* SET upload_state = s, state_changed_at = now.
SetState(u, s) ==
  /\ uploadState' = [uploadState EXCEPT ![u] = s]
  /\ aged' = [aged EXCEPT ![u] = FALSE]

InjectFault(kind) ==
  /\ kind \in Faults
  /\ faults < MaxFaults
  /\ faults' = faults + 1

Init ==
  /\ pc = [u \in Upload |-> "idle"]
  /\ goal = [u \in Upload |-> "initiated"]
  /\ content \in [Upload -> Content]
  /\ original = [u \in Upload |-> None]
  /\ uploadState = [u \in Upload |-> "absent"]
  /\ uploadAttempts = [u \in Upload |-> 0]
  /\ hasMetadata = [u \in Upload |-> FALSE]
  /\ aged = [u \in Upload |-> FALSE]
  /\ objects = {}
  /\ published = [u \in Upload |-> 0]
  /\ rpc = [r \in Reconciler |-> "idle"]
  /\ rcur = [r \in Reconciler |-> None]
  /\ errs = [r \in Reconciler |-> 0]
  /\ cpc = [k \in Cleaner |-> "idle"]
  /\ ccur = [k \in Cleaner |-> None]
  /\ todo = [k \in Cleaner |-> {}]
  /\ faults = 0
-----------------------------------------------------------------------------
(* The upload handler: UploadOrchestrator.handleUpload.                    *)

Goto(u, step) == pc' = [pc EXCEPT ![u] = step] /\ UNCHANGED goal

\* Start stateMachine.transitionTo(u, s): its SELECT comes next.
Transition(u, s) ==
  /\ pc' = [pc EXCEPT ![u] = "read"]
  /\ goal' = [goal EXCEPT ![u] = s]

\* Where an exception thrown in the handler lands. Before the intent exists it
\* is rethrown; in executeUpload it goes to markAsFailed; around the publish it
\* is logged and the request still succeeds; in markAsFailed it is the answer.
Throw(u) ==
  \/ goal[u] \in {"initiated", "failed"} /\ Goto(u, "rejected")
  \/ goal[u] \in {"uploading", "stored"} /\ Transition(u, "failed")
  \/ goal[u] = "processing" /\ Goto(u, "accepted")

\* Mutant of CheckDuplicate: any row of the same content is an original.
CheckDuplicateInAnyState(u) ==
  LET Original == {v \in Upload : /\ content[v] = content[u]
                                  /\ uploadState[v] # "absent"}
  IN /\ pc[u] = "idle"
     /\ \/ Original = {} /\ Goto(u, "insert") /\ UNCHANGED original
        \/ \E v \in Original :
             original' = [original EXCEPT ![u] = v] /\ Goto(u, "duplicate")
     /\ UNCHANGED <<content, rowVars, objects, published, reconcilerVars,
                    cleanerVars, faults>>

\* checkDuplicate, and the idempotent response naming what it found.
CheckDuplicate(u) ==
  LET Original == {v \in Upload : /\ content[v] = content[u]
                                  /\ uploadState[v] \in Active}
  IN /\ pc[u] = "idle"
     /\ \/ /\ Original = {}
           /\ Goto(u, "insert")
           /\ UNCHANGED original
        \/ \E v \in Original :
             /\ original' = [original EXCEPT ![u] = v]
             /\ Goto(u, "duplicate")
     /\ UNCHANGED <<content, rowVars, objects, published, reconcilerVars,
                    cleanerVars, faults>>

InsertRow(u) ==
  /\ SetState(u, "initiated")
  /\ UNCHANGED <<uploadAttempts, hasMetadata>>

RecordIntent(u) ==
  /\ pc[u] = "insert"
  /\ InsertRow(u)
  /\ Transition(u, "uploading")
  /\ UNCHANGED <<original, content, objects, published, reconcilerVars,
                 cleanerVars, faults>>

\* transitionTo up to its validation. The SELECT takes no row lock, so what it
\* returned is only a memory by the time UpdateState runs.
ReadState(u) ==
  /\ pc[u] = "read"
  /\ IF CanTransition(uploadState[u], goal[u])
     THEN Goto(u, "write")
     ELSE Throw(u)
  /\ UNCHANGED <<original, content, rowVars, objects, published,
                 reconcilerVars, cleanerVars, faults>>

\* UPDATE ... WHERE id = u: no row is no error, and the state is not compared.
UpdateRow(u) ==
  IF uploadState[u] = "absent"
  THEN UNCHANGED rowVars
  ELSE /\ SetState(u, goal[u])
       /\ hasMetadata' = [hasMetadata EXCEPT ![u] = @ \/ goal[u] = "stored"]
       /\ UNCHANGED uploadAttempts

\* What follows a transition that succeeded.
Proceed(u) ==
  \/ goal[u] = "uploading" /\ Goto(u, "put")
  \/ /\ goal[u] = "stored"
     /\ pc' = [pc EXCEPT ![u] = "load"]
     /\ goal' = [goal EXCEPT ![u] = "processing"]
  \/ goal[u] = "processing" /\ Goto(u, "accepted")
  \/ goal[u] = "failed" /\ Goto(u, "rejected")

UpdateState(u) ==
  /\ pc[u] = "write"
  /\ ~Locked(u)
  /\ IF Conflict(u, goal[u])
     THEN Throw(u) /\ UNCHANGED rowVars
     ELSE UpdateRow(u) /\ Proceed(u)
  /\ UNCHANGED <<original, content, objects, published, reconcilerVars,
                 cleanerVars, faults>>

PutObject(u) ==
  /\ pc[u] = "put"
  /\ objects' = objects \cup {u}
  /\ Transition(u, "stored")
  /\ UNCHANGED <<original, content, rowVars, published, reconcilerVars,
                 cleanerVars, faults>>

\* publishEvent: fetch the record, and refuse it when a field is null.
LoadForPublish(u) ==
  /\ pc[u] = "load"
  /\ IF uploadState[u] # "absent" /\ hasMetadata[u]
     THEN Goto(u, "publish")
     ELSE Throw(u)
  /\ UNCHANGED <<original, content, rowVars, objects, published,
                 reconcilerVars, cleanerVars, faults>>

PublishUploaded(u) ==
  /\ pc[u] = "publish"
  /\ published' = [published EXCEPT ![u] = @ + 1]
  /\ Transition(u, "processing")
  /\ UNCHANGED <<original, content, rowVars, objects, reconcilerVars,
                 cleanerVars, faults>>

\* A query fails and changes nothing.
DbError(u) ==
  /\ pc[u] \in {"idle", "insert", "read", "write", "load"}
  /\ InjectFault("db")
  /\ Throw(u)
  /\ UNCHANGED <<original, content, rowVars, objects, published,
                 reconcilerVars, cleanerVars>>

\* A write commits but its acknowledgement is lost, so the handler throws.
DbAckLost(u) ==
  /\ InjectFault("dbAck")
  /\ \/ pc[u] = "insert" /\ InsertRow(u)
     \/ pc[u] = "write" /\ ~Locked(u) /\ ~Conflict(u, goal[u]) /\ UpdateRow(u)
  /\ Throw(u)
  /\ UNCHANGED <<original, content, objects, published, reconcilerVars,
                 cleanerVars>>

\* The PUT fails; the object may have been stored all the same.
PutError(u) ==
  /\ pc[u] = "put"
  /\ InjectFault("minio")
  /\ objects' \in {objects, objects \cup {u}}
  /\ Throw(u)
  /\ UNCHANGED <<original, content, rowVars, published, reconcilerVars,
                 cleanerVars>>

\* The publish fails; the event may be in the stream all the same.
PublishError(u) ==
  /\ pc[u] = "publish"
  /\ InjectFault("nats")
  /\ \/ published' = [published EXCEPT ![u] = @ + 1]
     \/ UNCHANGED published
  /\ Throw(u)
  /\ UNCHANGED <<original, content, rowVars, objects, reconcilerVars,
                 cleanerVars>>

\* The process dies: nothing runs for this request any more.
HandlerCrash(u) ==
  /\ pc[u] \in {"insert", "read", "write", "put", "load", "publish"}
  /\ InjectFault("crash")
  /\ Goto(u, "crashed")
  /\ UNCHANGED <<original, content, rowVars, objects, published,
                 reconcilerVars, cleanerVars>>

HandlerStep(u) ==
  \/ CheckDuplicate(u) \/ RecordIntent(u) \/ ReadState(u) \/ UpdateState(u)
  \/ PutObject(u) \/ LoadForPublish(u) \/ PublishUploaded(u)

HandlerFault(u) ==
  \/ DbError(u) \/ DbAckLost(u) \/ PutError(u) \/ PublishError(u)
  \/ HandlerCrash(u)
-----------------------------------------------------------------------------
(* One reconciliation cycle: stuck uploads, missing events, then orphaned   *)
(* intents. A transaction selects one row FOR UPDATE SKIP LOCKED LIMIT 1    *)
(* without an ORDER BY, so any matching row may be the one it gets.         *)

MAX_CONSECUTIVE_ERRORS == 3

\* Rows the SELECT of the phase for state s may return.
Selectable(u, s) == uploadState[u] = s /\ aged[u] /\ ~Locked(u)

RGoto(r, step) == rpc' = [rpc EXCEPT ![r] = step]

\* The open transaction commits or rolls back, and releases its row.
EndTransaction(r, step) ==
  /\ RGoto(r, step)
  /\ rcur' = [rcur EXCEPT ![r] = None]

StartCycle(r) ==
  /\ rpc[r] = "idle"
  /\ RGoto(r, "stuck")
  /\ UNCHANGED <<handlerVars, content, rowVars, objects, published, rcur, errs,
                 cleanerVars, faults>>

Select(r, u, phase, s, step) ==
  /\ rpc[r] = phase
  /\ Selectable(u, s)
  /\ RGoto(r, step)
  /\ rcur' = [rcur EXCEPT ![r] = u]
  /\ UNCHANGED <<handlerVars, content, rowVars, objects, published, errs,
                 cleanerVars, faults>>

StuckSelect(r, u) == Select(r, u, "stuck", "uploading", "probe")

\* HEAD of <id>/original.jpg, whatever the extension of the upload is.
StuckProbe(r) ==
  /\ rpc[r] = "probe"
  /\ RGoto(r, IF rcur[r] \in objects /\ content[rcur[r]] \in Jpeg
              THEN "recover" ELSE "retry")
  /\ UNCHANGED <<handlerVars, content, rowVars, objects, published, rcur, errs,
                 cleanerVars, faults>>

\* The file is there: 'stored', without metadata. The unique index may refuse,
\* which rolls back and ends the phase.
StuckRecover(r) ==
  LET u == rcur[r] IN
  /\ rpc[r] = "recover"
  /\ IF Conflict(u, "stored")
     THEN EndTransaction(r, "missing") /\ UNCHANGED rowVars
     ELSE /\ SetState(u, "stored")
          /\ EndTransaction(r, "stuck")
          /\ UNCHANGED <<uploadAttempts, hasMetadata>>
  /\ UNCHANGED <<handlerVars, content, objects, published, errs, cleanerVars,
                 faults>>

\* Mutant of StuckRetry: the attempt is never counted.
StuckRetryForever(r) ==
  /\ rpc[r] = "retry"
  /\ SetState(rcur[r], "uploading")
  /\ EndTransaction(r, "stuck")
  /\ UNCHANGED <<handlerVars, content, uploadAttempts, hasMetadata, objects,
                 published, errs, cleanerVars, faults>>

\* The file is missing: count an attempt, or give up after MaxUploadRetries.
StuckRetry(r) ==
  LET u == rcur[r] IN
  /\ rpc[r] = "retry"
  /\ IF uploadAttempts[u] >= MaxUploadRetries
     THEN SetState(u, "failed") /\ UNCHANGED uploadAttempts
     ELSE /\ SetState(u, "uploading")
          /\ uploadAttempts' = [uploadAttempts EXCEPT ![u] = @ + 1]
  /\ EndTransaction(r, "stuck")
  /\ UNCHANGED <<handlerVars, content, hasMetadata, objects, published, errs,
                 cleanerVars, faults>>

\* Mutant of StuckDone: the cycle leaves out the missing events.
StuckDoneSkipsMissing(r) ==
  /\ rpc[r] = "stuck"
  /\ ~\E u \in Upload : Selectable(u, "uploading")
  /\ RGoto(r, "intents")
  /\ UNCHANGED <<handlerVars, content, rowVars, objects, published, rcur, errs,
                 cleanerVars, faults>>

StuckDone(r) ==
  /\ rpc[r] = "stuck"
  /\ ~\E u \in Upload : Selectable(u, "uploading")
  /\ RGoto(r, "missing")
  /\ UNCHANGED <<handlerVars, content, rowVars, objects, published, rcur, errs,
                 cleanerVars, faults>>

MissingSelect(r, u) == Select(r, u, "missing", "stored", "publish")

\* Roll back, count the error, and leave the loop at the third in a row.
MissingRollback(r) ==
  IF errs[r] + 1 >= MAX_CONSECUTIVE_ERRORS
  THEN EndTransaction(r, "intents") /\ errs' = [errs EXCEPT ![r] = 0]
  ELSE EndTransaction(r, "missing") /\ errs' = [errs EXCEPT ![r] = @ + 1]

\* Mutant of MissingPublish: null columns are not checked.
MissingPublishUnchecked(r) ==
  /\ rpc[r] = "publish"
  /\ published' = [published EXCEPT ![rcur[r]] = @ + 1]
  /\ RGoto(r, "commit")
  /\ UNCHANGED <<handlerVars, content, rowVars, objects, rcur, errs,
                 cleanerVars, faults>>

MissingPublish(r) ==
  /\ rpc[r] = "publish"
  /\ IF hasMetadata[rcur[r]]
     THEN /\ published' = [published EXCEPT ![rcur[r]] = @ + 1]
          /\ RGoto(r, "commit")
          /\ UNCHANGED <<rcur, errs>>
     ELSE MissingRollback(r) /\ UNCHANGED published
  /\ UNCHANGED <<handlerVars, content, rowVars, objects, cleanerVars, faults>>

MissingCommit(r) ==
  /\ rpc[r] = "commit"
  /\ SetState(rcur[r], "processing")
  /\ EndTransaction(r, "missing")
  /\ errs' = [errs EXCEPT ![r] = 0]
  /\ UNCHANGED <<handlerVars, content, uploadAttempts, hasMetadata, objects,
                 published, cleanerVars, faults>>

MissingDone(r) ==
  /\ rpc[r] = "missing"
  /\ ~\E u \in Upload : Selectable(u, "stored")
  /\ RGoto(r, "intents")
  /\ errs' = [errs EXCEPT ![r] = 0]
  /\ UNCHANGED <<handlerVars, content, rowVars, objects, published, rcur,
                 cleanerVars, faults>>

\* SELECT and DELETE are one transaction with no other call in between.
DeleteIntent(r, u) ==
  /\ rpc[r] = "intents"
  /\ Selectable(u, "initiated")
  /\ SetState(u, "absent")
  /\ UNCHANGED <<handlerVars, content, uploadAttempts, hasMetadata, objects,
                 published, reconcilerVars, cleanerVars, faults>>

IntentsDone(r) ==
  /\ rpc[r] = "intents"
  /\ ~\E u \in Upload : Selectable(u, "initiated")
  /\ RGoto(r, "idle")
  /\ UNCHANGED <<handlerVars, content, rowVars, objects, published, rcur, errs,
                 cleanerVars, faults>>

\* A query or the commit fails: the base class rolls back and ends the phase,
\* the missing-events loop rolls back and counts.
ReconcilerDbError(r) ==
  /\ InjectFault("db")
  /\ \/ /\ rpc[r] \in {"stuck", "recover", "retry"}
        /\ EndTransaction(r, "missing")
        /\ UNCHANGED errs
     \/ /\ rpc[r] \in {"missing", "commit"}
        /\ MissingRollback(r)
     \/ /\ rpc[r] = "intents"
        /\ EndTransaction(r, "idle")
        /\ UNCHANGED errs
  /\ UNCHANGED <<handlerVars, content, rowVars, objects, published, cleanerVars>>

\* objectExists answers false on any error, not only on 404.
ProbeError(r) ==
  /\ rpc[r] = "probe"
  /\ InjectFault("minio")
  /\ RGoto(r, "retry")
  /\ UNCHANGED <<handlerVars, content, rowVars, objects, published, rcur, errs,
                 cleanerVars>>

MissingPublishError(r) ==
  /\ rpc[r] = "publish"
  /\ InjectFault("nats")
  /\ \/ /\ hasMetadata[rcur[r]]
        /\ published' = [published EXCEPT ![rcur[r]] = @ + 1]
     \/ UNCHANGED published
  /\ MissingRollback(r)
  /\ UNCHANGED <<handlerVars, content, rowVars, objects, cleanerVars>>

\* The instance dies: Postgres aborts its transaction and drops the lock.
ReconcilerCrash(r) ==
  /\ rpc[r] # "idle"
  /\ InjectFault("crash")
  /\ EndTransaction(r, "idle")
  /\ errs' = [errs EXCEPT ![r] = 0]
  /\ UNCHANGED <<handlerVars, content, rowVars, objects, published, cleanerVars>>

ReconcilerStep(r) ==
  \/ StartCycle(r)
  \/ \E u \in Upload : StuckSelect(r, u)
  \/ StuckProbe(r) \/ StuckRecover(r) \/ StuckRetry(r) \/ StuckDone(r)
  \/ \E u \in Upload : MissingSelect(r, u)
  \/ MissingPublish(r) \/ MissingCommit(r) \/ MissingDone(r)
  \/ \E u \in Upload : DeleteIntent(r, u)
  \/ IntentsDone(r)

ReconcilerFault(r) ==
  \/ ReconcilerDbError(r) \/ ProbeError(r) \/ MissingPublishError(r)
  \/ ReconcilerCrash(r)
-----------------------------------------------------------------------------
(* The MinIO cleanup cycle: list the bucket, then for each object look up   *)
(* its row and delete the object when nothing claims it.                    *)

\* What one ListObjectsV2 returns: the first keys, and no more.
FirstPage ==
  {u \in objects :
     Cardinality({v \in objects : Key[v] < Key[u]}) < PageSize}

\* The continuation token of the answer is not used: what comes after the first
\* page is not listed in any cycle.
CleanupList(k) ==
  /\ cpc[k] = "idle"
  /\ objects # {}
  /\ todo' = [todo EXCEPT ![k] = FirstPage]
  /\ cpc' = [cpc EXCEPT ![k] = "scan"]
  /\ UNCHANGED <<handlerVars, content, rowVars, objects, published,
                 reconcilerVars, ccur, faults>>

\* Mutants of Orphaned: only a stored row, or any row at all, keeps its object.
OrphanedUnlessStored(s) == s \notin Active
OrphanedWithoutRow(s) == s = "absent"

Orphaned(s) == s \in {"absent", "failed"}

CleanupQuery(k, u) ==
  /\ cpc[k] = "scan"
  /\ u \in todo[k]
  /\ IF Orphaned(uploadState[u])
     THEN /\ ccur' = [ccur EXCEPT ![k] = u]
          /\ cpc' = [cpc EXCEPT ![k] = "delete"]
          /\ UNCHANGED todo
     ELSE /\ todo' = [todo EXCEPT ![k] = @ \ {u}]
          /\ UNCHANGED <<cpc, ccur>>
  /\ UNCHANGED <<handlerVars, content, rowVars, objects, published,
                 reconcilerVars, faults>>

\* The object is dealt with, deleted or not.
NextObject(k, u) ==
  /\ todo' = [todo EXCEPT ![k] = @ \ {u}]
  /\ ccur' = [ccur EXCEPT ![k] = None]
  /\ cpc' = [cpc EXCEPT ![k] = "scan"]

CleanupDelete(k) ==
  /\ cpc[k] = "delete"
  /\ objects' = objects \ {ccur[k]}
  /\ NextObject(k, ccur[k])
  /\ UNCHANGED <<handlerVars, content, rowVars, published, reconcilerVars,
                 faults>>

CleanupDone(k) ==
  /\ cpc[k] = "scan"
  /\ todo[k] = {}
  /\ cpc' = [cpc EXCEPT ![k] = "idle"]
  /\ UNCHANGED <<handlerVars, content, rowVars, objects, published,
                 reconcilerVars, ccur, todo, faults>>

\* storage.delete swallows its error; a failed lookup is caught per object.
CleanupError(k) ==
  /\ \/ cpc[k] = "delete" /\ InjectFault("minio") /\ NextObject(k, ccur[k])
     \/ /\ cpc[k] = "scan"
        /\ InjectFault("db")
        /\ \E u \in todo[k] : NextObject(k, u)
  /\ UNCHANGED <<handlerVars, content, rowVars, objects, published,
                 reconcilerVars>>

CleanerCrash(k) ==
  /\ cpc[k] # "idle"
  /\ InjectFault("crash")
  /\ cpc' = [cpc EXCEPT ![k] = "idle"]
  /\ ccur' = [ccur EXCEPT ![k] = None]
  /\ todo' = [todo EXCEPT ![k] = {}]
  /\ UNCHANGED <<handlerVars, content, rowVars, objects, published,
                 reconcilerVars>>

CleanerStep(k) ==
  \/ CleanupList(k)
  \/ \E u \in Upload : CleanupQuery(k, u)
  \/ CleanupDelete(k) \/ CleanupDone(k)

CleanerFault(k) == CleanupError(k) \/ CleanerCrash(k)
-----------------------------------------------------------------------------
(* Time: a row that stays long enough in a state passes its threshold.      *)
Age(u) ==
  /\ uploadState[u] \in {"initiated", "uploading", "stored"}
  /\ ~aged[u]
  /\ aged' = [aged EXCEPT ![u] = TRUE]
  /\ UNCHANGED <<handlerVars, content, uploadState, uploadAttempts,
                 hasMetadata, objects, published, reconcilerVars, cleanerVars,
                 faults>>

Next ==
  \/ \E u \in Upload : HandlerStep(u) \/ HandlerFault(u) \/ Age(u)
  \/ \E r \in Reconciler : ReconcilerStep(r) \/ ReconcilerFault(r)
  \/ \E k \in Cleaner : CleanerStep(k) \/ CleanerFault(k)

Spec == Init /\ [][Next]_vars

\* The scheduler's intervals keep firing and time passes. Nothing is assumed
\* of the handlers: an upload may hang in any call for ever.
Fairness ==
  /\ \A u \in Upload : WF_vars(Age(u))
  /\ \A r \in Reconciler : WF_vars(ReconcilerStep(r))
  /\ \A k \in Cleaner : WF_vars(CleanerStep(k))

FairSpec == Spec /\ Fairness

-----------------------------------------------------------------------------
(* Properties.                                                             *)

HandlerSteps == {"idle", "insert", "read", "write", "put", "load", "publish",
                 "accepted", "duplicate", "rejected", "crashed"}
ReconcilerSteps == {"idle", "stuck", "probe", "recover", "retry", "missing",
                    "publish", "commit", "intents"}
CleanerSteps == {"idle", "scan", "delete"}

\* Every variable has its type; the state of a row is one the enum declares.
TypeOK ==
  /\ pc \in [Upload -> HandlerSteps]
  /\ goal \in [Upload -> UploadState]
  /\ content \in [Upload -> Content]
  /\ original \in [Upload -> Upload \cup {None}]
  /\ uploadState \in [Upload -> UploadState \cup {"absent"}]
  /\ uploadAttempts \in [Upload -> 0..MaxUploadRetries]
  /\ hasMetadata \in [Upload -> BOOLEAN]
  /\ aged \in [Upload -> BOOLEAN]
  /\ objects \subseteq Upload
  /\ published \in [Upload -> Nat]
  /\ rpc \in [Reconciler -> ReconcilerSteps]
  /\ rcur \in [Reconciler -> Upload \cup {None}]
  /\ errs \in [Reconciler -> 0..(MAX_CONSECUTIVE_ERRORS - 1)]
  /\ cpc \in [Cleaner -> CleanerSteps]
  /\ ccur \in [Cleaner -> Upload \cup {None}]
  /\ todo \in [Cleaner -> SUBSET Upload]
  /\ faults \in 0..MaxFaults

\* A client told 'processing' keeps its wallpaper: the row is stored or beyond
\* and complete, whatever handlers, reconcilers and faults do afterwards.
AcceptedIsDurable ==
  \A u \in Upload :
    pc[u] = "accepted" => uploadState[u] \in Active /\ hasMetadata[u]

\* Of any number of concurrent uploads of the same file by the same user at
\* most one is accepted, although each of them passed the duplicate check.
OneAcceptedPerContent ==
  \A u, v \in Upload :
    pc[u] = "accepted" /\ pc[v] = "accepted" /\ content[u] = content[v]
      => u = v

\* Two reconcilers never work on the same row, and the row one has locked is
\* still in the state it was selected in when the transaction writes it.
LockedRowIsStable ==
  /\ \A r, q \in Reconciler : r # q => rcur[r] = None \/ rcur[r] # rcur[q]
  /\ \A r \in Reconciler :
       /\ rpc[r] \in {"probe", "recover", "retry"}
            => uploadState[rcur[r]] = "uploading"
       /\ rpc[r] \in {"publish", "commit"} => uploadState[rcur[r]] = "stored"

\* An event in the stream is about a wallpaper that is kept and complete: no
\* consumer is sent to a row that was, or will be, given up.
PublishedIsKept ==
  \A u \in Upload :
    published[u] > 0 => uploadState[u] \in Active /\ hasMetadata[u]

\* A client told 'already_uploaded' was pointed at a wallpaper that stays kept.
\* It holds only where no row becomes 'stored' behind the back of a handler
\* that is still running: not for a JPEG, which the stuck-uploads job recovers,
\* and not where the acknowledgement of an UPDATE may be lost.
DuplicateIsKept ==
  \A u \in Upload :
    pc[u] = "duplicate" /\ content[u] \notin Jpeg =>
      /\ uploadState[original[u]] \in Active
      /\ hasMetadata[original[u]]

\* The cleanup never takes the file of an upload whose row is still moving
\* towards 'stored', however long ago it listed the bucket.
InFlightFileIsKept ==
  [][\A u \in Upload :
       uploadState[u] \in {"initiated", "uploading"} /\ u \in objects
         => u \in objects']_vars

\* A stuck row the job cannot recover: its file is there, and the unique index
\* refuses it a second wallpaper of the content, in this cycle as in every other.
Unrecoverable(v) ==
  /\ uploadState[v] = "uploading"
  /\ v \in objects /\ content[v] \in Jpeg
  /\ Conflict(v, "stored")

\* A row leaves 'uploading' even if its handler hangs or dies, unless some row
\* stays for ever that cannot be recovered: itself, or another on which every
\* later cycle may spend its one failure (StuckUploadsReconciliation).
UploadingSettles ==
  \A u \in Upload :
    <>[](uploadState[u] = "uploading") => <>[](\E v \in Upload : Unrecoverable(v))

\* A recovered row without metadata, which publishUploadedEvent always refuses.
Unpublishable(v) == uploadState[v] = "stored" /\ ~hasMetadata[v]

\* An accepted wallpaper is announced, even if its handler could not publish,
\* unless a row stays for ever that cannot be: without an ORDER BY it may be
\* the one selected at each of the three tries of every cycle
\* (MissingEventsReconciliation).
AcceptedIsPublished ==
  \A u \in Upload :
    <>(pc[u] = "accepted") =>
      \/ <>(published[u] > 0 /\ uploadState[u] = "processing")
      \/ <>[](\E v \in Upload : Unpublishable(v))

\* A file whose row is gone or failed does not stay on the first page of the
\* bucket's listing. Behind that page it may stay (OrphanedMinioReconciliation).
OrphanIsCollected ==
  \A u \in Upload :
    []<>~(u \in FirstPage /\ uploadState[u] \in {"absent", "failed"})
(* The service seen from outside.                                           *)

\* What the client of each upload was told; a crash tells it nothing.
Answered ==
  [u \in Upload |-> IF pc[u] \in {"accepted", "duplicate", "rejected"}
                    THEN pc[u] ELSE "none"]
KeptUploads == {u \in Upload : uploadState[u] \in Active}
Announced == {u \in Upload : published[u] > 0}

Promise ==
  INSTANCE UploadPromise
    WITH answer <- Answered, kept <- KeptUploads, announced <- Announced

\* Every behaviour of handlers, reconcilers, cleanup and faults is one of the
\* promise: one kept wallpaper per user and content, nothing dropped after it
\* was accepted, nothing announced that is not kept.
KeepsPromise == Promise!Spec
=============================================================================
