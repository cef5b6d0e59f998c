--------------------------- MODULE IngestorProofs ---------------------------
(***************************************************************************)
(* Safety of the ingestor for any number of uploads, contents, reconcilers *)
(* and cleanup cycles, and any number of faults. The properties are not    *)
(* inductive: what makes them hold is who may still write a row, which     *)
(* InductiveInv spells out. The refinement of UploadPromise comes last.     *)
(***************************************************************************)
EXTENDS Ingestor, TLAPS

\* The handler of u has stored its row and only has the event left to do.
PastStored(u) ==
  \/ pc[u] = "accepted"
  \/ goal[u] = "processing" /\ pc[u] \in {"read", "write"}
  \/ pc[u] \in {"load", "publish"}

\* The control points at which goal tells what the handler is doing.
HandlerControl ==
  \A u \in Upload :
    /\ pc[u] \in {"idle", "insert", "duplicate"} =>
         goal[u] = "initiated" /\ uploadState[u] = "absent"
    /\ pc[u] \in {"read", "write"} => goal[u] # "initiated"
    /\ pc[u] = "put" => goal[u] = "uploading"
    /\ pc[u] \in {"load", "publish"} => goal[u] = "processing"

\* A reconciler holds a row exactly while its transaction is open, the row is
\* in the state it was selected in, and nobody else holds it.
Transactions ==
  \A r \in Reconciler :
    /\ rpc[r] \in {"idle", "stuck", "missing", "intents"} => rcur[r] = None
    /\ rpc[r] \in {"probe", "recover", "retry"} =>
         rcur[r] \in Upload /\ uploadState[rcur[r]] = "uploading"
    /\ rpc[r] \in {"publish", "commit"} =>
         rcur[r] \in Upload /\ uploadState[rcur[r]] = "stored"
    /\ rpc[r] = "commit" => hasMetadata[rcur[r]]
    /\ \A q \in Reconciler : r # q => rcur[r] = None \/ rcur[r] # rcur[q]

\* What the handler stored stays stored; a row it read as 'uploading' is never
\* deleted before it writes 'stored'.
Kept ==
  \A u \in Upload :
    /\ PastStored(u) => uploadState[u] \in Active /\ hasMetadata[u]
    /\ pc[u] = "write" /\ goal[u] = "stored" =>
         uploadState[u] \notin {"absent", "initiated"}

\* The unique index.
UniqueActive ==
  \A u, v \in Upload :
    /\ content[u] = content[v]
    /\ uploadState[u] \in Active
    /\ uploadState[v] \in Active
    => u = v

InductiveInv ==
  TypeOK /\ HandlerControl /\ Transactions /\ Kept /\ UniqueActive

-----------------------------------------------------------------------------
(* The inductive invariant holds initially and every step preserves it.     *)

\* Nothing runs and no row exists initially, so the invariant holds.
LEMMA InitInductive == ASSUME Init PROVE InductiveInv
  BY IngestorAssumption
  DEF Init, InductiveInv, TypeOK, HandlerControl, Transactions, Kept,
      UniqueActive, PastStored, HandlerSteps, ReconcilerSteps, CleanerSteps,
      UploadState, Active, MAX_CONSECUTIVE_ERRORS

\* A row that no transaction holds may be written to any state, provided the
\* unique index agrees: the reconcilers' and the other rows are untouched.
LEMMA UnlockedWrite ==
  ASSUME InductiveInv, NEW u \in Upload, NEW s \in UploadState,
         ~Locked(u), ~Conflict(u, s), SetState(u, s),
         hasMetadata' \in [Upload -> BOOLEAN],
         \A v \in Upload : hasMetadata[v] => hasMetadata'[v],
         UNCHANGED <<content, rpc, rcur>>
  PROVE  /\ Transactions'
         /\ UniqueActive'
         /\ uploadState' \in [Upload -> UploadState \cup {"absent"}]
         /\ aged' \in [Upload -> BOOLEAN]
<1> USE IngestorAssumption DEF InductiveInv, TypeOK, SetState, UploadState
<1>1. Transactions'
  BY DEF Transactions, Locked, ReconcilerSteps
<1>2. UniqueActive'
  BY DEF UniqueActive, Conflict, Active
<1> QED
  BY <1>1, <1>2

\* The transition the handler writes, whether or not it hears of the outcome.
LEMMA HandlerWrite ==
  ASSUME InductiveInv, NEW u \in Upload, pc[u] = "write",
         ~Locked(u), ~Conflict(u, goal[u]), UpdateRow(u),
         UNCHANGED <<content, rpc, rcur>>
  PROVE  /\ Transactions'
         /\ UniqueActive'
         /\ uploadState' \in [Upload -> UploadState \cup {"absent"}]
         /\ uploadAttempts' = uploadAttempts
         /\ hasMetadata' \in [Upload -> BOOLEAN]
         /\ aged' \in [Upload -> BOOLEAN]
         /\ \A v \in Upload \ {u} : /\ uploadState'[v] = uploadState[v]
                                    /\ hasMetadata'[v] = hasMetadata[v]
         /\ hasMetadata[u] => hasMetadata'[u]
         /\ uploadState[u] # "absent" =>
              /\ uploadState'[u] = goal[u]
              /\ goal[u] = "stored" => hasMetadata'[u]
         /\ uploadState[u] = "absent" =>
              uploadState'[u] = "absent" /\ hasMetadata'[u] = hasMetadata[u]
<1> USE IngestorAssumption DEF InductiveInv, TypeOK
<1>1. CASE uploadState[u] = "absent"
  <2>1. UNCHANGED <<content, rpc, rcur, rowVars>>
    BY <1>1 DEF UpdateRow
  <2> QED
    BY <1>1, <2>1 DEF rowVars, Transactions, UniqueActive
<1>2. CASE uploadState[u] # "absent"
  <2>1. /\ SetState(u, goal[u])
        /\ hasMetadata' = [hasMetadata EXCEPT ![u] = @ \/ goal[u] = "stored"]
        /\ uploadAttempts' = uploadAttempts
    BY <1>2 DEF UpdateRow
  <2>2. hasMetadata' \in [Upload -> BOOLEAN]
    BY <2>1
  <2>3. \A v \in Upload : hasMetadata[v] => hasMetadata'[v]
    BY <2>1
  <2>4. goal[u] \in UploadState
    OBVIOUS
  <2>5. /\ Transactions'
        /\ UniqueActive'
        /\ uploadState' \in [Upload -> UploadState \cup {"absent"}]
        /\ aged' \in [Upload -> BOOLEAN]
    BY <2>1, <2>2, <2>3, <2>4, UnlockedWrite
  <2> QED
    BY <1>2, <2>1, <2>2, <2>5 DEF SetState
<1> QED
  BY <1>1, <1>2

\* The UPDATE of a transition preserves the invariant.
LEMMA UpdateStateInductive ==
  ASSUME InductiveInv, NEW u \in Upload, UpdateState(u)
  PROVE  InductiveInv'
<1> USE IngestorAssumption
<1>1. CASE Conflict(u, goal[u])
  <2>1. Throw(u) /\ UNCHANGED rowVars
    BY <1>1 DEF UpdateState
  <2> QED
    BY <1>1, <2>1
    DEF UpdateState, Throw, Goto, Transition, rowVars, reconcilerVars,
        cleanerVars, InductiveInv, TypeOK, HandlerControl, Transactions, Kept,
        UniqueActive, PastStored, HandlerSteps, UploadState
<1>2. CASE ~Conflict(u, goal[u])
  <2>1. /\ UpdateRow(u) /\ Proceed(u) /\ pc[u] = "write" /\ ~Locked(u)
        /\ UNCHANGED <<original, content, objects, published, reconcilerVars,
                       cleanerVars, faults>>
    BY <1>2 DEF UpdateState
  <2>2. UNCHANGED <<content, rpc, rcur>>
    BY <2>1 DEF reconcilerVars
  <2>3. /\ Transactions'
        /\ UniqueActive'
        /\ uploadState' \in [Upload -> UploadState \cup {"absent"}]
        /\ uploadAttempts' = uploadAttempts
        /\ hasMetadata' \in [Upload -> BOOLEAN]
        /\ aged' \in [Upload -> BOOLEAN]
        /\ \A v \in Upload \ {u} : /\ uploadState'[v] = uploadState[v]
                                   /\ hasMetadata'[v] = hasMetadata[v]
        /\ hasMetadata[u] => hasMetadata'[u]
        /\ uploadState[u] # "absent" =>
             /\ uploadState'[u] = goal[u]
             /\ goal[u] = "stored" => hasMetadata'[u]
        /\ uploadState[u] = "absent" =>
             uploadState'[u] = "absent" /\ hasMetadata'[u] = hasMetadata[u]
    BY <1>2, <2>1, <2>2, HandlerWrite
  <2>4. TypeOK'
    BY <2>1, <2>3
    DEF InductiveInv, TypeOK, Proceed, Goto, HandlerSteps, UploadState,
        reconcilerVars, cleanerVars
  <2>5. HandlerControl'
    BY <2>1, <2>3
    DEF InductiveInv, TypeOK, HandlerControl, Proceed, Goto, UploadState
  <2>6. Kept'
    BY <2>1, <2>3
    DEF InductiveInv, TypeOK, HandlerControl, Kept, PastStored, Proceed, Goto,
        UploadState, Active
  <2> QED
    BY <2>3, <2>4, <2>5, <2>6 DEF InductiveInv
<1> QED
  BY <1>1, <1>2

\* So does a write whose acknowledgement is lost.
LEMMA DbAckLostInductive ==
  ASSUME InductiveInv, NEW u \in Upload, DbAckLost(u)
  PROVE  InductiveInv'
<1> USE IngestorAssumption
<1>1. CASE pc[u] = "insert" /\ InsertRow(u)
  <2>1. goal[u] = "initiated" /\ uploadState[u] = "absent"
    BY <1>1 DEF InductiveInv, HandlerControl
  <2>2. /\ Goto(u, "rejected")
        /\ UNCHANGED <<original, content, objects, published, reconcilerVars,
                       cleanerVars>>
    BY <1>1, <2>1 DEF DbAckLost, Throw
  <2>3. faults' \in 0..MaxFaults
    BY DEF DbAckLost, InjectFault, InductiveInv, TypeOK
  <2>4. SetState(u, "initiated") /\ UNCHANGED <<uploadAttempts, hasMetadata>>
    BY <1>1 DEF InsertRow
  <2>5. TypeOK'
    BY <2>2, <2>3, <2>4
    DEF InductiveInv, TypeOK, Goto, SetState, HandlerSteps, UploadState,
        reconcilerVars, cleanerVars
  <2>6. HandlerControl' /\ Kept'
    BY <1>1, <2>1, <2>2, <2>4
    DEF InductiveInv, TypeOK, HandlerControl, Kept, PastStored, Goto, SetState
  <2>7. Transactions'
    BY <2>1, <2>2, <2>4
    DEF InductiveInv, TypeOK, Transactions, SetState, reconcilerVars
  <2>8. UniqueActive'
    BY <2>1, <2>2, <2>4
    DEF InductiveInv, TypeOK, UniqueActive, SetState, Active
  <2> QED
    BY <2>5, <2>6, <2>7, <2>8 DEF InductiveInv
<1>2. CASE pc[u] = "write" /\ ~Locked(u) /\ ~Conflict(u, goal[u]) /\ UpdateRow(u)
  <2>1. /\ Throw(u) /\ InjectFault("dbAck")
        /\ UNCHANGED <<original, content, objects, published, reconcilerVars,
                       cleanerVars>>
    BY DEF DbAckLost
  <2>2. UNCHANGED <<content, rpc, rcur>>
    BY <2>1 DEF reconcilerVars
  <2>3. /\ Transactions'
        /\ UniqueActive'
        /\ uploadState' \in [Upload -> UploadState \cup {"absent"}]
        /\ uploadAttempts' = uploadAttempts
        /\ hasMetadata' \in [Upload -> BOOLEAN]
        /\ aged' \in [Upload -> BOOLEAN]
        /\ \A v \in Upload \ {u} : /\ uploadState'[v] = uploadState[v]
                                   /\ hasMetadata'[v] = hasMetadata[v]
        /\ hasMetadata[u] => hasMetadata'[u]
        /\ uploadState[u] # "absent" =>
             /\ uploadState'[u] = goal[u]
             /\ goal[u] = "stored" => hasMetadata'[u]
        /\ uploadState[u] = "absent" =>
             uploadState'[u] = "absent" /\ hasMetadata'[u] = hasMetadata[u]
    BY <1>2, <2>2, HandlerWrite
  <2>4. TypeOK'
    BY <1>2, <2>1, <2>3
    DEF InductiveInv, TypeOK, InjectFault, Throw, Goto, Transition,
        HandlerSteps, UploadState, reconcilerVars, cleanerVars
  <2>5. HandlerControl'
    BY <1>2, <2>1, <2>3
    DEF InductiveInv, TypeOK, HandlerControl, Throw, Goto, Transition,
        UploadState
  <2>6. Kept'
    BY <1>2, <2>1, <2>3
    DEF InductiveInv, TypeOK, HandlerControl, Kept, PastStored, Throw, Goto,
        Transition, UploadState, Active
  <2> QED
    BY <2>3, <2>4, <2>5, <2>6 DEF InductiveInv
<1> QED
  BY <1>1, <1>2 DEF DbAckLost

\* The duplicate check moves the control point of an upload that has no row.
LEMMA CheckDuplicateInductive ==
  ASSUME InductiveInv, NEW u \in Upload, CheckDuplicate(u)
  PROVE  InductiveInv'
<1> DEFINE Original == {v \in Upload : /\ content[v] = content[u]
                                      /\ uploadState[v] \in Active}
<1>1. /\ pc[u] = "idle"
      /\ UNCHANGED <<goal, content, rowVars, objects, published,
                     reconcilerVars, cleanerVars, faults>>
      /\ \/ pc' = [pc EXCEPT ![u] = "insert"] /\ original' = original
         \/ /\ pc' = [pc EXCEPT ![u] = "duplicate"]
            /\ \E v \in Original : original' = [original EXCEPT ![u] = v]
  BY DEF CheckDuplicate, Goto
<1>2. original' \in [Upload -> Upload \cup {None}]
  <2>1. CASE original' = original
    BY <2>1 DEF InductiveInv, TypeOK
  <2>2. CASE \E v \in Original : original' = [original EXCEPT ![u] = v]
    BY <2>2 DEF InductiveInv, TypeOK
  <2> QED
    BY <1>1, <2>1, <2>2
<1> HIDE DEF Original
<1>3. TypeOK'
  BY <1>1, <1>2
  DEF InductiveInv, TypeOK, HandlerSteps, rowVars, reconcilerVars, cleanerVars
<1>4. HandlerControl' /\ Kept'
  BY <1>1 DEF InductiveInv, TypeOK, HandlerControl, Kept, PastStored, rowVars
<1>5. Transactions' /\ UniqueActive'
  BY <1>1 DEF InductiveInv, Transactions, UniqueActive, rowVars, reconcilerVars
<1> QED
  BY <1>3, <1>4, <1>5 DEF InductiveInv

\* Every other call of the handler moves its own control point; only the insert
\* of the intent touches a row, and that row was absent.
LEMMA HandlerInductive ==
  ASSUME InductiveInv, NEW u \in Upload, HandlerStep(u) \/ HandlerFault(u)
  PROVE  InductiveInv'
<1> USE IngestorAssumption
    DEF InductiveInv, TypeOK, HandlerControl, Transactions, Kept, UniqueActive,
        PastStored, HandlerSteps, UploadState, Active, handlerVars, rowVars,
        reconcilerVars, cleanerVars, Throw, Goto, Transition
<1>1. CASE CheckDuplicate(u)
  BY <1>1, CheckDuplicateInductive
<1>2. CASE RecordIntent(u)
  BY <1>2 DEF RecordIntent, InsertRow, SetState
<1>3. CASE ReadState(u)
  <2>1. CASE CanTransition(uploadState[u], goal[u])
    <3>1. /\ Goto(u, "write")
          /\ goal[u] = "stored" => uploadState[u] = "uploading"
      BY <1>3, <2>1 DEF ReadState, CanTransition, ValidTransitions
    <3> QED
      BY <1>3, <3>1 DEF ReadState
  <2>2. CASE ~CanTransition(uploadState[u], goal[u])
    <3>1. /\ pc[u] = "read" /\ Throw(u)
          /\ UNCHANGED <<original, content, rowVars, objects, published,
                         reconcilerVars, cleanerVars, faults>>
      BY <1>3, <2>2 DEF ReadState
    <3>2. CASE Transition(u, "failed") /\ goal[u] \in {"uploading", "stored"}
      BY <3>1, <3>2
    <3>3. CASE Goto(u, "rejected") /\ goal[u] \in {"initiated", "failed"}
      BY <3>1, <3>3
    <3>4. CASE Goto(u, "accepted") /\ goal[u] = "processing"
      BY <3>1, <3>4
    <3> QED
      BY <3>1, <3>2, <3>3, <3>4
  <2> QED
    BY <2>1, <2>2
<1>4. CASE PutObject(u)
  BY <1>4 DEF PutObject
<1>5. CASE LoadForPublish(u)
  BY <1>5, SMTT(60) DEF LoadForPublish
<1>6. CASE PublishUploaded(u)
  BY <1>6 DEF PublishUploaded
<1>7. CASE DbError(u)
  BY <1>7, SMTT(60) DEF DbError, InjectFault
<1>8. CASE PutError(u)
  <2>1. objects' \subseteq Upload /\ faults' \in 0..MaxFaults
    BY <1>8 DEF PutError, InjectFault
  <2>2. goal[u] = "uploading" /\ Transition(u, "failed")
    BY <1>8 DEF PutError
  <2> QED
    BY <1>8, <2>1, <2>2 DEF PutError
<1>9. CASE PublishError(u)
  <2>1. published' \in [Upload -> Nat] /\ faults' \in 0..MaxFaults
    BY <1>9 DEF PublishError, InjectFault
  <2>2. goal[u] = "processing" /\ Goto(u, "accepted")
    BY <1>9 DEF PublishError
  <2> QED
    BY <1>9, <2>1, <2>2 DEF PublishError
<1>10. CASE HandlerCrash(u)
  BY <1>10 DEF HandlerCrash, InjectFault
<1> QED
  BY <1>1, <1>2, <1>3, <1>4, <1>5, <1>6, <1>7, <1>8, <1>9, <1>10,
     UpdateStateInductive, DbAckLostInductive
  DEF HandlerStep, HandlerFault

\* A reconciler may write the row it holds, on from the state it found it in, if
\* the unique index agrees, and commit.
LEMMA LockedWrite ==
  ASSUME InductiveInv, NEW r \in Reconciler, NEW u \in Upload, u = rcur[r],
         NEW s \in {"uploading", "stored", "failed", "processing"},
         NEW step \in {"stuck", "missing"},
         \/ uploadState[u] = "uploading" /\ s # "processing" /\ ~Conflict(u, s)
         \/ uploadState[u] = "stored" /\ s = "processing",
         SetState(u, s), EndTransaction(r, step),
         UNCHANGED <<handlerVars, content, hasMetadata>>
  PROVE  /\ HandlerControl' /\ Transactions' /\ Kept' /\ UniqueActive'
         /\ uploadState' \in [Upload -> UploadState \cup {"absent"}]
         /\ aged' \in [Upload -> BOOLEAN]
         /\ rpc' \in [Reconciler -> ReconcilerSteps]
         /\ rcur' \in [Reconciler -> Upload \cup {None}]
<1> USE IngestorAssumption
    DEF InductiveInv, TypeOK, SetState, EndTransaction, RGoto, handlerVars,
        UploadState
<1>1. HandlerControl'
  BY DEF HandlerControl
<1>2. Transactions'
  BY DEF Transactions, ReconcilerSteps
<1>3. Kept'
  BY DEF Kept, PastStored, Active
<1>4. UniqueActive'
  BY DEF UniqueActive, Conflict, Active
<1> QED
  BY <1>1, <1>2, <1>3, <1>4 DEF ReconcilerSteps

\* Ending a transaction without having written anything is always safe.
LEMMA Rollback ==
  ASSUME InductiveInv, NEW r \in Reconciler,
         NEW step \in {"idle", "missing", "intents"}, EndTransaction(r, step),
         UNCHANGED <<handlerVars, content, rowVars>>
  PROVE  /\ HandlerControl' /\ Transactions' /\ Kept' /\ UniqueActive'
         /\ rpc' \in [Reconciler -> ReconcilerSteps]
         /\ rcur' \in [Reconciler -> Upload \cup {None}]
  BY IngestorAssumption
  DEF InductiveInv, TypeOK, HandlerControl, Transactions, Kept, UniqueActive,
      PastStored, ReconcilerSteps, EndTransaction, RGoto, handlerVars, rowVars

\* The rollback of the missing-events loop is one of those.
LEMMA MissingRollbackSafe ==
  ASSUME InductiveInv, NEW r \in Reconciler, MissingRollback(r),
         UNCHANGED <<handlerVars, content, rowVars>>
  PROVE  /\ HandlerControl' /\ Transactions' /\ Kept' /\ UniqueActive'
         /\ rpc' \in [Reconciler -> ReconcilerSteps]
         /\ rcur' \in [Reconciler -> Upload \cup {None}]
         /\ errs' \in [Reconciler -> 0..(MAX_CONSECUTIVE_ERRORS - 1)]
<1>1. \E step \in {"missing", "intents"} : EndTransaction(r, step)
  BY DEF MissingRollback
<1>2. errs' \in [Reconciler -> 0..(MAX_CONSECUTIVE_ERRORS - 1)]
  BY DEF MissingRollback, MAX_CONSECUTIVE_ERRORS, InductiveInv, TypeOK
<1> QED
  BY <1>1, <1>2, Rollback

\* A reconciler writes only the row it holds; what it selects nobody holds.
LEMMA ReconcilerInductive ==
  ASSUME InductiveInv, NEW r \in Reconciler,
         ReconcilerStep(r) \/ ReconcilerFault(r)
  PROVE  InductiveInv'
<1> USE IngestorAssumption
    DEF InductiveInv, TypeOK, HandlerControl, Transactions, Kept, UniqueActive,
        PastStored, ReconcilerSteps, UploadState, Active,
        MAX_CONSECUTIVE_ERRORS, handlerVars, rowVars, reconcilerVars,
        cleanerVars
<1>1. CASE StartCycle(r)
  BY <1>1 DEF StartCycle, RGoto
<1>2. CASE StuckProbe(r)
  BY <1>2 DEF StuckProbe, RGoto
<1>3. CASE StuckRecover(r)
  <2>1. CASE Conflict(rcur[r], "stored")
    <3>1. EndTransaction(r, "missing") /\ UNCHANGED rowVars
      BY <1>3, <2>1 DEF StuckRecover
    <3> QED
      BY <1>3, <3>1, Rollback DEF StuckRecover
  <2>2. CASE ~Conflict(rcur[r], "stored")
    <3>1. /\ SetState(rcur[r], "stored") /\ EndTransaction(r, "stuck")
          /\ UNCHANGED <<uploadAttempts, hasMetadata>>
      BY <1>3, <2>2 DEF StuckRecover
    <3>2. rcur[r] \in Upload /\ uploadState[rcur[r]] = "uploading"
      BY <1>3 DEF StuckRecover
    <3> QED
      BY <1>3, <2>2, <3>1, <3>2, LockedWrite DEF StuckRecover
  <2> QED
    BY <2>1, <2>2
<1>4. CASE StuckRetry(r)
  <2>1. rcur[r] \in Upload /\ uploadState[rcur[r]] = "uploading"
    BY <1>4 DEF StuckRetry
  <2>2. PICK s \in {"uploading", "failed"} : SetState(rcur[r], s)
    BY <1>4 DEF StuckRetry
  <2>3. uploadAttempts' \in [Upload -> 0..MaxUploadRetries]
    BY <1>4, <2>1 DEF StuckRetry
  <2>4. ~Conflict(rcur[r], s) /\ EndTransaction(r, "stuck")
    BY <1>4 DEF StuckRetry, Conflict
  <2> QED
    BY <1>4, <2>1, <2>2, <2>3, <2>4, LockedWrite DEF StuckRetry
<1>5. CASE StuckDone(r)
  BY <1>5 DEF StuckDone, RGoto
<1>6. CASE MissingPublish(r)
  <2>1. CASE hasMetadata[rcur[r]]
    <3>1. /\ published' = [published EXCEPT ![rcur[r]] = @ + 1]
          /\ rpc[r] = "publish" /\ RGoto(r, "commit")
          /\ UNCHANGED <<handlerVars, content, rowVars, objects, rcur, errs,
                         cleanerVars, faults>>
      BY <1>6, <2>1 DEF MissingPublish
    <3>2. published' \in [Upload -> Nat]
      BY <3>1
    <3> QED
      BY <2>1, <3>1, <3>2 DEF RGoto
  <2>2. CASE ~hasMetadata[rcur[r]]
    <3>1. MissingRollback(r) /\ UNCHANGED published
      BY <1>6, <2>2 DEF MissingPublish
    <3> QED
      BY <1>6, <3>1, MissingRollbackSafe DEF MissingPublish
  <2> QED
    BY <2>1, <2>2
<1>7. CASE MissingCommit(r)
  <2>1. rcur[r] \in Upload /\ uploadState[rcur[r]] = "stored"
    BY <1>7 DEF MissingCommit
  <2>2. errs' \in [Reconciler -> 0..(MAX_CONSECUTIVE_ERRORS - 1)]
    BY <1>7 DEF MissingCommit
  <2> QED
    BY <1>7, <2>1, <2>2, LockedWrite DEF MissingCommit
<1>8. CASE MissingDone(r)
  BY <1>8 DEF MissingDone, RGoto
<1>9. CASE IntentsDone(r)
  BY <1>9 DEF IntentsDone, RGoto
<1>10. CASE ReconcilerDbError(r)
  <2>1. faults' \in 0..MaxFaults
    BY <1>10 DEF ReconcilerDbError, InjectFault
  <2>2. UNCHANGED <<handlerVars, content, rowVars, objects, published,
                    cleanerVars>>
    BY <1>10 DEF ReconcilerDbError
  <2>3. CASE MissingRollback(r)
    BY <2>1, <2>2, <2>3, MissingRollbackSafe
  <2>4. ASSUME NEW step \in {"missing", "idle"}, EndTransaction(r, step),
               UNCHANGED errs
        PROVE  InductiveInv'
    BY <2>1, <2>2, <2>4, Rollback
  <2> QED
    BY <1>10, <2>3, <2>4 DEF ReconcilerDbError
<1>11. CASE ProbeError(r)
  BY <1>11 DEF ProbeError, RGoto, InjectFault
<1>12. CASE MissingPublishError(r)
  <2>1. faults' \in 0..MaxFaults
    BY <1>12 DEF MissingPublishError, InjectFault
  <2>2. published' \in [Upload -> Nat]
    BY <1>12 DEF MissingPublishError
  <2> QED
    BY <1>12, <2>1, <2>2, MissingRollbackSafe DEF MissingPublishError
<1>13. CASE ReconcilerCrash(r)
  BY <1>13 DEF ReconcilerCrash, EndTransaction, RGoto, InjectFault
<1>14. ASSUME NEW u \in Upload, StuckSelect(r, u)
      PROVE  InductiveInv'
  BY <1>14 DEF StuckSelect, Select, Selectable, Locked, RGoto
<1>15. ASSUME NEW u \in Upload, MissingSelect(r, u)
      PROVE  InductiveInv'
  BY <1>15 DEF MissingSelect, Select, Selectable, Locked, RGoto
<1>16. ASSUME NEW u \in Upload, DeleteIntent(r, u)
      PROVE  InductiveInv'
  BY <1>16 DEF DeleteIntent, Selectable, Locked, SetState
<1> QED
  BY <1>1, <1>2, <1>3, <1>4, <1>5, <1>6, <1>7, <1>8,
     <1>9, <1>10, <1>11, <1>12, <1>13, <1>14, <1>15, <1>16
  DEF ReconcilerStep, ReconcilerFault

\* The cleanup and the clock write no row, no lock and no handler.
LEMMA CleanerInductive ==
  ASSUME InductiveInv, NEW k \in Cleaner, CleanerStep(k) \/ CleanerFault(k)
  PROVE  InductiveInv'
<1> USE IngestorAssumption
    DEF InductiveInv, TypeOK, HandlerControl, Transactions, Kept, UniqueActive,
        PastStored, CleanerSteps, handlerVars, rowVars, reconcilerVars
<1>1. CASE CleanupList(k)
  <2>1. todo' \in [Cleaner -> SUBSET Upload]
    BY <1>1 DEF CleanupList, FirstPage
  <2> QED
    BY <1>1, <2>1 DEF CleanupList
<1>2. ASSUME NEW u \in Upload, CleanupQuery(k, u)
      PROVE  InductiveInv'
  BY <1>2 DEF CleanupQuery
<1>3. CASE CleanupDelete(k)
  BY <1>3 DEF CleanupDelete, NextObject
<1>4. CASE CleanupDone(k)
  BY <1>4 DEF CleanupDone
<1>5. CASE CleanupError(k)
  <2>1. faults' \in 0..MaxFaults
    BY <1>5 DEF CleanupError, InjectFault
  <2>2. \E v : NextObject(k, v)
    BY <1>5 DEF CleanupError
  <2> QED
    BY <1>5, <2>1, <2>2 DEF CleanupError, NextObject
<1>6. CASE CleanerCrash(k)
  BY <1>6 DEF CleanerCrash, InjectFault
<1> QED
  BY <1>1, <1>2, <1>3, <1>4, <1>5, <1>6 DEF CleanerStep, CleanerFault

\* Every step of the service preserves the invariant.
LEMMA NextInductive == ASSUME InductiveInv, [Next]_vars PROVE InductiveInv'
<1>1. ASSUME NEW u \in Upload, Age(u)
      PROVE  InductiveInv'
  BY <1>1
  DEF Age, InductiveInv, TypeOK, HandlerControl, Transactions, Kept,
      UniqueActive, PastStored, handlerVars, reconcilerVars, cleanerVars
<1>2. CASE UNCHANGED vars
  BY <1>2
  DEF vars, handlerVars, rowVars, reconcilerVars, cleanerVars, InductiveInv,
      TypeOK, HandlerControl, Transactions, Kept, UniqueActive, PastStored
<1> QED
  BY <1>1, <1>2, HandlerInductive, ReconcilerInductive, CleanerInductive
  DEF Next

\* So every reachable state satisfies it.
LEMMA Invariance == Spec => []InductiveInv
<1>1. Init => InductiveInv
  BY InitInductive
<1>2. InductiveInv /\ [Next]_vars => InductiveInv'
  BY NextInductive
<1> QED
  BY <1>1, <1>2, PTL DEF Spec
-----------------------------------------------------------------------------
(* The theorems.                                                            *)

\* Every variable keeps its type: in particular no row leaves the enum of the
\* schema, and no row counts more attempts than MAX_UPLOAD_RETRIES.
THEOREM TypeCorrect == Spec => []TypeOK
<1>1. InductiveInv => TypeOK
  BY DEF InductiveInv
<1> QED
  BY <1>1, Invariance, PTL

\* A client told 'processing' keeps its wallpaper for ever.
THEOREM AcceptedDurable == Spec => []AcceptedIsDurable
<1>1. InductiveInv => AcceptedIsDurable
  BY DEF InductiveInv, Kept, PastStored, AcceptedIsDurable
<1> QED
  BY <1>1, Invariance, PTL

\* Of concurrent uploads of one file at most one is accepted: the index admits
\* one active row, and every accepted upload has one.
THEOREM OneAccepted == Spec => []OneAcceptedPerContent
<1>1. InductiveInv => OneAcceptedPerContent
  BY DEF InductiveInv, Kept, PastStored, UniqueActive, OneAcceptedPerContent
<1> QED
  BY <1>1, Invariance, PTL

\* FOR UPDATE SKIP LOCKED keeps any number of service instances apart.
THEOREM LockedRowStable == Spec => []LockedRowIsStable
<1>1. InductiveInv => LockedRowIsStable
  BY DEF InductiveInv, Transactions, LockedRowIsStable
<1> QED
  BY <1>1, Invariance, PTL
-----------------------------------------------------------------------------
(* Events are about kept wallpapers, unless the acknowledgement of a commit *)
(* can be lost: then a handler may fail a row it has in fact stored, after   *)
(* a reconciler has announced it.                                            *)

\* Complete metadata is written once, by the handler, with 'stored'; from then
\* on the handler can only publish, and the row can only become 'processing'.
Announceable ==
  \A u \in Upload :
    /\ published[u] > 0 => hasMetadata[u]
    /\ hasMetadata[u] => uploadState[u] \in Active
    /\ hasMetadata[u] => PastStored(u) \/ pc[u] = "crashed"

\* A handler leaves every announced or announceable row complete and kept.
LEMMA HandlerAnnounceable ==
  ASSUME "dbAck" \notin Faults, InductiveInv, Announceable, NEW u \in Upload,
         HandlerStep(u) \/ HandlerFault(u)
  PROVE  Announceable'
<1> USE DEF InductiveInv, TypeOK, HandlerControl, Kept, Announceable,
            PastStored, Active, handlerVars, rowVars, Throw, Goto, Transition
<1>1. CASE CheckDuplicate(u)
  <2>1. pc[u] = "idle" /\ (Goto(u, "insert") \/ Goto(u, "duplicate"))
    BY <1>1 DEF CheckDuplicate
  <2> QED
    BY <1>1, <2>1 DEF CheckDuplicate
<1>2. CASE RecordIntent(u)
  BY <1>2 DEF RecordIntent, InsertRow, SetState
<1>3. CASE ReadState(u)
  BY <1>3 DEF ReadState
<1>4. CASE UpdateState(u)
  <2>1. CASE Conflict(u, goal[u])
    BY <1>4, <2>1 DEF UpdateState
  <2>2. CASE ~Conflict(u, goal[u])
    <3>1. /\ pc[u] = "write" /\ UpdateRow(u) /\ Proceed(u)
          /\ published' = published
      BY <1>4, <2>2 DEF UpdateState
    <3>2. CASE uploadState[u] = "absent"
      BY <3>1, <3>2 DEF UpdateRow, Proceed
    <3>3. CASE uploadState[u] # "absent"
      <4>1. /\ uploadState' = [uploadState EXCEPT ![u] = goal[u]]
            /\ hasMetadata' =
                 [hasMetadata EXCEPT ![u] = @ \/ goal[u] = "stored"]
        BY <3>1, <3>3 DEF UpdateRow, SetState
      <4>2. CASE goal[u] = "stored"
        BY <3>1, <4>1, <4>2 DEF Proceed
      <4>3. CASE goal[u] # "stored"
        BY <3>1, <4>1, <4>3 DEF Proceed
      <4> QED
        BY <4>2, <4>3
    <3> QED
      BY <3>2, <3>3
  <2> QED
    BY <2>1, <2>2
<1>5. CASE PutObject(u)
  BY <1>5 DEF PutObject
<1>6. CASE LoadForPublish(u)
  BY <1>6 DEF LoadForPublish
<1>7. CASE PublishUploaded(u)
  BY <1>7 DEF PublishUploaded
<1>8. CASE DbError(u)
  BY <1>8 DEF DbError
<1>9. CASE PutError(u)
  BY <1>9 DEF PutError
<1>10. CASE PublishError(u)
  BY <1>10 DEF PublishError
<1>11. CASE HandlerCrash(u)
  BY <1>11 DEF HandlerCrash
<1> QED
  BY <1>1, <1>2, <1>3, <1>4, <1>5, <1>6, <1>7, <1>8, <1>9, <1>10, <1>11
  DEF HandlerStep, HandlerFault, DbAckLost, InjectFault

\* A reconciler announces only complete rows that it holds as 'stored'.
LEMMA ReconcilerAnnounceable ==
  ASSUME InductiveInv, Announceable, NEW r \in Reconciler,
         ReconcilerStep(r) \/ ReconcilerFault(r)
  PROVE  Announceable'
<1> USE DEF InductiveInv, TypeOK, Transactions, Announceable, PastStored,
            Active, handlerVars, rowVars
<1>1. CASE UNCHANGED <<handlerVars, rowVars, published>>
  BY <1>1
<1>2. CASE StuckRecover(r) \/ StuckRetry(r) \/ MissingCommit(r)
  BY <1>2 DEF StuckRecover, StuckRetry, MissingCommit, SetState
<1>3. CASE MissingPublish(r) \/ MissingPublishError(r)
  BY <1>3 DEF MissingPublish, MissingPublishError
<1>4. ASSUME NEW u \in Upload, DeleteIntent(r, u)
      PROVE  Announceable'
  BY <1>4 DEF DeleteIntent, Selectable, SetState
<1> QED
  BY <1>1, <1>2, <1>3, <1>4
  DEF ReconcilerStep, ReconcilerFault, StartCycle, StuckSelect, StuckProbe,
      StuckDone, MissingSelect, MissingDone, IntentsDone, Select,
      ReconcilerDbError, ProbeError, ReconcilerCrash

\* Every step keeps announced rows complete and kept.
LEMMA NextAnnounceable ==
  ASSUME "dbAck" \notin Faults, InductiveInv, Announceable, [Next]_vars
  PROVE  Announceable'
<1>1. CASE UNCHANGED <<handlerVars, uploadState, hasMetadata, published>>
  BY <1>1 DEF Announceable, PastStored, handlerVars
<1>2. ASSUME NEW k \in Cleaner, CleanerStep(k) \/ CleanerFault(k)
      PROVE  UNCHANGED <<handlerVars, rowVars, published>>
  BY <1>2
  DEF CleanerStep, CleanerFault, CleanupList, CleanupQuery, CleanupDelete,
      CleanupDone, CleanupError, CleanerCrash
<1> QED
  BY <1>1, <1>2, HandlerAnnounceable, ReconcilerAnnounceable
  DEF Next, Age, vars, rowVars

\* Where a lost acknowledgement is not among the faults, an event in the stream
\* is about a wallpaper that stays kept, with its metadata.
THEOREM PublishedKept ==
  ASSUME "dbAck" \notin Faults
  PROVE  Spec => []PublishedIsKept
<1>1. Init => Announceable
  BY DEF Init, Announceable
<1>2. InductiveInv /\ Announceable /\ [Next]_vars => Announceable'
  BY NextAnnounceable
<1>3. Announceable => PublishedIsKept
  BY DEF Announceable, PublishedIsKept
<1> QED
  BY <1>1, <1>2, <1>3, Invariance, PTL DEF Spec
-----------------------------------------------------------------------------
(* The cleanup takes no file of an upload in flight.                         *)

\* u has sent its file: it will never again move its row to 'uploading'.
PastPut(u) ==
  /\ pc[u] \notin {"idle", "insert", "put"}
  /\ ~(goal[u] = "uploading" /\ pc[u] \in {"read", "write"})

\* Whatever is in the bucket, in a listing or about to be deleted was sent; and
\* what is about to be deleted is not in flight, however stale the decision.
Files ==
  /\ \A u \in objects : PastPut(u)
  /\ \A k \in Cleaner :
       /\ \A u \in todo[k] : PastPut(u)
       /\ cpc[k] = "delete" =>
            /\ ccur[k] \in Upload /\ PastPut(ccur[k])
            /\ uploadState[ccur[k]] \notin {"initiated", "uploading"}

\* A handler never makes a decided deletion wrong.
LEMMA HandlerFiles ==
  ASSUME InductiveInv, Files, NEW u \in Upload,
         HandlerStep(u) \/ HandlerFault(u)
  PROVE  Files'
<1> USE DEF InductiveInv, TypeOK, HandlerControl, Files, PastPut, handlerVars,
            rowVars, cleanerVars, Throw, Goto, Transition
<1>1. CASE CheckDuplicate(u)
  <2>1. pc[u] = "idle" /\ (Goto(u, "insert") \/ Goto(u, "duplicate"))
    BY <1>1 DEF CheckDuplicate
  <2> QED
    BY <1>1, <2>1 DEF CheckDuplicate
<1>2. CASE RecordIntent(u)
  BY <1>2 DEF RecordIntent, InsertRow, SetState
<1>3. CASE ReadState(u)
  BY <1>3 DEF ReadState
<1>4. CASE UpdateState(u)
  BY <1>4 DEF UpdateState, UpdateRow, SetState, Proceed
<1>5. CASE PutObject(u)
  BY <1>5 DEF PutObject
<1>6. CASE LoadForPublish(u) \/ PublishUploaded(u)
  BY <1>6 DEF LoadForPublish, PublishUploaded
<1>7. CASE DbError(u)
  BY <1>7 DEF DbError
<1>8. CASE DbAckLost(u)
  BY <1>8 DEF DbAckLost, InsertRow, UpdateRow, SetState
<1>9. CASE PutError(u)
  BY <1>9 DEF PutError
<1>10. CASE PublishError(u) \/ HandlerCrash(u)
  BY <1>10 DEF PublishError, HandlerCrash
<1> QED
  BY <1>1, <1>2, <1>3, <1>4, <1>5, <1>6, <1>7, <1>8, <1>9, <1>10
  DEF HandlerStep, HandlerFault

\* A reconciler never brings back a row whose file is about to be deleted.
LEMMA ReconcilerFiles ==
  ASSUME InductiveInv, Files, NEW r \in Reconciler,
         ReconcilerStep(r) \/ ReconcilerFault(r)
  PROVE  Files'
<1> USE DEF InductiveInv, TypeOK, Transactions, Files, PastPut, handlerVars,
            rowVars, cleanerVars
<1>1. CASE UNCHANGED <<handlerVars, rowVars, objects, cleanerVars>>
  BY <1>1
<1>2. CASE StuckRecover(r) \/ StuckRetry(r) \/ MissingCommit(r)
  BY <1>2 DEF StuckRecover, StuckRetry, MissingCommit, SetState
<1>3. ASSUME NEW u \in Upload, DeleteIntent(r, u)
      PROVE  Files'
  BY <1>3 DEF DeleteIntent, SetState
<1> QED
  BY <1>1, <1>2, <1>3
  DEF ReconcilerStep, ReconcilerFault, StartCycle, StuckSelect, StuckProbe,
      StuckDone, MissingSelect, MissingDone, IntentsDone, Select,
      MissingPublish, MissingPublishError, ReconcilerDbError, ProbeError,
      ReconcilerCrash

\* A cleanup decides only on rows that are absent or failed.
LEMMA CleanerFiles ==
  ASSUME InductiveInv, Files, NEW k \in Cleaner,
         CleanerStep(k) \/ CleanerFault(k)
  PROVE  Files'
<1> USE DEF InductiveInv, TypeOK, Files, PastPut, handlerVars, rowVars
<1>1. CASE CleanupList(k)
  BY <1>1 DEF CleanupList, FirstPage
<1>2. ASSUME NEW u \in Upload, CleanupQuery(k, u)
      PROVE  Files'
  BY <1>2 DEF CleanupQuery, Orphaned
<1>3. CASE CleanupDelete(k)
  BY <1>3 DEF CleanupDelete, NextObject
<1>4. CASE CleanupDone(k)
  BY <1>4 DEF CleanupDone
<1>5. CASE CleanupError(k)
  BY <1>5 DEF CleanupError, NextObject
<1>6. CASE CleanerCrash(k)
  BY <1>6 DEF CleanerCrash
<1> QED
  BY <1>1, <1>2, <1>3, <1>4, <1>5, <1>6 DEF CleanerStep, CleanerFault

\* Every step keeps decided deletions away from rows in flight.
LEMMA NextFiles ==
  ASSUME InductiveInv, Files, [Next]_vars
  PROVE  Files'
<1>1. CASE UNCHANGED <<handlerVars, uploadState, objects, cleanerVars>>
  BY <1>1 DEF Files, PastPut, handlerVars, cleanerVars
<1> QED
  BY <1>1, HandlerFiles, ReconcilerFiles, CleanerFiles
  DEF Next, Age, vars, rowVars

\* One step never takes the file of a row in flight.
LEMMA StepKeepsFile ==
  ASSUME InductiveInv, Files, [Next]_vars, NEW u \in Upload, u \in objects,
         uploadState[u] \in {"initiated", "uploading"}
  PROVE  u \in objects'
<1>1. ASSUME NEW k \in Cleaner, CleanupDelete(k)
      PROVE  u \in objects'
  BY <1>1 DEF CleanupDelete, Files
<1>2. CASE objects \subseteq objects'
  BY <1>2
<1>3. ASSUME NEW v \in Upload, HandlerStep(v) \/ HandlerFault(v)
      PROVE  objects \subseteq objects'
  BY <1>3
  DEF HandlerStep, HandlerFault, CheckDuplicate, RecordIntent, ReadState,
      UpdateState, PutObject, LoadForPublish, PublishUploaded, DbError,
      DbAckLost, PutError, PublishError, HandlerCrash
<1>4. ASSUME NEW r \in Reconciler, ReconcilerStep(r) \/ ReconcilerFault(r)
      PROVE  objects' = objects
  BY <1>4
  DEF ReconcilerStep, ReconcilerFault, StartCycle, StuckSelect, StuckProbe,
      StuckRecover, StuckRetry, StuckDone, MissingSelect, MissingDone,
      IntentsDone, Select, MissingPublish, MissingCommit, MissingPublishError,
      DeleteIntent, ReconcilerDbError, ProbeError, ReconcilerCrash
<1>5. ASSUME NEW k \in Cleaner, CleanerStep(k) \/ CleanerFault(k)
      PROVE  u \in objects'
  BY <1>1, <1>5
  DEF CleanerStep, CleanerFault, CleanupList, CleanupQuery, CleanupDone,
      CleanupError, CleanerCrash
<1> QED
  BY <1>2, <1>3, <1>4, <1>5 DEF Next, Age, vars

\* The cleanup never deletes the file of an upload whose row still moves towards
\* 'stored', although its listing and its query may be arbitrarily old.
THEOREM InFlightFileKept == Spec => InFlightFileIsKept
<1>1. Init => Files
  BY DEF Init, Files
<1>2. InductiveInv /\ Files /\ [Next]_vars => Files'
  BY NextFiles
<1>3. InductiveInv /\ Files /\ [Next]_vars =>
        [\A u \in Upload :
           uploadState[u] \in {"initiated", "uploading"} /\ u \in objects
             => u \in objects']_vars
  BY StepKeepsFile
<1> QED
  BY <1>1, <1>2, <1>3, Invariance, PTL DEF Spec, InFlightFileIsKept
-----------------------------------------------------------------------------
(* What an 'already_uploaded' answer names stays kept, where no row becomes  *)
(* 'stored' without its handler: not for a JPEG, nor with a lost             *)
(* acknowledgement.                                                          *)

\* Only a JPEG is recovered without its metadata, so an active row of any other
\* content is complete; and an original is such a row, with metadata for good.
Originals ==
  /\ \A r \in Reconciler : rpc[r] = "recover" => content[rcur[r]] \in Jpeg
  /\ \A u \in Upload :
       content[u] \notin Jpeg /\ uploadState[u] \in Active => hasMetadata[u]
  /\ \A u \in Upload :
       pc[u] = "duplicate" /\ content[u] \notin Jpeg =>
         original[u] \in Upload /\ hasMetadata[original[u]]

\* The duplicate check finds an active row of the same content, hence a complete
\* one.
LEMMA CheckDuplicateOriginals ==
  ASSUME InductiveInv, Originals, NEW u \in Upload, CheckDuplicate(u)
  PROVE  Originals'
<1>1. /\ UNCHANGED <<content, uploadState, hasMetadata, rpc, rcur>>
      /\ pc \in [Upload -> HandlerSteps]
      /\ original \in [Upload -> Upload \cup {None}]
  BY DEF CheckDuplicate, rowVars, reconcilerVars, InductiveInv, TypeOK
<1>2. CASE Goto(u, "insert") /\ original' = original
  BY <1>1, <1>2 DEF Originals, Goto
<1>3. CASE /\ Goto(u, "duplicate")
           /\ \E v \in Upload : /\ content[v] = content[u]
                                /\ uploadState[v] \in Active
                                /\ original' = [original EXCEPT ![u] = v]
  BY <1>1, <1>3 DEF Originals, Goto
<1> QED
  BY <1>2, <1>3 DEF CheckDuplicate

\* The transition a handler writes sets the metadata together with 'stored'.
LEMMA UpdateStateOriginals ==
  ASSUME InductiveInv, Originals, NEW u \in Upload, UpdateState(u)
  PROVE  Originals'
<1> USE DEF InductiveInv, TypeOK, HandlerControl, Kept, Originals,
            PastStored, Active, UploadState, rowVars, reconcilerVars
<1>1. CASE Conflict(u, goal[u])
  BY <1>1 DEF UpdateState, Throw, Goto, Transition
<1>2. CASE ~Conflict(u, goal[u])
  <2>1. /\ pc[u] = "write" /\ UpdateRow(u) /\ Proceed(u)
        /\ UNCHANGED <<original, content, rpc, rcur>>
    BY <1>2 DEF UpdateState
  <2>2. \A v \in Upload : hasMetadata[v] => hasMetadata'[v]
    BY <2>1 DEF UpdateRow
  <2>3. \A v \in Upload : pc'[v] = "duplicate" => pc[v] = "duplicate"
    BY <2>1 DEF Proceed, Goto
  <2>4. ASSUME NEW v \in Upload, content[v] \notin Jpeg, uploadState'[v] \in Active
        PROVE  hasMetadata'[v]
    <3>1. CASE uploadState'[v] = uploadState[v]
      BY <2>1, <2>2, <2>4, <3>1
    <3>2. CASE uploadState'[v] # uploadState[v]
      <4>1. /\ v = u /\ uploadState'[u] = goal[u]
            /\ hasMetadata' = [hasMetadata EXCEPT ![u] = @ \/ goal[u] = "stored"]
        BY <2>1, <3>2 DEF UpdateRow, SetState
      <4>2. goal[u] \in {"stored", "processing"}
        BY <2>1, <2>4, <4>1 DEF Proceed
      <4>3. CASE goal[u] = "stored"
        BY <4>1, <4>3
      <4>4. CASE goal[u] = "processing"
        BY <2>1, <2>2, <4>1, <4>4
      <4> QED
        BY <4>2, <4>3, <4>4
    <3> QED
      BY <3>1, <3>2
  <2> QED
    BY <2>1, <2>2, <2>3, <2>4
<1> QED
  BY <1>1, <1>2

\* No other call of a handler makes a row active or names an original.
LEMMA HandlerOriginals ==
  ASSUME "dbAck" \notin Faults, InductiveInv, Originals, NEW u \in Upload,
         HandlerStep(u) \/ HandlerFault(u)
  PROVE  Originals'
<1> USE DEF InductiveInv, TypeOK, Originals, rowVars, reconcilerVars, Throw,
            Goto, Transition
<1>1. CASE RecordIntent(u)
  BY <1>1 DEF RecordIntent, InsertRow, SetState, Active
<1>2. CASE ReadState(u) \/ LoadForPublish(u)
  BY <1>2 DEF ReadState, LoadForPublish
<1>3. CASE PutObject(u) \/ PublishUploaded(u)
  BY <1>3 DEF PutObject, PublishUploaded
<1>4. CASE DbError(u) \/ PutError(u)
  BY <1>4 DEF DbError, PutError
<1>5. CASE PublishError(u) \/ HandlerCrash(u)
  BY <1>5 DEF PublishError, HandlerCrash
<1> QED
  BY <1>1, <1>2, <1>3, <1>4, <1>5, CheckDuplicateOriginals,
     UpdateStateOriginals
  DEF HandlerStep, HandlerFault, DbAckLost, InjectFault

\* The stuck-uploads job probes for original.jpg, so what it recovers is a JPEG.
LEMMA ReconcilerOriginals ==
  ASSUME InductiveInv, Originals, NEW r \in Reconciler,
         ReconcilerStep(r) \/ ReconcilerFault(r)
  PROVE  Originals'
<1> USE DEF InductiveInv, TypeOK, Transactions, Originals, Active,
            handlerVars, rowVars, EndTransaction, RGoto
<1>1. CASE StuckProbe(r)
  BY <1>1 DEF StuckProbe
<1>2. CASE StuckRecover(r)
  BY <1>2 DEF StuckRecover, SetState
<1>3. CASE StuckRetry(r) \/ MissingCommit(r)
  BY <1>3 DEF StuckRetry, MissingCommit, SetState
<1>4. ASSUME NEW u \in Upload, DeleteIntent(r, u)
      PROVE  Originals'
  BY <1>4 DEF DeleteIntent, SetState, reconcilerVars
<1>5. CASE /\ UNCHANGED <<pc, content, original, uploadState, hasMetadata>>
           /\ \E q \in Reconciler, step \in ReconcilerSteps \ {"recover"} :
                /\ rpc' = [rpc EXCEPT ![q] = step]
                /\ \A p \in Reconciler \ {q} : rcur'[p] = rcur[p]
  BY <1>5
<1>6. CASE \/ StartCycle(r) \/ StuckDone(r) \/ MissingDone(r) \/ IntentsDone(r)
           \/ ProbeError(r) \/ ReconcilerCrash(r)
  BY <1>5, <1>6
  DEF StartCycle, StuckDone, MissingDone, IntentsDone, ProbeError,
      ReconcilerCrash, ReconcilerSteps
<1>7. CASE MissingRollback(r) /\ UNCHANGED <<handlerVars, content, rowVars>>
  BY <1>5, <1>7 DEF MissingRollback, ReconcilerSteps
<1>8. CASE MissingPublish(r) \/ MissingPublishError(r)
  BY <1>5, <1>7, <1>8 DEF MissingPublish, MissingPublishError, ReconcilerSteps
<1>9. CASE ReconcilerDbError(r)
  BY <1>5, <1>7, <1>9 DEF ReconcilerDbError, ReconcilerSteps
<1>10. ASSUME NEW u \in Upload, StuckSelect(r, u) \/ MissingSelect(r, u)
       PROVE  Originals'
  BY <1>5, <1>10 DEF StuckSelect, MissingSelect, Select, ReconcilerSteps
<1> QED
  BY <1>1, <1>2, <1>3, <1>4, <1>6, <1>8, <1>9, <1>10
  DEF ReconcilerStep, ReconcilerFault

\* Every step keeps the originals that were named.
LEMMA NextOriginals ==
  ASSUME "dbAck" \notin Faults, InductiveInv, Originals, [Next]_vars
  PROVE  Originals'
<1>1. CASE UNCHANGED <<handlerVars, content, uploadState, hasMetadata, reconcilerVars>>
  BY <1>1 DEF Originals, handlerVars, reconcilerVars
<1>2. ASSUME NEW k \in Cleaner, CleanerStep(k) \/ CleanerFault(k)
      PROVE  UNCHANGED <<handlerVars, content, rowVars, reconcilerVars>>
  BY <1>2
  DEF CleanerStep, CleanerFault, CleanupList, CleanupQuery, CleanupDelete,
      CleanupDone, CleanupError, CleanerCrash
<1> QED
  BY <1>1, <1>2, HandlerOriginals, ReconcilerOriginals
  DEF Next, Age, vars, rowVars

\* A client told 'already_uploaded' of a file that is no JPEG was pointed at a
\* wallpaper that is complete and kept for ever, where no acknowledgement of a
\* commit is lost.
THEOREM DuplicateKept ==
  ASSUME "dbAck" \notin Faults
  PROVE  Spec => []DuplicateIsKept
<1>1. Init => Announceable /\ Originals
  BY IngestorAssumption DEF Init, Announceable, Originals, Active
<1>2. /\ InductiveInv /\ Announceable /\ [Next]_vars => Announceable'
      /\ InductiveInv /\ Originals /\ [Next]_vars => Originals'
  BY NextAnnounceable, NextOriginals
<1>3. Announceable /\ Originals => DuplicateIsKept
  BY DEF Announceable, Originals, DuplicateIsKept
<1> QED
  BY <1>1, <1>2, <1>3, Invariance, PTL DEF Spec
-----------------------------------------------------------------------------
(* Ingestor implements UploadPromise: every step of the service is one step  *)
(* of the promise, or none, under the mapping Ingestor!Promise.              *)

Answers == {"accepted", "duplicate", "rejected"}

\* What a step of the service may show of upload u, all others unchanged.
Move(u) ==
  /\ content' = content
  /\ \A v \in Upload \ {u} : /\ pc'[v] = pc[v]
                             /\ uploadState'[v] = uploadState[v]
                             /\ published'[v] = published[v]
  /\ pc[u] \in Answers => pc'[u] = pc[u]
  /\ pc'[u] = "accepted" => uploadState[u] \in Active
  /\ pc'[u] = "duplicate" /\ pc[u] # "duplicate" =>
       /\ uploadState[u] = "absent" /\ published'[u] = published[u]
       /\ \E v \in Upload : content[v] = content[u] /\ uploadState[v] \in Active
  /\ pc'[u] = "rejected" /\ pc[u] # "rejected" =>
       /\ published'[u] = published[u]
       /\ uploadState'[u] \in Active => uploadState[u] \in Active
  /\ published'[u] # published[u] =>
       /\ published'[u] > 0
       /\ uploadState[u] \in Active /\ uploadState'[u] \in Active

\* A move is a step of the promise.
LEMMA MoveIsPromised ==
  ASSUME InductiveInv, InductiveInv', NEW u \in Upload, Move(u)
  PROVE  [Promise!Next]_(Promise!vars)
<1> DEFINE Told == pc'[u] \in Answers /\ pc[u] \notin Answers
<1> USE DEF Move, Answers
<1>1. /\ pc \in [Upload -> HandlerSteps] /\ pc' \in [Upload -> HandlerSteps]
      /\ uploadState \in [Upload -> UploadState \cup {"absent"}]
      /\ uploadState' \in [Upload -> UploadState \cup {"absent"}]
      /\ published \in [Upload -> Nat] /\ published' \in [Upload -> Nat]
  BY DEF InductiveInv, TypeOK
<1>2. CASE Told
  <2>1. Answered[u] = "none" /\ Answered' = [Answered EXCEPT ![u] = pc'[u]]
    BY <1>1, <1>2 DEF Answered
  <2>2. CASE pc'[u] = "accepted"
    <3>1. u \in KeptUploads /\ KeptUploads' = KeptUploads
      BY <1>1, <1>2, <2>2
      DEF KeptUploads, InductiveInv, Kept, PastStored
    <3>2. Announced' \in {Announced, Announced \cup {u}}
      <4>1. CASE published'[u] = published[u]
        BY <1>1, <4>1 DEF Announced
      <4>2. CASE published'[u] # published[u]
        <5>1. Announced' = Announced \cup {u}
          BY <1>1, <4>2 DEF Announced
        <5> QED
          BY <5>1
      <4> QED
        BY <4>1, <4>2
    <3> QED
      BY <2>1, <2>2, <3>1, <3>2
      DEF Promise!Next, Promise!Accept, Promise!Answer
  <2>3. CASE pc'[u] = "duplicate"
    <3>1. uploadState[u] = "absent" /\ uploadState'[u] = "absent"
      BY <1>2, <2>3 DEF InductiveInv, HandlerControl
    <3>2. u \notin KeptUploads /\ KeptUploads' = KeptUploads
      BY <1>1, <3>1 DEF KeptUploads, Active
    <3>3. Announced' = Announced
      BY <1>1, <1>2, <2>3 DEF Announced
    <3>4. \E v \in KeptUploads : content[v] = content[u]
      BY <1>2, <2>3 DEF KeptUploads
    <3> QED
      BY <2>1, <2>3, <3>2, <3>3, <3>4
      DEF Promise!Next, Promise!Duplicate, Promise!Answer
  <2>4. CASE pc'[u] = "rejected"
    <3>1. Announced' = Announced
      BY <1>1, <1>2, <2>4 DEF Announced
    <3>2. KeptUploads' \in {KeptUploads, KeptUploads \ {u}}
      <4>1. CASE u \in KeptUploads'
        <5>1. KeptUploads' = KeptUploads
          BY <1>1, <1>2, <2>4, <4>1 DEF KeptUploads
        <5> QED
          BY <5>1
      <4>2. CASE u \notin KeptUploads'
        <5>1. KeptUploads' = KeptUploads \ {u}
          BY <1>1, <4>2 DEF KeptUploads
        <5> QED
          BY <5>1
      <4> QED
        BY <4>1, <4>2
    <3> QED
      BY <2>1, <2>4, <3>1, <3>2
      DEF Promise!Next, Promise!Reject, Promise!Answer
  <2> QED
    BY <1>2, <2>2, <2>3, <2>4
<1>3. CASE ~Told
  <2>1. Answered' = Answered
    BY <1>1, <1>3 DEF Answered
  <2>2. CASE u \in KeptUploads /\ u \in KeptUploads'
    <3>1. KeptUploads' = KeptUploads
      BY <1>1, <2>2 DEF KeptUploads
    <3>2. CASE published'[u] = published[u]
      <4>1. Announced' = Announced
        BY <1>1, <3>2 DEF Announced
      <4> QED
        BY <2>1, <3>1, <4>1 DEF Promise!vars
    <3>3. CASE published'[u] # published[u]
      <4>1. Announced' = Announced \cup {u}
        BY <1>1, <3>3 DEF Announced
      <4> QED
        BY <2>1, <2>2, <3>1, <4>1 DEF Promise!Next, Promise!Announce
    <3> QED
      BY <3>2, <3>3
  <2>3. CASE ~(u \in KeptUploads /\ u \in KeptUploads')
    <3>1. Announced' = Announced
      BY <1>1, <2>3 DEF Announced, KeptUploads
    <3>2. CASE u \in KeptUploads
      <4>1. KeptUploads' = KeptUploads \ {u}
        BY <1>1, <2>3, <3>2 DEF KeptUploads
      <4>2. Answered[u] # "accepted"
        BY <1>1, <1>3, <2>3, <3>2
        DEF Answered, KeptUploads, InductiveInv, Kept, PastStored
      <4> QED
        BY <2>1, <3>1, <3>2, <4>1, <4>2 DEF Promise!Next, Promise!Drop
    <3>3. CASE u \notin KeptUploads /\ u \in KeptUploads'
      <4>1. KeptUploads' = KeptUploads \cup {u}
        BY <1>1, <3>3 DEF KeptUploads
      <4>2. Answered[u] # "duplicate"
        BY <1>1, <1>3, <3>3
        DEF Answered, KeptUploads, InductiveInv, HandlerControl, Active
      <4>3. \A v \in KeptUploads : content[v] # content[u]
        BY <1>1, <3>3 DEF KeptUploads, InductiveInv, UniqueActive
      <4> QED
        BY <2>1, <3>1, <3>3, <4>1, <4>2, <4>3 DEF Promise!Next, Promise!Keep
    <3>4. CASE u \notin KeptUploads /\ u \notin KeptUploads'
      <4>1. KeptUploads' = KeptUploads
        BY <1>1, <3>4 DEF KeptUploads
      <4> QED
        BY <2>1, <3>1, <4>1 DEF Promise!vars
    <3> QED
      BY <3>2, <3>3, <3>4
  <2> QED
    BY <2>2, <2>3
<1> QED
  BY <1>2, <1>3

\* Every call of a handler, failed or not, is a move of its own upload.
LEMMA HandlerMoves ==
  ASSUME InductiveInv, NEW u \in Upload, HandlerStep(u) \/ HandlerFault(u)
  PROVE  Move(u)
<1> USE DEF InductiveInv, TypeOK, HandlerControl, Kept, PastStored, Active,
            UploadState, Move, Answers, handlerVars, rowVars, Throw, Goto,
            Transition
<1>1. CASE CheckDuplicate(u)
  <2>1. CASE pc'[u] = "duplicate"
    BY <1>1, <2>1 DEF CheckDuplicate
  <2>2. CASE pc'[u] # "duplicate"
    <3>1. Goto(u, "insert") /\ pc[u] = "idle"
      BY <1>1, <2>2 DEF CheckDuplicate
    <3> QED
      BY <1>1, <3>1 DEF CheckDuplicate
  <2> QED
    BY <2>1, <2>2
<1>2. CASE RecordIntent(u)
  BY <1>2 DEF RecordIntent, InsertRow, SetState
<1>3. CASE ReadState(u)
  BY <1>3 DEF ReadState
<1>4. CASE UpdateState(u)
  BY <1>4 DEF UpdateState, UpdateRow, SetState, Proceed
<1>5. CASE PutObject(u) \/ LoadForPublish(u) \/ PublishUploaded(u)
  BY <1>5 DEF PutObject, LoadForPublish, PublishUploaded
<1>6. CASE DbError(u)
  BY <1>6 DEF DbError
<1>7. CASE DbAckLost(u)
  BY <1>7 DEF DbAckLost, InsertRow, UpdateRow, SetState
<1>8. CASE PutError(u) \/ PublishError(u) \/ HandlerCrash(u)
  BY <1>8 DEF PutError, PublishError, HandlerCrash
<1> QED
  BY <1>1, <1>2, <1>3, <1>4, <1>5, <1>6, <1>7, <1>8
  DEF HandlerStep, HandlerFault

\* Every call of a reconciler is a move of the row it holds, or of none.
LEMMA ReconcilerMoves ==
  ASSUME InductiveInv, NEW r \in Reconciler,
         ReconcilerStep(r) \/ ReconcilerFault(r)
  PROVE  \/ UNCHANGED <<pc, content, uploadState, published>>
         \/ \E u \in Upload : Move(u)
<1> USE DEF InductiveInv, TypeOK, HandlerControl, Kept, PastStored, Active,
            Transactions, Move, Answers, handlerVars, rowVars
<1>1. CASE StuckRecover(r) \/ StuckRetry(r) \/ MissingCommit(r)
  <2>1. rcur[r] \in Upload
    BY <1>1 DEF StuckRecover, StuckRetry, MissingCommit
  <2>2. Move(rcur[r]) \/ UNCHANGED <<pc, content, uploadState, published>>
    BY <1>1, <2>1 DEF StuckRecover, StuckRetry, MissingCommit, SetState
  <2> QED
    BY <2>1, <2>2
<1>2. CASE MissingPublish(r) \/ MissingPublishError(r)
  <2>1. rcur[r] \in Upload
    BY <1>2 DEF MissingPublish, MissingPublishError
  <2>2. Move(rcur[r]) \/ UNCHANGED <<pc, content, uploadState, published>>
    BY <1>2, <2>1 DEF MissingPublish, MissingPublishError
  <2> QED
    BY <2>1, <2>2
<1>3. ASSUME NEW u \in Upload, DeleteIntent(r, u)
      PROVE  Move(u)
  BY <1>3 DEF DeleteIntent, Selectable, SetState
<1> QED
  BY <1>1, <1>2, <1>3
  DEF ReconcilerStep, ReconcilerFault, StartCycle, StuckSelect, StuckProbe,
      StuckDone, MissingSelect, MissingDone, IntentsDone, Select,
      ReconcilerDbError, ProbeError, ReconcilerCrash

\* Every step of the service is a step of the promise or a stutter.
LEMMA StepIsPromised ==
  ASSUME InductiveInv, [Next]_vars
  PROVE  [Promise!Next]_(Promise!vars)
<1>1. InductiveInv'
  BY NextInductive
<1>2. CASE UNCHANGED <<pc, content, uploadState, published>>
  BY <1>2 DEF Promise!vars, Answered, KeptUploads, Announced
<1>3. ASSUME NEW u \in Upload, Move(u)
      PROVE  [Promise!Next]_(Promise!vars)
  BY <1>1, <1>3, MoveIsPromised
<1>4. ASSUME NEW k \in Cleaner, CleanerStep(k) \/ CleanerFault(k)
      PROVE  UNCHANGED <<pc, content, uploadState, published>>
  BY <1>4
  DEF CleanerStep, CleanerFault, CleanupList, CleanupQuery, CleanupDelete,
      CleanupDone, CleanupError, CleanerCrash, handlerVars, rowVars
<1> QED
  BY <1>2, <1>3, <1>4, HandlerMoves, ReconcilerMoves
  DEF Next, Age, vars, handlerVars, rowVars

\* The upload handler, the reconcilers and the cleanup together implement the
\* promise, for any number of each and whatever faults occur.
THEOREM PromiseKept == Spec => KeepsPromise
<1>1. Init => Promise!Init
  BY DEF Init, Promise!Init, Answered, KeptUploads, Announced, Active
<1>2. InductiveInv /\ [Next]_vars => [Promise!Next]_(Promise!vars)
  BY StepIsPromised
<1> QED
  BY <1>1, <1>2, Invariance, PTL DEF Spec, KeepsPromise, Promise!Spec
=============================================================================
