--------------------------- MODULE Ingestion_proofs ---------------------------
(***************************************************************************)
(* Proofs about Ingestion for every set of Raws, workers, scans and        *)
(* operators and every set of fault budgets: type correctness, the         *)
(* invariants that hold under all faults, and that ods and quality_events  *)
(* implement OdsLedger.                                                    *)
(***************************************************************************)
EXTENDS Ingestion, TLAPS

-----------------------------------------------------------------------------
(* Types of what the helpers assign. *)

\* A fault injected is counted.
LEMMA InjectType ==
    ASSUME injected \in [Faults -> Nat], NEW f \in Faults, Inject(f)
    PROVE  injected' \in [Faults -> Nat]
BY DEF Inject, OneMore

\* Publishing keeps every count within the bound.
LEMMA PublishType ==
    ASSUME queue \in [Raws -> 0..MaxMsgs], NEW r \in Raws, Publish(r)
    PROVE  queue' \in [Raws -> 0..MaxMsgs]
BY StoreAssumption DEF Publish, StoreAssumption

\* The names of the faults the actions inject.
LEMMA FaultNames ==
    /\ "dbError" \in Faults /\ "lostAck" \in Faults /\ "procError" \in Faults
    /\ "slowWorker" \in Faults /\ "crash" \in Faults /\ "loseQueue" \in Faults
    /\ "redeliver" \in Faults /\ "publish" \in Faults /\ "lockError" \in Faults
    /\ "lockExpiry" \in Faults /\ "replay" \in Faults
BY DEF Faults

\* Moving on, retrying and returning keep the worker's locals in their types.
LEMMA WorkerMoveType ==
    ASSUME WorkerTypeOK, NEW w \in Workers, wpc[w] # "idle",
           \/ \E pc \in Claimed : GoTo(w, pc)
           \/ Retry(w)
           \/ Return(w)
    PROVE  WorkerTypeOK'
<1> USE StoreAssumption DEF StoreAssumption, WorkerTypeOK, WorkerPcs, Claimed
<1>1. CASE \E pc \in Claimed : GoTo(w, pc)
  BY <1>1 DEF GoTo
<1>2. CASE Retry(w)
  BY <1>2 DEF Retry
<1>3. CASE Return(w)
  BY <1>3 DEF Return, NoRaw
<1>4. QED
  BY <1>1, <1>2, <1>3

\* The claim, the landing and the status updates keep the tables in their types.
LEMMA TablesType ==
    ASSUME StoreTypeOK, NEW r \in Raws,
           \/ UNCHANGED tables
           \/ TryClaim(r)
           \/ Land(r)
           \/ InsertRaw(r)
           \/ \E new \in {"pending", "error", "duplicate"} : UpdateStatus(r, new)
    PROVE  /\ status' \in [Raws -> Statuses]
           /\ receivedAge' \in [Raws -> Ages]
           /\ startedAge' \in [Raws -> Ages]
           /\ ods' \subseteq Raws
           /\ verdicts' \in [Raws -> [ToStates -> Nat]]
<1> USE DEF StoreTypeOK, Statuses, Ages, SetStatus
<1>1. CASE UNCHANGED tables
  BY <1>1 DEF tables
<1>2. CASE TryClaim(r)
  BY <1>2 DEF TryClaim, tables
<1>3. CASE Land(r)
  BY <1>3 DEF Land, VerdictOf, ToStates
<1>4. CASE InsertRaw(r)
  BY <1>4 DEF InsertRaw
<1>5. CASE \E new \in {"pending", "error", "duplicate"} : UpdateStatus(r, new)
  BY <1>5 DEF UpdateStatus
<1>6. QED
  BY <1>1, <1>2, <1>3, <1>4, <1>5

-----------------------------------------------------------------------------
(* Type correctness, component by component. *)

\* A worker's step, fault or message keeps every variable in its type.
LEMMA WorkerTypes ==
    ASSUME TypeOK, NEW w \in Workers, WorkerNext(w)
    PROVE  TypeOK'
<1>1. ScanTypeOK' /\ ApiTypeOK'
  BY DEF WorkerNext, TypeOK, ScanTypeOK, ApiTypeOK, scanVars, apiVars
<1>2. wpc[w] # "idle" => wraw[w] \in Raws
  BY DEF TypeOK, WorkerTypeOK
<1>3. CASE \E r \in Raws : Take(w, r)
  <2>1. PICK r \in Raws : Take(w, r)
    BY <1>3
  <2>2. WorkerTypeOK'
    BY <2>1 DEF Take, TypeOK, WorkerTypeOK, WorkerPcs
  <2>3. StoreTypeOK'
    BY <2>1, StoreAssumption DEF Take, TypeOK, StoreTypeOK, tables, StoreAssumption
  <2>4. QED
    BY <1>1, <2>2, <2>3 DEF TypeOK
<1>4. CASE WorkerStep(w) \/ WorkerFault(w)
  <2>1. wpc[w] # "idle" /\ wraw[w] \in Raws
    BY <1>2, <1>4 DEF WorkerStep, WorkerFault, Claim, Build, Check, CommitRejected,
       CommitConflict, Commit, Mark, Marking, ClaimFails, ClaimAckLost, BuildFails,
       UnguardedSelectFails, CommitFails, CommitAckLost, MarkFails, MarkAckLost,
       Crash, Redeliver
  <2>2. \/ \E pc \in Claimed : GoTo(w, pc)
        \/ Retry(w)
        \/ Return(w)
        \/ UNCHANGED workerVars
    BY <1>4 DEF WorkerStep, WorkerFault, Claim, Build, Check, CommitRejected,
       CommitConflict, Commit, Mark, Marking, ClaimFails, ClaimAckLost, BuildFails,
       UnguardedSelectFails, CommitFails, CommitAckLost, MarkFails, MarkAckLost,
       Crash, Redeliver, RetryOrReturn, Claimed
  <2>3. WorkerTypeOK'
    <3>1. CASE UNCHANGED workerVars
      BY <3>1 DEF TypeOK, WorkerTypeOK, workerVars
    <3>2. QED
      BY <2>1, <2>2, <3>1, WorkerMoveType DEF TypeOK
  <2>4. \/ UNCHANGED tables
        \/ TryClaim(wraw[w])
        \/ Land(wraw[w])
        \/ \E new \in {"pending", "error", "duplicate"} : UpdateStatus(wraw[w], new)
    BY <1>4 DEF WorkerStep, WorkerFault, Claim, Build, Check, CommitRejected,
       CommitConflict, Commit, Mark, Marking, ClaimFails, ClaimAckLost, BuildFails,
       UnguardedSelectFails, CommitFails, CommitAckLost, MarkFails, MarkAckLost,
       Crash, Redeliver, NoDbChange, MarkedStatus, storeVars
  <2>5. queue' \in [Raws -> 0..MaxMsgs]
    <3>1. UNCHANGED queue \/ Publish(wraw[w])
      BY <1>4 DEF WorkerStep, WorkerFault, Claim, Build, Check, CommitRejected,
         CommitConflict, Commit, Mark, ClaimFails, ClaimAckLost, BuildFails,
         UnguardedSelectFails, CommitFails, CommitAckLost, MarkFails, MarkAckLost,
         Crash, Redeliver, storeVars
    <3>2. QED
      BY <2>1, <3>1, PublishType DEF TypeOK, StoreTypeOK
  <2>6. injected' \in [Faults -> Nat]
    <3>1. UNCHANGED injected \/ \E f \in Faults : Inject(f)
      BY <1>4, FaultNames DEF WorkerStep, WorkerFault, Claim, Build, Check,
         CommitRejected, CommitConflict, Commit, Mark, ClaimFails, ClaimAckLost,
         BuildFails, UnguardedSelectFails, CommitFails, CommitAckLost, MarkFails,
         MarkAckLost, Crash, Redeliver, NoDbChange, storeVars
    <3>2. QED
      BY <3>1, InjectType DEF TypeOK, StoreTypeOK
  <2>7. StoreTypeOK'
    BY <2>1, <2>4, <2>5, <2>6, TablesType DEF TypeOK, StoreTypeOK
  <2>8. QED
    BY <1>1, <2>3, <2>7 DEF TypeOK
<1>5. QED
  BY <1>3, <1>4 DEF WorkerNext

\* The columns of a SELECT are ids of Raw rows.
LEMMA SelectedAreRaws ==
    ASSUME NEW id, NEW n
    PROVE  /\ FirstByID(StaleRows, n) \subseteq Raws
           /\ FirstByID(PendingRows(id), n) \subseteq Raws
BY DEF FirstByID, StaleRows, PendingRows

\* The reset of a page keeps the tables in their types.
LEMMA ResetType ==
    ASSUME StoreTypeOK, NEW s \in Scans, ResetRows(s), UNCHANGED injected \/ Inject("lostAck")
    PROVE  StoreTypeOK'
<1>1. injected' \in [Faults -> Nat]
  BY InjectType, FaultNames DEF StoreTypeOK
<1>2. status' \in [Raws -> Statuses]
  BY DEF ResetRows, StoreTypeOK, Statuses
<1>3. QED
  BY <1>1, <1>2 DEF ResetRows, StoreTypeOK

\* The end of a scan forgets its locals and at most deletes its own lock.
LEMMA FinishType ==
    ASSUME ScanTypeOK, NEW s \in Scans, Forget(s), Finish(s) \/ UNCHANGED lock
    PROVE  ScanTypeOK'
BY ScanAssumption DEF Finish, Forget, ScanGoTo, ScanTypeOK, ScanPcs, ScanAssumption

\* A scan's step or fault keeps every variable in its type.
LEMMA ScanTypes ==
    ASSUME TypeOK, NEW s \in Scans, ScanNext(s)
    PROVE  TypeOK'
<1>1. WorkerTypeOK' /\ ApiTypeOK'
  BY DEF ScanNext, TypeOK, WorkerTypeOK, ApiTypeOK, workerVars, apiVars
<1>2. StoreTypeOK /\ ScanTypeOK
  BY DEF TypeOK
<1>3. StoreTypeOK' /\ ScanTypeOK'
  <2>1. CASE ScanStart(s)
    BY <1>2, <2>1, ScanAssumption DEF ScanStart, ScanTypeOK, ScanPcs, ScanGoTo, StoreTypeOK,
       storeVars, tables, ScanAssumption
  <2>2. CASE ScanStartUnlocked(s)
    <3>1. injected' \in [Faults -> Nat]
      BY <1>2, <2>2, InjectType, FaultNames DEF ScanStartUnlocked, StoreTypeOK
    <3>2. QED
      BY <1>2, <2>2, <3>1, ScanAssumption DEF ScanStartUnlocked, ScanTypeOK, ScanPcs,
         ScanGoTo, StoreTypeOK, tables, ScanAssumption
  <2>3. CASE SelectStale(s)
    BY <1>2, <2>3, SelectedAreRaws DEF SelectStale, ScanTypeOK, ScanPcs, ScanGoTo,
       StoreTypeOK, storeVars, tables
  <2>4. CASE ResetStale(s)
    <3>1. StoreTypeOK'
      BY <1>2, <2>4, ResetType DEF ResetStale
    <3>2. QED
      BY <1>2, <2>4, <3>1 DEF ResetStale, ScanTypeOK, ScanPcs, ScanGoTo
  <2>5. CASE ResetAckLost(s)
    <3>1. StoreTypeOK'
      BY <1>2, <2>5, ResetType DEF ResetAckLost
    <3>2. ScanTypeOK'
      BY <1>2, <2>5, FinishType DEF ResetAckLost, Finish
    <3>3. QED
      BY <3>1, <3>2
  <2>6. CASE SelectPending(s)
    <3>1. \A rows : rows = FirstByID(PendingRows(after[s]), BatchSize) => rows \subseteq Raws
      BY SelectedAreRaws
    <3>2. QED
      BY <1>2, <2>6, <3>1 DEF SelectPending, ScanTypeOK, ScanPcs, ScanGoTo, StoreTypeOK,
         storeVars, tables
  <2>7. CASE Dispatch(s)
    <3>1. PICK r \in page[s] : Publish(r) /\ page' = [page EXCEPT ![s] = @ \ {r}]
      BY <2>7 DEF Dispatch
    <3>2. queue' \in [Raws -> 0..MaxMsgs]
      BY <1>2, <3>1, PublishType DEF StoreTypeOK, ScanTypeOK
    <3>3. QED
      BY <1>2, <2>7, <3>1, <3>2 DEF Dispatch, ScanTypeOK, StoreTypeOK, tables
  <2>8. CASE NextPage(s)
    BY <1>2, <2>8, ScanAssumption DEF NextPage, ScanTypeOK, ScanPcs, ScanGoTo, StoreTypeOK,
       storeVars, tables, ScanAssumption
  <2>9. CASE ScanDone(s)
    <3>1. ScanTypeOK'
      BY <1>2, <2>9, FinishType DEF ScanDone, Finish
    <3>2. QED
      BY <1>2, <2>9, <3>1 DEF ScanDone, StoreTypeOK, storeVars, tables
  <2>10. CASE ScanRaises(s)
    <3>1. ScanTypeOK'
      BY <1>2, <2>10, FinishType DEF ScanRaises, Finish
    <3>2. injected' \in [Faults -> Nat]
      BY <1>2, <2>10, InjectType, FaultNames DEF ScanRaises, StoreTypeOK
    <3>3. QED
      BY <1>2, <2>10, <3>1, <3>2 DEF ScanRaises, StoreTypeOK, tables
  <2>11. CASE ScanCrash(s)
    <3>1. ScanTypeOK'
      BY <1>2, <2>11, FinishType DEF ScanCrash
    <3>2. injected' \in [Faults -> Nat]
      BY <1>2, <2>11, InjectType, FaultNames DEF ScanCrash, StoreTypeOK
    <3>3. QED
      BY <1>2, <2>11, <3>1, <3>2 DEF ScanCrash, StoreTypeOK, tables
  <2>12. QED
    BY <2>1, <2>2, <2>3, <2>4, <2>5, <2>6, <2>7, <2>8, <2>9, <2>10, <2>11
       DEF ScanNext, ScanStep, ScanFault
<1>4. QED
  BY <1>1, <1>3 DEF TypeOK

\* A handler of POST /orders keeps every variable in its type.
LEMMA CreateTypes ==
    ASSUME TypeOK, NEW r \in Raws, CreateNext(r)
    PROVE  TypeOK'
<1> DEFINE Create == Post(r) \/ CreateStep(r) \/ CreateFault(r)
<1> USE DEF CreateStep, CreateFault, Post, Insert, InsertFails, InsertAckLost, Reinsert,
        Refresh, RefreshFails, PoolTimeout, EnqueueNew, ApiCrash
<1>1. WorkerTypeOK' /\ ScanTypeOK'
  BY DEF CreateNext, TypeOK, WorkerTypeOK, ScanTypeOK, workerVars, scanVars
<1>2. Create
  BY DEF CreateNext
<1>3. StoreTypeOK /\ ApiTypeOK
  BY DEF TypeOK
<1>4. Insert(r) \/ \E pc \in ApiPcs : Answer(r, pc) \/ RetryOr500(r, pc)
  <2>1. {"insert", "reinsert", "enqueue", "refresh", "ok200", "err500", "err503", "died"}
          \subseteq ApiPcs
    BY DEF ApiPcs, Answered
  <2>2. CASE \E pc \in {"insert", "enqueue", "ok200", "err500", "err503", "died"} : Answer(r, pc)
    BY <2>1, <2>2
  <2>3. CASE \E pc \in {"insert", "reinsert", "refresh"} : RetryOr500(r, pc)
    BY <2>1, <2>3
  <2>4. QED
    BY <1>2, <2>2, <2>3
<1>5. ApiTypeOK'
  <2>1. Attempts \in Nat \ {0}
    BY StoreAssumption DEF StoreAssumption
  <2>2. CASE Insert(r)
    BY <1>3, <2>2 DEF ApiTypeOK, ApiPcs, replayVars
  <2>3. ASSUME NEW pc \in ApiPcs, Answer(r, pc)
        PROVE  ApiTypeOK'
    BY <1>3, <2>1, <2>3 DEF Answer, ApiTypeOK, replayVars
  <2>4. ASSUME NEW pc \in ApiPcs, RetryOr500(r, pc)
        PROVE  ApiTypeOK'
    <3>1. CASE atry[r] < Attempts
      BY <1>3, <2>1, <2>4, <3>1 DEF RetryOr500, ApiTypeOK, replayVars
    <3>2. CASE ~(atry[r] < Attempts)
      BY <1>3, <2>1, <2>4, <3>2 DEF RetryOr500, ApiTypeOK, replayVars, ApiPcs, Answered
    <3>3. QED
      BY <3>1, <3>2
  <2>5. QED
    BY <1>4, <2>2, <2>3, <2>4
<1>6. UNCHANGED tables \/ InsertRaw(r)
  BY <1>2 DEF storeVars
<1>7. UNCHANGED injected \/ \E f \in Faults : Inject(f)
  BY <1>2, FaultNames DEF storeVars
<1>8. UNCHANGED queue \/ Publish(r)
  BY <1>2 DEF Enqueue, storeVars
<1>9. injected' \in [Faults -> Nat] /\ queue' \in [Raws -> 0..MaxMsgs]
  BY <1>3, <1>7, <1>8, InjectType, PublishType DEF StoreTypeOK
<1>10. StoreTypeOK'
  BY <1>3, <1>6, <1>9, TablesType DEF StoreTypeOK
<1>11. QED
  BY <1>1, <1>5, <1>10 DEF TypeOK

\* A handler of POST /process_raw keeps every variable in its type.
LEMMA ReplayTypes ==
    ASSUME TypeOK, NEW o \in Operators, ReplayNext(o)
    PROVE  TypeOK'
<1> USE DEF ReplayCall, ReplayStep, ForceCheck, Replay, Asked, ForceReset, ForceResetFails,
        ReplayDispatch, EndReplay
<1>1. WorkerTypeOK' /\ ScanTypeOK'
  BY DEF ReplayNext, TypeOK, WorkerTypeOK, ScanTypeOK, workerVars, scanVars
<1>2. ReplayCall(o) \/ ReplayStep(o) \/ ForceResetFails(o)
  BY DEF ReplayNext
<1>3. StoreTypeOK /\ ApiTypeOK
  BY DEF TypeOK
<1>4. ApiTypeOK'
  BY <1>2, <1>3 DEF ApiTypeOK, Unasked, createVars
<1>5. UNCHANGED tables \/ (oraw[o] \in Raws /\ UpdateStatus(oraw[o], "pending"))
  BY <1>2, <1>3 DEF ApiTypeOK
<1>6. UNCHANGED queue \/ (oraw[o] \in Raws /\ Publish(oraw[o]))
  BY <1>2, <1>3 DEF ApiTypeOK, Enqueue
<1>7. UNCHANGED injected \/ \E f \in Faults : Inject(f)
  BY <1>2, FaultNames
<1>8. injected' \in [Faults -> Nat] /\ queue' \in [Raws -> 0..MaxMsgs]
  BY <1>3, <1>6, <1>7, InjectType, PublishType DEF StoreTypeOK
<1>9. StoreTypeOK'
  <2>1. CASE UNCHANGED tables
    BY <1>3, <1>8, <2>1 DEF StoreTypeOK, tables
  <2>2. CASE oraw[o] \in Raws /\ UpdateStatus(oraw[o], "pending")
    BY <1>3, <1>8, <2>2, TablesType DEF StoreTypeOK
  <2>3. QED
    BY <1>5, <2>1, <2>2
<1>10. QED
  BY <1>1, <1>4, <1>9 DEF TypeOK

\* Clocks and Redis keep every variable in its type.
LEMMA EnvironmentTypes ==
    ASSUME TypeOK, EnvironmentNext
    PROVE  TypeOK'
<1>1. UNCHANGED injected \/ \E f \in Faults : Inject(f)
  BY FaultNames DEF EnvironmentNext, LoseQueue, GracePasses, ClaimAges, LockExpires
<1>2. injected' \in [Faults -> Nat]
  BY <1>1, InjectType DEF TypeOK, StoreTypeOK
<1>3. WorkerTypeOK' /\ ApiTypeOK'
  BY DEF EnvironmentNext, ClaimAges, TypeOK, WorkerTypeOK, ApiTypeOK, workerVars, apiVars
<1>4. ScanTypeOK'
  BY DEF EnvironmentNext, LockExpires, TypeOK, ScanTypeOK, scanVars
<1>5. StoreTypeOK'
  <2>1. UNCHANGED <<status, ods, verdicts>>
    BY DEF EnvironmentNext, LoseQueue, GracePasses, ClaimAges, LockExpires, tables
  <2>2. receivedAge' \in [Raws -> Ages]
    BY DEF EnvironmentNext, LoseQueue, GracePasses, ClaimAges, LockExpires, tables, TypeOK,
       StoreTypeOK, Ages
  <2>3. startedAge' \in [Raws -> Ages]
    BY DEF EnvironmentNext, LoseQueue, GracePasses, ClaimAges, LockExpires, tables, TypeOK,
       StoreTypeOK, Ages
  <2>4. queue' \in [Raws -> 0..MaxMsgs]
    BY StoreAssumption DEF EnvironmentNext, LoseQueue, GracePasses, ClaimAges, LockExpires,
       TypeOK, StoreTypeOK, StoreAssumption
  <2>5. QED
    BY <1>2, <2>1, <2>2, <2>3, <2>4 DEF TypeOK, StoreTypeOK
<1>6. QED
  BY <1>3, <1>4, <1>5 DEF TypeOK

\* The empty database, idle processes and no fault injected are of their types.
LEMMA InitType == Init => TypeOK
BY StoreAssumption, ScanAssumption DEF Init, StoreInit, WorkerInit, ScanInit, ApiInit, TypeOK,
   StoreTypeOK, WorkerTypeOK, ScanTypeOK, ApiTypeOK, Statuses, Ages, ToStates, NoRaw,
   WorkerPcs, ScanPcs, ApiPcs, Unasked, StoreAssumption, ScanAssumption

\* A step of any process, or none, keeps every variable in its type.
LEMMA NextType == TypeOK /\ [Next]_vars => TypeOK'
<1> SUFFICES ASSUME TypeOK, [Next]_vars
             PROVE  TypeOK'
  OBVIOUS
<1>1. CASE Next
  BY <1>1, WorkerTypes, ScanTypes, CreateTypes, ReplayTypes, EnvironmentTypes DEF Next
<1>2. CASE UNCHANGED vars
  BY <1>2 DEF vars, storeVars, tables, workerVars, scanVars, apiVars, TypeOK, StoreTypeOK,
     WorkerTypeOK, ScanTypeOK, ApiTypeOK
<1>3. QED
  BY <1>1, <1>2

\* Type correctness, for any number of Raws, workers, scans and operators, any
\* number of attempts and any fault budgets.
THEOREM TypeCorrect == Spec => []TypeOK
BY InitType, NextType, PTL DEF Spec

-----------------------------------------------------------------------------
(* The invariants.  What a step can do to the tables is said once.         *)

\* The writes of the whole system.
TableStep ==
    \/ UNCHANGED tables
    \/ \E r \in Raws : TryClaim(r)
    \/ \E r \in Raws : PayloadOf[r] # "malformed" /\ Land(r)
    \/ \E r \in Raws : InsertRaw(r) \/ UpdateStatus(r, "pending")
    \/ \E w \in Workers : Marking(w) /\ UpdateStatus(wraw[w], MarkedStatus(wpc[w]))
    \/ \E s \in Scans : ResetRows(s)
    \/ \E r \in Raws : GracePasses(r) \/ ClaimAges(r)

\* A worker's step writes the tables by its claim, its commit or its mark.
LEMMA WorkerWrites ==
    ASSUME TypeOK, BuiltIsBuildable, NEW w \in Workers, WorkerNext(w)
    PROVE  TableStep
<1>1. wpc[w] # "idle" => wraw[w] \in Raws
  BY DEF TypeOK, WorkerTypeOK
<1>2. CASE Commit(w) \/ CommitAckLost(w)
  BY <1>1, <1>2 DEF Commit, CommitAckLost, BuiltIsBuildable, TableStep
<1>3. CASE Claim(w) \/ ClaimAckLost(w)
  BY <1>1, <1>3 DEF Claim, ClaimAckLost, TableStep
<1>4. CASE Mark(w) \/ MarkAckLost(w)
  BY <1>4 DEF Mark, MarkAckLost, TableStep
<1>5. CASE UNCHANGED tables
  BY <1>5 DEF TableStep
<1>6. QED
  BY <1>2, <1>3, <1>4, <1>5 DEF WorkerNext, WorkerStep, WorkerFault, Take, Build, Check,
     CommitRejected, CommitConflict, ClaimFails, BuildFails, UnguardedSelectFails,
     CommitFails, MarkFails, Crash, Redeliver, NoDbChange, storeVars

\* Every step of the system writes the tables by one of the listed transactions.
LEMMA StepWrites ==
    ASSUME TypeOK, BuiltIsBuildable, [Next]_vars
    PROVE  TableStep
<1>1. ASSUME NEW w \in Workers, WorkerNext(w)
      PROVE  TableStep
  BY <1>1, WorkerWrites
<1>2. ASSUME NEW s \in Scans, ScanNext(s)
      PROVE  TableStep
  BY <1>2 DEF ScanNext, ScanStart, ScanStep, ScanFault, ScanStartUnlocked, SelectStale,
     ResetStale, ResetAckLost, SelectPending, Dispatch, NextPage, ScanDone, ScanRaises,
     ScanCrash, storeVars, TableStep
<1>3. ASSUME NEW r \in Raws, CreateNext(r)
      PROVE  TableStep
  BY <1>3 DEF CreateNext, Post, CreateStep, CreateFault, Insert, InsertFails, InsertAckLost,
     Reinsert, Refresh, RefreshFails, PoolTimeout, EnqueueNew, ApiCrash, storeVars, TableStep
<1>4. ASSUME NEW o \in Operators, ReplayNext(o)
      PROVE  TableStep
  BY <1>4 DEF ReplayNext, ReplayCall, ReplayStep, ForceCheck, Replay, Asked, ForceReset,
     ForceResetFails, ReplayDispatch, TypeOK, ApiTypeOK, TableStep
<1>5. CASE EnvironmentNext
  BY <1>5 DEF EnvironmentNext, LoseQueue, LockExpires, TableStep, tables
<1>6. CASE UNCHANGED vars
  BY <1>6 DEF vars, storeVars, TableStep
<1>7. QED
  BY <1>1, <1>2, <1>3, <1>4, <1>5, <1>6 DEF Next

\* No write removes a Raw row or an ODS row.
LEMMA RowsStay ==
    ASSUME TypeOK, TableStep
    PROVE  /\ \A r \in Raws : status[r] # "absent" => status'[r] # "absent"
           /\ ods \subseteq ods'
           /\ \A r \in Raws : HasOrder(r) => HasOrder(r)'
<1>1. \A r \in Raws : status[r] # "absent" => status'[r] # "absent"
  BY DEF TableStep, tables, TryClaim, Land, InsertRaw, UpdateStatus, SetStatus, MarkedStatus,
     ResetRows, GracePasses, ClaimAges, TypeOK, StoreTypeOK
<1>2. ods \subseteq ods'
  BY DEF TableStep, tables, TryClaim, Land, InsertRaw, UpdateStatus, ResetRows, GracePasses,
     ClaimAges
<1>3. QED
  BY <1>1, <1>2 DEF HasOrder

\* A row enters ods together with its one event; nothing else touches either.
LEMMA VerdictStep ==
    ASSUME TypeOK, RowHasItsVerdict, TableStep
    PROVE  RowHasItsVerdict'
<1>1. CASE UNCHANGED <<ods, verdicts>>
  BY <1>1 DEF RowHasItsVerdict, VerdictOf
<1>2. ASSUME NEW r \in Raws, Land(r)
      PROVE  RowHasItsVerdict'
  <2>1. r \notin ods
    BY <1>2 DEF Land, Conflicts
  <2>2. VerdictOf(r) \in ToStates
    BY DEF VerdictOf, ToStates
  <2>3. \A v \in ToStates : verdicts[r][v] = 0
    BY <2>1 DEF RowHasItsVerdict
  <2>4. QED
    BY <1>2, <2>1, <2>2, <2>3 DEF Land, RowHasItsVerdict, VerdictOf, TypeOK, StoreTypeOK
<1>3. QED
  BY <1>1, <1>2 DEF TableStep, tables, TryClaim, InsertRaw, UpdateStatus, ResetRows,
     GracePasses, ClaimAges

\* A terminal status is written only with its reason in ods, which stays there.
LEMMA TruthStep ==
    ASSUME TypeOK, TerminalIsTruthful, MarkIsJustified, TableStep
    PROVE  TerminalIsTruthful'
<1>1. /\ ods \subseteq ods'
      /\ \A r \in Raws : HasOrder(r) => HasOrder(r)'
  BY RowsStay
<1>2. ASSUME NEW r \in Raws, status'[r] = status[r]
      PROVE  /\ status'[r] = "processed" => r \in ods'
             /\ status'[r] = "duplicate" => HasOrder(r)'
  BY <1>1, <1>2 DEF TerminalIsTruthful
<1>3. ASSUME NEW q \in Raws, Land(q), NEW r \in Raws
      PROVE  /\ status'[r] = "processed" => r \in ods'
             /\ status'[r] = "duplicate" => HasOrder(r)'
  BY <1>2, <1>3 DEF Land, SetStatus, TypeOK, StoreTypeOK
<1>4. ASSUME NEW w \in Workers, Marking(w), UpdateStatus(wraw[w], MarkedStatus(wpc[w])),
             NEW r \in Raws
      PROVE  /\ status'[r] = "processed" => r \in ods'
             /\ status'[r] = "duplicate" => HasOrder(r)'
  <2>1. wraw[w] \in Raws
    BY <1>4 DEF Marking, TypeOK, WorkerTypeOK
  <2>2. CASE r = wraw[w]
    <3>1. status'[r] = MarkedStatus(wpc[w])
      BY <1>4, <2>1, <2>2 DEF UpdateStatus, SetStatus, TypeOK, StoreTypeOK
    <3>2. status'[r] = "duplicate" => HasOrder(r)
      BY <1>4, <2>2, <3>1 DEF Marking, MarkedStatus, MarkIsJustified
    <3>3. QED
      BY <1>1, <3>1, <3>2 DEF MarkedStatus
  <2>3. CASE r # wraw[w]
    BY <1>2, <1>4, <2>1, <2>3 DEF UpdateStatus, SetStatus, TypeOK, StoreTypeOK
  <2>4. QED
    BY <2>2, <2>3
<1>5. CASE \A r \in Raws : status'[r] \in {status[r], "pending", "processing"}
  BY <1>2, <1>5 DEF TerminalIsTruthful
<1>6. \/ \E r \in Raws : Land(r)
      \/ \E w \in Workers : Marking(w) /\ UpdateStatus(wraw[w], MarkedStatus(wpc[w]))
      \/ \A r \in Raws : status'[r] \in {status[r], "pending", "processing"}
  BY DEF TableStep, tables, TryClaim, InsertRaw, UpdateStatus, SetStatus, ResetRows,
     GracePasses, ClaimAges, TypeOK, StoreTypeOK
<1>7. QED
  BY <1>3, <1>4, <1>5, <1>6 DEF TerminalIsTruthful

\* Only the claim writes 'processing', and it writes the time with it.
LEMMA TimedStep ==
    ASSUME TypeOK, ProcessingIsTimed, TableStep
    PROVE  ProcessingIsTimed'
<1>1. ASSUME NEW r \in Raws, TryClaim(r)
      PROVE  ProcessingIsTimed'
  BY <1>1 DEF TryClaim, SetStatus, tables, ProcessingIsTimed, TypeOK, StoreTypeOK
<1>2. CASE \A r \in Raws : /\ status'[r] = "processing" => status[r] = "processing"
                          /\ startedAge'[r] \in {startedAge[r], "old"}
  BY <1>2 DEF ProcessingIsTimed
<1>3. \/ \E r \in Raws : TryClaim(r)
      \/ \A r \in Raws : /\ status'[r] = "processing" => status[r] = "processing"
                         /\ startedAge'[r] \in {startedAge[r], "old"}
  BY DEF TableStep, tables, Land, InsertRaw, UpdateStatus, SetStatus, MarkedStatus, ResetRows,
     GracePasses, ClaimAges, TypeOK, StoreTypeOK
<1>4. QED
  BY <1>1, <1>2, <1>3

\* A worker decides 'duplicate' on seeing the order in ods.
LEMMA MarkStep ==
    ASSUME TypeOK, BuiltIsBuildable, MarkIsJustified, [Next]_vars
    PROVE  MarkIsJustified'
<1>1. \A r \in Raws : HasOrder(r) => HasOrder(r)'
  BY StepWrites, RowsStay
<1>2. ASSUME NEW w \in Workers, WorkerNext(w), NEW v \in Workers, wpc'[v] = "markDuplicate"
      PROVE  HasOrder(wraw[v]) /\ wraw'[v] = wraw[v] /\ wraw[v] \in Raws
  <2>1. CASE v # w \/ UNCHANGED workerVars \/ Retry(w)
    BY <1>2, <2>1 DEF WorkerNext, Take, WorkerStep, WorkerFault, Claim, Build, Check,
       CommitRejected, CommitConflict, Commit, Mark, ClaimFails, ClaimAckLost, BuildFails,
       UnguardedSelectFails, CommitFails, CommitAckLost, MarkFails, MarkAckLost, Crash,
       Redeliver, GoTo, Retry, Return, RetryOrReturn, workerVars, MarkIsJustified, TypeOK,
       WorkerTypeOK
  <2>2. CASE v = w /\ (Check(w) \/ CommitConflict(w))
    BY <1>2, <2>2 DEF Check, CommitConflict, Conflicts, HasOrder, GoTo, TypeOK, WorkerTypeOK
  <2>3. CASE v = w /\ ~Check(w) /\ ~CommitConflict(w) /\ ~UNCHANGED workerVars /\ ~Retry(w)
    BY <1>2, <2>3 DEF WorkerNext, Take, WorkerStep, WorkerFault, Claim, Build,
       CommitRejected, Commit, Mark, ClaimFails, ClaimAckLost, BuildFails,
       UnguardedSelectFails, CommitFails, CommitAckLost, MarkFails, MarkAckLost, Crash,
       Redeliver, GoTo, Return, RetryOrReturn, workerVars, TypeOK, WorkerTypeOK
  <2>4. QED
    BY <2>1, <2>2, <2>3
<1>3. CASE \E w \in Workers : WorkerNext(w)
  BY <1>1, <1>2, <1>3 DEF MarkIsJustified, HasOrder
<1>4. CASE UNCHANGED workerVars
  BY <1>1, <1>4 DEF MarkIsJustified, HasOrder, workerVars, TypeOK, WorkerTypeOK
<1>5. QED
  BY <1>3, <1>4 DEF Next, ScanNext, CreateNext, ReplayNext, EnvironmentNext, ClaimAges, vars

\* The build is the only way to the check, and the check to the commit.
LEMMA BuiltStep ==
    ASSUME TypeOK, BuiltIsBuildable, [Next]_vars
    PROVE  BuiltIsBuildable'
<1>1. ASSUME NEW w \in Workers, WorkerNext(w)
      PROVE  BuiltIsBuildable'
  BY <1>1 DEF WorkerNext, Take, WorkerStep, WorkerFault, Claim, Build, Check,
     CommitRejected, CommitConflict, Commit, Mark, ClaimFails, ClaimAckLost, BuildFails,
     UnguardedSelectFails, CommitFails, CommitAckLost, MarkFails, MarkAckLost, Crash,
     Redeliver, GoTo, Retry, Return, RetryOrReturn, workerVars, BuiltIsBuildable, TypeOK,
     WorkerTypeOK
<1>2. CASE UNCHANGED workerVars
  BY <1>2 DEF BuiltIsBuildable, workerVars
<1>3. QED
  BY <1>1, <1>2 DEF Next, ScanNext, CreateNext, ReplayNext, EnvironmentNext, ClaimAges, vars

\* A process or a message refers to the Raw.
Named(r) ==
    \/ queue[r] > 0
    \/ \E w \in Workers : wraw[w] = r
    \/ apc[r] \in {"reinsert", "refresh", "enqueue", "ok200"}
    \/ \E s \in Scans : r \in stale[s] \cup page[s]
    \/ \E o \in Operators : opc[o] # "idle" /\ oraw[o] = r

\* The two invariants about durable rows are one statement about named Raws.
LEMMA DurableIsNamed ==
    ASSUME TypeOK
    PROVE  OnlyDurableRawsAreNamed /\ LocalsAreDurable
           <=> \A r \in Raws : Named(r) => status[r] # "absent"
BY DEF OnlyDurableRawsAreNamed, LocalsAreDurable, Named, TypeOK, ApiTypeOK

\* Publishing names no other Raw.
LEMMA PublishNames ==
    ASSUME TypeOK, NEW q \in Raws, Publish(q), NEW r \in Raws, queue'[r] > 0
    PROVE  queue[r] > 0 \/ r = q
BY DEF Publish, TypeOK, StoreTypeOK

\* A worker names only what a message named.
LEMMA WorkerNames ==
    ASSUME TypeOK, NEW w \in Workers, WorkerNext(w), NEW r \in Raws, Named(r)'
    PROVE  Named(r)
<1>1. wpc[w] # "idle" => wraw[w] \in Raws
  BY DEF TypeOK, WorkerTypeOK
<1>2. ASSUME queue'[r] > 0
      PROVE  Named(r)
  <2>1. CASE \E q \in Raws : Take(w, q)
    BY <1>2, <2>1 DEF Take, Named, TypeOK, StoreTypeOK
  <2>2. CASE Crash(w) \/ Redeliver(w)
    BY <1>1, <1>2, <2>2, PublishNames DEF Crash, Redeliver, Named
  <2>3. CASE UNCHANGED queue
    BY <1>2, <2>3 DEF Named
  <2>4. QED
    BY <2>1, <2>2, <2>3 DEF WorkerNext, WorkerStep, WorkerFault, Claim, Build, Check,
       CommitRejected, CommitConflict, Commit, Mark, ClaimFails, ClaimAckLost, BuildFails,
       UnguardedSelectFails, CommitFails, CommitAckLost, MarkFails, MarkAckLost, storeVars
<1>3. ASSUME NEW v \in Workers, wraw'[v] = r
      PROVE  Named(r)
  <2>1. CASE \E q \in Raws : Take(w, q)
    <3>1. PICK q \in Raws : Take(w, q)
      BY <2>1
    <3>2. CASE v = w
      BY <1>3, <3>1, <3>2 DEF Take, Named, TypeOK, WorkerTypeOK
    <3>3. CASE v # w
      BY <1>3, <3>1, <3>3 DEF Take, Named, TypeOK, WorkerTypeOK
    <3>4. QED
      BY <3>2, <3>3
  <2>2. CASE Return(w)
    <3>1. NoRaw \notin Raws
      BY StoreAssumption DEF StoreAssumption, NoRaw
    <3>2. QED
      BY <1>3, <2>2, <3>1 DEF Return, Named, TypeOK, WorkerTypeOK
  <2>3. CASE UNCHANGED wraw
    BY <1>3, <2>3 DEF Named
  <2>4. QED
    BY <2>1, <2>2, <2>3 DEF WorkerNext, WorkerStep, WorkerFault, Claim, Build, Check,
       CommitRejected, CommitConflict, Commit, Mark, ClaimFails, ClaimAckLost, BuildFails,
       UnguardedSelectFails, CommitFails, CommitAckLost, MarkFails, MarkAckLost, Crash,
       Redeliver, GoTo, Retry, RetryOrReturn, workerVars
<1>4. UNCHANGED <<scanVars, apiVars>>
  BY DEF WorkerNext
<1>5. QED
  BY <1>2, <1>3, <1>4 DEF Named, scanVars, apiVars

\* A scan names the rows it selects, and publishes only those.
LEMMA ScanNames ==
    ASSUME TypeOK, NEW s \in Scans, ScanNext(s), NEW r \in Raws, Named(r)'
    PROVE  Named(r) \/ status[r] # "absent"
<1>1. ASSUME queue'[r] > 0
      PROVE  Named(r)
  <2>1. CASE Dispatch(s)
    <3>1. PICK q \in page[s] : Publish(q)
      BY <2>1 DEF Dispatch
    <3>2. q \in Raws
      BY DEF TypeOK, ScanTypeOK
    <3>3. queue[r] > 0 \/ r = q
      BY <1>1, <3>1, <3>2, PublishNames
    <3>4. QED
      BY <3>3 DEF Named
  <2>2. CASE UNCHANGED queue
    BY <1>1, <2>2 DEF Named
  <2>3. QED
    BY <2>1, <2>2 DEF ScanNext, ScanStart, ScanStep, ScanFault, ScanStartUnlocked,
       SelectStale, ResetStale, ResetRows, ResetAckLost, SelectPending, NextPage, ScanDone,
       ScanRaises, ScanCrash, storeVars
<1>2. ASSUME NEW t \in Scans, r \in stale'[t]
      PROVE  r \in stale[t] \/ status[r] # "absent"
  <2>1. CASE SelectStale(s)
    BY <1>2, <2>1 DEF SelectStale, FirstByID, StaleRows, TypeOK, ScanTypeOK
  <2>2. CASE ~SelectStale(s)
    BY <1>2, <2>2 DEF ScanNext, ScanStart, ScanStep, ScanFault, ScanStartUnlocked,
       ResetStale, ResetAckLost, SelectPending, Dispatch, NextPage, ScanDone,
       ScanRaises, ScanCrash, Finish, Forget, TypeOK, ScanTypeOK
  <2>3. QED
    BY <2>1, <2>2
<1>3. ASSUME NEW t \in Scans, r \in page'[t]
      PROVE  r \in page[t] \/ status[r] # "absent"
  <2>1. CASE SelectPending(s)
    BY <1>3, <2>1 DEF SelectPending, FirstByID, PendingRows, TypeOK, ScanTypeOK
  <2>2. CASE ~SelectPending(s)
    BY <1>3, <2>2 DEF ScanNext, ScanStart, ScanStep, ScanFault, ScanStartUnlocked,
       ResetStale, ResetAckLost, SelectStale, Dispatch, NextPage, ScanDone,
       ScanRaises, ScanCrash, Finish, Forget, TypeOK, ScanTypeOK
  <2>3. QED
    BY <2>1, <2>2
<1>4. UNCHANGED <<workerVars, apiVars>>
  BY DEF ScanNext
<1>5. QED
  BY <1>1, <1>2, <1>3, <1>4 DEF Named, workerVars, apiVars

\* A handler goes past its insert only when the row is in.
LEMMA CreateNames ==
    ASSUME TypeOK, NEW q \in Raws, CreateNext(q), NEW r \in Raws, Named(r)'
    PROVE  Named(r) \/ status'[r] # "absent"
<1> USE DEF CreateStep, CreateFault, Post, Insert, InsertFails, InsertAckLost, Reinsert,
        Refresh, RefreshFails, PoolTimeout, EnqueueNew, ApiCrash
<1>1. ASSUME queue'[r] > 0
      PROVE  Named(r)
  <2>1. UNCHANGED queue \/ (apc[q] = "enqueue" /\ Publish(q))
    BY DEF CreateNext, Enqueue, storeVars
  <2>2. QED
    BY <1>1, <2>1, PublishNames DEF Named
<1>2. ASSUME apc'[r] \in {"reinsert", "refresh", "enqueue", "ok200"}
      PROVE  Named(r) \/ status'[r] # "absent"
  <2>1. CASE Insert(q) \/ InsertAckLost(q)
    BY <1>2, <2>1 DEF InsertRaw, SetStatus, RetryOr500, Named, TypeOK, StoreTypeOK, ApiTypeOK
  <2>2. CASE ~Insert(q) /\ ~InsertAckLost(q)
    BY <1>2, <2>2 DEF CreateNext, Answer, RetryOr500, Named, TypeOK, ApiTypeOK
  <2>3. QED
    BY <2>1, <2>2
<1>3. UNCHANGED <<workerVars, scanVars, replayVars>>
  BY DEF CreateNext, Answer, RetryOr500
<1>4. QED
  BY <1>1, <1>2, <1>3 DEF Named, workerVars, scanVars, replayVars

\* A replay is asked for a row that exists, and publishes only that one.
LEMMA ReplayNames ==
    ASSUME TypeOK, NEW o \in Operators, ReplayNext(o), NEW r \in Raws, Named(r)'
    PROVE  Named(r) \/ status[r] # "absent"
<1> USE DEF ReplayCall, ReplayStep, ForceCheck, Replay, Asked, ForceReset, ForceResetFails,
        ReplayDispatch, EndReplay
<1>1. ASSUME queue'[r] > 0
      PROVE  Named(r)
  <2>1. UNCHANGED queue \/ (opc[o] # "idle" /\ oraw[o] \in Raws /\ Publish(oraw[o]))
    BY DEF ReplayNext, Enqueue, TypeOK, ApiTypeOK
  <2>2. QED
    BY <1>1, <2>1, PublishNames DEF Named
<1>2. ASSUME NEW p \in Operators, opc'[p] # "idle", oraw'[p] = r
      PROVE  Named(r) \/ status[r] # "absent"
  BY <1>2 DEF ReplayNext, Named, TypeOK, ApiTypeOK
<1>3. UNCHANGED <<workerVars, scanVars, createVars>>
  BY DEF ReplayNext
<1>4. QED
  BY <1>1, <1>2, <1>3 DEF Named, workerVars, scanVars, createVars

\* Clocks and Redis name nothing.
LEMMA EnvironmentNames ==
    ASSUME TypeOK, EnvironmentNext, NEW r \in Raws, Named(r)'
    PROVE  Named(r)
BY DEF EnvironmentNext, LoseQueue, GracePasses, ClaimAges, LockExpires, Named, workerVars,
   scanVars, apiVars

\* Whoever names a Raw keeps naming a durable row.
LEMMA DurableStep ==
    ASSUME IInv, [Next]_vars
    PROVE  OnlyDurableRawsAreNamed' /\ LocalsAreDurable'
<1>1. TypeOK /\ TypeOK' /\ TableStep
  BY NextType, StepWrites DEF IInv
<1>2. \A r \in Raws : Named(r) => status[r] # "absent"
  BY <1>1, DurableIsNamed DEF IInv
<1>3. \A r \in Raws : status[r] # "absent" => status'[r] # "absent"
  BY <1>1, RowsStay
<1>4. ASSUME NEW r \in Raws, Named(r)'
      PROVE  Named(r) \/ status[r] # "absent" \/ status'[r] # "absent"
  <2>1. CASE UNCHANGED vars
    BY <1>4, <2>1 DEF Named, vars, storeVars, workerVars, scanVars, apiVars
  <2>2. CASE Next
    BY <1>1, <1>4, <2>2, WorkerNames, ScanNames, CreateNames, ReplayNames, EnvironmentNames
       DEF Next
  <2>3. QED
    BY <2>1, <2>2
<1>5. \A r \in Raws : Named(r)' => status'[r] # "absent"
  BY <1>2, <1>3, <1>4
<1>6. (TypeOK => (OnlyDurableRawsAreNamed /\ LocalsAreDurable
                   <=> \A r \in Raws : Named(r) => status[r] # "absent"))'
  BY DurableIsNamed, PTL
<1>7. QED
  BY <1>1, <1>5, <1>6

-----------------------------------------------------------------------------
(* The theorems.                                                           *)

\* The invariant holds of the empty database.
LEMMA InitIInv == Init => IInv
<1> SUFFICES ASSUME Init PROVE IInv
  OBVIOUS
<1>1. RowHasItsVerdict /\ TerminalIsTruthful /\ ProcessingIsTimed
  BY DEF Init, StoreInit, RowHasItsVerdict, TerminalIsTruthful, ProcessingIsTimed
<1>2. OnlyDurableRawsAreNamed /\ LocalsAreDurable
  BY StoreAssumption DEF Init, StoreInit, WorkerInit, ScanInit, ApiInit, NoRaw,
     OnlyDurableRawsAreNamed, LocalsAreDurable, StoreAssumption
<1>3. MarkIsJustified /\ BuiltIsBuildable
  BY DEF Init, WorkerInit, MarkIsJustified, BuiltIsBuildable
<1>4. QED
  BY <1>1, <1>2, <1>3, InitType DEF IInv

\* Every step preserves it.
LEMMA NextIInv == IInv /\ [Next]_vars => IInv'
<1> SUFFICES ASSUME IInv, [Next]_vars PROVE IInv'
  OBVIOUS
<1>1. TableStep
  BY StepWrites DEF IInv
<1>2. TypeOK'
  BY NextType DEF IInv
<1>3. RowHasItsVerdict'
  BY <1>1, VerdictStep DEF IInv
<1>4. TerminalIsTruthful'
  BY <1>1, TruthStep DEF IInv
<1>5. ProcessingIsTimed'
  BY <1>1, TimedStep DEF IInv
<1>6. OnlyDurableRawsAreNamed' /\ LocalsAreDurable'
  BY DurableStep
<1>7. MarkIsJustified' /\ BuiltIsBuildable'
  BY MarkStep, BuiltStep DEF IInv
<1>8. QED
  BY <1>2, <1>3, <1>4, <1>5, <1>6, <1>7 DEF IInv

\* IInv is an invariant of the ingestion path under every fault.
THEOREM InductiveInvariant == Spec => []IInv
BY InitIInv, NextIInv, PTL DEF Spec

\* An ODS row and its single initial quality event exist together: no retry,
\* redelivery, crash or lost acknowledgement writes one without the other.
THEOREM VerdictTheorem == Spec => []RowHasItsVerdict
<1>1. IInv => RowHasItsVerdict
  BY DEF IInv
<1>2. QED
  BY <1>1, InductiveInvariant, PTL

\* A terminal status of a Raw row always has its reason in ods.
THEOREM TruthTheorem == Spec => []TerminalIsTruthful
<1>1. IInv => TerminalIsTruthful
  BY DEF IInv
<1>2. QED
  BY <1>1, InductiveInvariant, PTL

\* The stale scan can reach every processing row.
THEOREM TimedTheorem == Spec => []ProcessingIsTimed
<1>1. IInv => ProcessingIsTimed
  BY DEF IInv
<1>2. QED
  BY <1>1, InductiveInvariant, PTL

\* Whatever names a Raw (message, worker, 200 answer) names a committed row.
THEOREM DurableTheorem == Spec => []OnlyDurableRawsAreNamed
<1>1. IInv => OnlyDurableRawsAreNamed
  BY DEF IInv
<1>2. QED
  BY <1>1, InductiveInvariant, PTL

\* A landing is the ledger's Record; every other write leaves the ledger alone.
LEMMA LedgerStep == TypeOK /\ TableStep => [Ledger!Next]_(Ledger!ledger)
<1> SUFFICES ASSUME TypeOK, TableStep PROVE [Ledger!Next]_(Ledger!ledger)
  OBVIOUS
<1>1. CASE UNCHANGED <<ods, verdicts>>
  BY <1>1 DEF Ledger!ledger
<1>2. ASSUME NEW r \in Raws, PayloadOf[r] # "malformed", Land(r)
      PROVE  Ledger!Next
  <2>1. PayloadOf[r] \in {"clean", "dirty"}
    BY <1>2, StoreAssumption DEF Land, StoreAssumption, Payloads
  <2>2. \A s \in ods : OrderOf[s] # OrderOf[r]
    BY <1>2 DEF Land, Conflicts
  <2>3. Ledger!Record(r)
    BY <1>2, <2>1, <2>2 DEF Land, VerdictOf, Ledger!Record, Ledger!Verdict
  <2>4. QED
    BY <2>3 DEF Ledger!Next
<1>3. QED
  BY <1>1, <1>2 DEF TableStep, tables, TryClaim, InsertRaw, UpdateStatus, ResetRows,
     GracePasses, ClaimAges

\* First write wins: the two business tables implement OdsLedger, so that an
\* order has at most one ODS row, of one Raw, never replaced or removed.
THEOREM LedgerRefinement == Spec => LedgerSpec
<1>1. Init => Ledger!Init
  BY DEF Init, StoreInit, Ledger!Init, ToStates
<1>2. IInv /\ [Next]_vars => [Ledger!Next]_(Ledger!ledger)
  BY StepWrites, LedgerStep DEF IInv
<1>3. QED
  BY <1>1, <1>2, InductiveInvariant, PTL DEF Spec, LedgerSpec, Ledger!Spec

\* No run ever deletes the lock of another one: a running holder loses the lock
\* to its TTL only.
THEOREM LockTheorem == Spec => LockIsLostToItsTTL
<1>1. ASSUME TypeOK, [Next]_vars, NEW s \in Scans,
             lock = s, held[s], spc'[s] # "idle", lock' # s
      PROVE  injected'["lockExpiry"] > injected["lockExpiry"]
  <2>1. CASE LockExpires
    BY <1>1, <2>1, FaultNames DEF LockExpires, Inject, OneMore, TypeOK, StoreTypeOK
  <2>2. ASSUME NEW t \in Scans, ScanNext(t)
        PROVE  FALSE
    <3>1. ~ScanStart(t)
      BY <1>1, NoScanAssumption DEF ScanStart, NoScanAssumption
    <3>2. CASE Finish(t)
      BY <1>1, <3>2 DEF Finish, Forget, ScanGoTo, TypeOK, ScanTypeOK
    <3>3. CASE UNCHANGED lock
      BY <1>1, <3>3
    <3>4. QED
      BY <2>2, <3>1, <3>2, <3>3 DEF ScanNext, ScanStep, ScanFault, ScanStartUnlocked,
         SelectStale, ResetStale, ResetAckLost, SelectPending, Dispatch, NextPage, ScanDone,
         ScanRaises, ScanCrash
  <2>3. LockExpires \/ (\E t \in Scans : ScanNext(t)) \/ UNCHANGED lock
    BY <1>1 DEF Next, WorkerNext, CreateNext, ReplayNext, EnvironmentNext, scanVars, vars
  <2>4. QED
    BY <1>1, <2>1, <2>2, <2>3
<1>2. TypeOK /\ [Next]_vars
      => [\A s \in Scans :
            lock = s /\ held[s] /\ spc'[s] # "idle" /\ lock' # s
            => injected'["lockExpiry"] > injected["lockExpiry"]]_vars
  BY <1>1
<1>3. QED
  BY <1>2, TypeCorrect, PTL DEF Spec, LockIsLostToItsTTL
=============================================================================
