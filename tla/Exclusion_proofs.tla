-------------------------- MODULE Exclusion_proofs --------------------------
(***************************************************************************)
(* Proofs of what nothing in the code locks: the CAS with the stale        *)
(* threshold, the scan lock and the guard of a forced replay exclude one   *)
(* another, for every set of Raws, workers, scans and operators and every  *)
(* crash, retry and redelivery, as long as none of the events in           *)
(* Disturbing has occurred and one replay at most was asked for.           *)
(***************************************************************************)
EXTENDS Ingestion_proofs

\* A scan that runs has the lock.
ScansExclude == \A s \in Scans : spc[s] # "idle" => held[s] /\ lock = s

\* A row under a claim says so, and its claim is young.
ClaimIsFresh ==
    \A w \in Workers : wpc[w] \in Claimed =>
        status[wraw[w]] = "processing" /\ startedAge[wraw[w]] = "fresh"

\* A row is under one claim.
ClaimsExclude ==
    \A v, w \in Workers : wpc[v] \in Claimed /\ wpc[w] \in Claimed /\ wraw[v] = wraw[w] => v = w

\* The rows a scan is about to reset are still those of dead workers.
StaleIsAbandoned ==
    \A s \in Scans :
        /\ stale[s] # {} => spc[s] # "idle"
        /\ \A r \in stale[s] : status[r] = "processing" /\ startedAge[r] = "old"

\* One operator at a time, who still sees what the guard has seen.
OneReplay ==
    /\ \A o \in Operators : opc[o] # "idle" => injected["replay"] # 0
    /\ \A o, p \in Operators : opc[o] # "idle" /\ opc[p] # "idle" => o = p

\* What the guard of force has seen is still so when the reset is written.
ReplayIsOfFailure ==
    \A o \in Operators : opc[o] = "checked" => status[oraw[o]] \in {"error", "duplicate"}

\* A Raw is inserted once.
InsertedOnce == \A r \in Raws : apc[r] \in {"idle", "insert"} => status[r] = "absent"

\* The status of a landed Raw is never taken back.
LandedStays == \A r \in ods : status[r] = "processed"

\* What a lock would give, piece by piece: no piece is inductive without the others.
Exclusive ==
    /\ ScansExclude /\ ClaimIsFresh /\ ClaimsExclude /\ StaleIsAbandoned
    /\ OneReplay /\ ReplayIsOfFailure /\ InsertedOnce /\ LandedStays

-----------------------------------------------------------------------------
(* What has not been disturbed has not been disturbed before. *)

\* A step injects one fault at most.
LEMMA OneFault ==
    ASSUME [Next]_vars
    PROVE  UNCHANGED injected \/ \E f \in Faults : Inject(f)
<1>1. \A w \in Workers : WorkerNext(w) => UNCHANGED injected \/ \E f \in Faults : Inject(f)
  BY FaultNames DEF WorkerNext, Take, WorkerStep, WorkerFault, Claim, Build, Check,
     CommitRejected, CommitConflict, Commit, Mark, ClaimFails, ClaimAckLost, BuildFails,
     UnguardedSelectFails, CommitFails, CommitAckLost, MarkFails, MarkAckLost, Crash,
     Redeliver, NoDbChange, storeVars
<1>2. \A s \in Scans : ScanNext(s) => UNCHANGED injected \/ \E f \in Faults : Inject(f)
  BY FaultNames DEF ScanNext, ScanStart, ScanStep, ScanFault, SelectStale, ResetStale,
     SelectPending, Dispatch, NextPage, ScanDone, ScanStartUnlocked, ResetAckLost, ScanRaises,
     ScanCrash, storeVars
<1>3. \A r \in Raws : CreateNext(r) => UNCHANGED injected \/ \E f \in Faults : Inject(f)
  BY FaultNames DEF CreateNext, Post, CreateStep, CreateFault, Insert, Reinsert, Refresh,
     EnqueueNew, InsertFails, InsertAckLost, RefreshFails, PoolTimeout, ApiCrash, storeVars
<1>4. \A o \in Operators : ReplayNext(o) => UNCHANGED injected \/ \E f \in Faults : Inject(f)
  BY FaultNames DEF ReplayNext, ReplayCall, ForceCheck, Replay, Asked, ReplayStep, ForceReset,
     ReplayDispatch, ForceResetFails
<1>5. EnvironmentNext => UNCHANGED injected \/ \E f \in Faults : Inject(f)
  BY FaultNames DEF EnvironmentNext, LoseQueue, GracePasses, ClaimAges, LockExpires
<1>6. QED
  BY <1>1, <1>2, <1>3, <1>4, <1>5 DEF Next, vars, storeVars

\* An undisturbed state comes from one, by a step that disturbs nothing.
LEMMA StaysUndisturbed ==
    ASSUME TypeOK, [Next]_vars, Undisturbed'
    PROVE  /\ Undisturbed
           /\ \A f \in Disturbing : ~Inject(f)
           /\ Inject("replay") => injected["replay"] = 0
           /\ injected["replay"] # 0 => injected'["replay"] # 0
<1>0. injected \in [Faults -> Nat] /\ Disturbing \subseteq Faults /\ "replay" \in Faults
  BY FaultNames DEF TypeOK, StoreTypeOK, Disturbing
<1>1. \A f \in Disturbing : injected'[f] = 0
  BY DEF Undisturbed
<1>2. injected'["replay"] <= 1
  BY DEF Undisturbed
<1>3. ASSUME NEW f \in Faults, Inject(f)
      PROVE  injected' = [injected EXCEPT ![f] = @ + 1]
  BY <1>3 DEF Inject, OneMore
<1>4. \A f \in Faults : injected'[f] >= injected[f] /\ injected'[f] \in Nat
  BY <1>0, <1>3, OneFault
<1>5. \A f \in Disturbing : injected[f] = 0
  <2>1. SUFFICES ASSUME NEW f \in Disturbing
                 PROVE  injected[f] = 0
    OBVIOUS
  <2>2. injected[f] \in Nat /\ injected'[f] = 0 /\ injected'[f] >= injected[f]
    BY <1>0, <1>1, <1>4
  <2>3. QED
    BY <2>2
<1>6. \A f \in Disturbing : ~Inject(f)
  <2>1. SUFFICES ASSUME NEW f \in Disturbing, Inject(f)
                 PROVE  FALSE
    OBVIOUS
  <2>2. injected'[f] = injected[f] + 1 /\ injected'[f] = 0 /\ injected[f] \in Nat
    BY <1>0, <1>1, <1>3, <2>1
  <2>3. QED
    BY <2>2
<1>7. Inject("replay") => injected["replay"] = 0
  <2>1. SUFFICES ASSUME Inject("replay")
                 PROVE  injected["replay"] = 0
    OBVIOUS
  <2>2. injected'["replay"] = injected["replay"] + 1 /\ injected["replay"] \in Nat
    BY <1>0, <1>3, <2>1
  <2>3. QED
    BY <1>2, <2>2
<1>8. injected["replay"] \in Nat /\ injected'["replay"] \in Nat
      /\ injected'["replay"] >= injected["replay"]
  BY <1>0, <1>4
<1>9. injected["replay"] <= 1 /\ (injected["replay"] # 0 => injected'["replay"] # 0)
  BY <1>2, <1>8
<1>10. QED
  BY <1>5, <1>6, <1>7, <1>9 DEF Undisturbed

-----------------------------------------------------------------------------
(* What an undisturbed step does to raw.status, and who does it. *)

\* A worker wins the CAS.
Claims(w) ==
    /\ wpc[w] = "claim" /\ wraw[w] \in Raws /\ status[wraw[w]] = "pending"
    /\ TryClaim(wraw[w]) /\ GoTo(w, "build")
    /\ UNCHANGED <<scanVars, apiVars>>

\* A worker ends what it has claimed.
Settles(w, new) ==
    /\ wpc[w] \in Claimed /\ wraw[w] \in Raws
    /\ new \in {"processed", "error", "duplicate"}
    /\ SetStatus(wraw[w], new)
    /\ ods' = IF new = "processed" THEN ods \cup {wraw[w]} ELSE ods
    /\ Return(w)
    /\ UNCHANGED <<startedAge, scanVars, apiVars>>

\* A scan resets the rows it has found.
Resets(s) ==
    /\ spc[s] = "reset" /\ spc' = [spc EXCEPT ![s] = "pending"]
    /\ ResetRows(s)
    /\ stale' = [stale EXCEPT ![s] = {}]
    /\ UNCHANGED <<workerVars, apiVars>>

\* An operator resets the row the guard has seen.
Forces(o) ==
    /\ opc[o] = "checked" /\ opc' = [opc EXCEPT ![o] = "dispatch"]
    /\ UpdateStatus(oraw[o], "pending")
    /\ UNCHANGED <<oraw, createVars, workerVars, scanVars>>

\* A handler inserts its Raw.
Inserts(r) ==
    /\ apc[r] = "insert" /\ apc' = [apc EXCEPT ![r] = "refresh"]
    /\ InsertRaw(r)
    /\ UNCHANGED <<replayVars, workerVars, scanVars>>

\* A claim that nobody works on ages.
Abandons(r) ==
    /\ status[r] = "processing" /\ ~Busy(r)
    /\ startedAge' = [startedAge EXCEPT ![r] = "old"]
    /\ UNCHANGED <<status, ods, workerVars, scanVars, apiVars>>

\* Every other step leaves the rows alone; its processes move, and take nothing
\* for granted that is not so.
Quiet ==
    /\ UNCHANGED <<status, startedAge, ods>>
    /\ \A w \in Workers : wpc'[w] \in Claimed => wpc[w] \in Claimed /\ wraw'[w] = wraw[w]
    /\ \A s \in Scans : /\ stale'[s] \subseteq stale[s] \cup StaleRows
                        /\ stale'[s] # {} => spc'[s] # "idle"
    /\ \A o \in Operators : opc'[o] = "checked" =>
          \/ opc[o] = "checked" /\ oraw'[o] = oraw[o]
          \/ status[oraw'[o]] \in {"error", "duplicate"}
    /\ \A r \in Raws : apc'[r] \in {"idle", "insert"} => apc[r] \in {"idle", "insert"}

StatusStep ==
    \/ Quiet
    \/ \E w \in Workers : Claims(w) \/ \E new \in Statuses : Settles(w, new)
    \/ \E s \in Scans : Resets(s)
    \/ \E o \in Operators : Forces(o)
    \/ \E r \in Raws : Inserts(r) \/ Abandons(r)

\* Steps of workers.
LEMMA WorkerStatus ==
    ASSUME TypeOK, StaleIsAbandoned, ~Inject("lostAck"), NEW w \in Workers, WorkerNext(w)
    PROVE  StatusStep
<1> USE DEF GoTo, Return, Retry, RetryOrReturn
<1>0. /\ wpc \in [Workers -> WorkerPcs] /\ wraw \in [Workers -> Raws \cup {NoRaw}]
      /\ wpc[w] # "idle" => wraw[w] \in Raws
      /\ UNCHANGED <<scanVars, apiVars>>
  BY DEF TypeOK, WorkerTypeOK, WorkerNext
<1>1. ASSUME UNCHANGED <<status, startedAge, ods>>,
             \A v \in Workers : wpc'[v] \in Claimed => wpc[v] \in Claimed /\ wraw'[v] = wraw[v]
      PROVE  StatusStep
  <2>1. UNCHANGED <<stale, spc, opc, oraw, apc>>
    BY <1>0 DEF scanVars, apiVars
  <2>2. QED
    BY <1>1, <2>1 DEF Quiet, StatusStep, StaleIsAbandoned
<1>2. CASE \E r \in Raws : Take(w, r)
  BY <1>0, <1>1, <1>2 DEF Take, tables, Claimed
<1>3. CASE Claim(w)
  <2>1. CASE status[wraw[w]] = "pending"
    BY <1>0, <1>3, <2>1 DEF Claim, Claims, StatusStep
  <2>2. CASE status[wraw[w]] # "pending"
    BY <1>0, <1>1, <1>3, <2>2 DEF Claim, TryClaim, tables, Claimed
  <2>3. QED
    BY <2>1, <2>2
<1>4. CASE \/ ClaimFails(w) \/ BuildFails(w) \/ UnguardedSelectFails(w) \/ CommitFails(w)
           \/ MarkFails(w) \/ Crash(w) \/ Redeliver(w)
  BY <1>0, <1>1, <1>4 DEF ClaimFails, BuildFails, UnguardedSelectFails, CommitFails, MarkFails,
     Crash, Redeliver, NoDbChange, tables, Claimed, workerVars, Marking
<1>5. CASE Build(w) \/ Check(w) \/ CommitRejected(w) \/ CommitConflict(w)
  BY <1>0, <1>1, <1>5 DEF Build, Check, CommitRejected, CommitConflict, storeVars, tables, Claimed
<1>6. CASE Commit(w)
  <2>1. Settles(w, "processed") /\ "processed" \in Statuses
    BY <1>0, <1>6 DEF Commit, Land, Settles, Claimed, Statuses
  <2>2. QED
    BY <2>1 DEF StatusStep
<1>7. CASE Mark(w)
  <2>1. Settles(w, MarkedStatus(wpc[w])) /\ MarkedStatus(wpc[w]) \in Statuses
    BY <1>0, <1>7 DEF Mark, Marking, UpdateStatus, Settles, Claimed, Statuses, MarkedStatus
  <2>2. QED
    BY <2>1 DEF StatusStep
<1>8. ~(ClaimAckLost(w) \/ CommitAckLost(w) \/ MarkAckLost(w))
  BY DEF ClaimAckLost, CommitAckLost, MarkAckLost
<1>9. QED
  BY <1>2, <1>3, <1>4, <1>5, <1>6, <1>7, <1>8 DEF WorkerNext, WorkerStep, WorkerFault

\* Steps of scans.
LEMMA ScanStatus ==
    ASSUME TypeOK, StaleIsAbandoned, ~Inject("lostAck"), NEW s \in Scans, ScanNext(s)
    PROVE  StatusStep
<1> USE DEF ScanGoTo, Finish, Forget
<1>0. /\ spc \in [Scans -> ScanPcs] /\ stale \in [Scans -> SUBSET Raws]
      /\ UNCHANGED <<workerVars, apiVars>>
  BY DEF TypeOK, ScanTypeOK, ScanNext
<1>1. ASSUME UNCHANGED tables,
             \A t \in Scans : /\ stale'[t] \subseteq stale[t] \cup StaleRows
                              /\ stale'[t] # {} => spc'[t] # "idle"
      PROVE  StatusStep
  <2>1. UNCHANGED <<wpc, wraw, opc, oraw, apc, status, startedAge, ods>>
    BY <1>0, <1>1 DEF workerVars, apiVars, tables
  <2>2. QED
    BY <1>1, <2>1 DEF Quiet, StatusStep
<1>2. CASE ScanStart(s) \/ ScanStartUnlocked(s)
  BY <1>0, <1>1, <1>2 DEF ScanStart, ScanStartUnlocked, storeVars, StaleIsAbandoned
<1>3. CASE SelectStale(s)
  <2>1. FirstByID(StaleRows, BatchSize) \subseteq StaleRows
    BY DEF FirstByID
  <2>2. stale' = [stale EXCEPT ![s] = FirstByID(StaleRows, BatchSize)]
    BY <1>3 DEF SelectStale
  <2>3. spc' = [spc EXCEPT ![s] = IF StaleRows = {} THEN "pending" ELSE "reset"]
    BY <1>3 DEF SelectStale
  <2>4. UNCHANGED tables
    BY <1>3 DEF SelectStale, storeVars
  <2>5. spc'[s] # "idle"
    BY <1>0, <2>3
  <2>6. \A t \in Scans : t # s => stale'[t] = stale[t] /\ spc'[t] = spc[t]
    BY <1>0, <2>2, <2>3
  <2>7. stale'[s] \subseteq StaleRows
    BY <1>0, <2>1, <2>2
  <2>8. QED
    BY <1>1, <2>4, <2>5, <2>6, <2>7 DEF StaleIsAbandoned
<1>4. CASE ResetStale(s)
  <2>1. Resets(s)
    BY <1>0, <1>4 DEF ResetStale, Resets
  <2>2. QED
    BY <2>1 DEF StatusStep
<1>5. CASE SelectPending(s)
  <2>1. UNCHANGED <<stale, tables>> /\ spc' = [spc EXCEPT ![s] = "dispatch"]
    BY <1>5 DEF SelectPending, storeVars
  <2>2. QED
    BY <1>0, <1>1, <2>1 DEF StaleIsAbandoned
<1>6. CASE Dispatch(s) \/ NextPage(s)
  BY <1>0, <1>1, <1>6 DEF Dispatch, NextPage, storeVars, StaleIsAbandoned
<1>7. CASE ScanDone(s) \/ ScanRaises(s) \/ ScanCrash(s)
  BY <1>0, <1>1, <1>7 DEF ScanDone, ScanRaises, ScanCrash, storeVars, StaleIsAbandoned
<1>8. ~ResetAckLost(s)
  BY DEF ResetAckLost
<1>9. QED
  BY <1>2, <1>3, <1>4, <1>5, <1>6, <1>7, <1>8 DEF ScanNext, ScanStep, ScanFault

\* Steps of create_order handlers.
LEMMA CreateStatus ==
    ASSUME TypeOK, StaleIsAbandoned, ~Inject("lostAck"), NEW r \in Raws, CreateNext(r)
    PROVE  StatusStep
<1>0. /\ apc \in [Raws -> ApiPcs]
      /\ UNCHANGED <<wpc, wraw, spc, stale, workerVars, scanVars>>
  BY DEF TypeOK, ApiTypeOK, CreateNext, workerVars, scanVars
<1>1. CASE Insert(r)
  BY <1>0, <1>1 DEF Insert, Inserts, StatusStep, replayVars
<1>2. ~InsertAckLost(r)
  BY DEF InsertAckLost
<1>3. CASE \/ Post(r) \/ Reinsert(r) \/ Refresh(r) \/ EnqueueNew(r)
           \/ InsertFails(r) \/ RefreshFails(r) \/ PoolTimeout(r) \/ ApiCrash(r)
  <2>1. UNCHANGED <<status, startedAge, ods, opc, oraw>>
    BY <1>3 DEF Post, Reinsert, Refresh, EnqueueNew, InsertFails, RefreshFails, PoolTimeout,
       ApiCrash, Answer, RetryOr500, storeVars, tables, replayVars
  <2>2. \A q \in Raws : apc'[q] \in {"idle", "insert"} => apc[q] \in {"idle", "insert"}
    BY <1>0, <1>3 DEF Post, Reinsert, Refresh, EnqueueNew, InsertFails, RefreshFails,
       PoolTimeout, ApiCrash, Answer, RetryOr500
  <2>3. QED
    BY <1>0, <2>1, <2>2 DEF Quiet, StatusStep, StaleIsAbandoned
<1>4. QED
  BY <1>1, <1>2, <1>3 DEF CreateNext, CreateStep, CreateFault

\* Steps of process_raw handlers.
LEMMA ReplayStatus ==
    ASSUME TypeOK, StaleIsAbandoned, ~Inject("lostAck"), NEW o \in Operators, ReplayNext(o)
    PROVE  StatusStep
<1>0. /\ opc \in [Operators -> {"idle", "checked", "dispatch"}]
      /\ oraw \in [Operators -> Raws \cup {Unasked}]
      /\ UNCHANGED <<wpc, wraw, spc, stale, workerVars, scanVars>>
  BY DEF TypeOK, ApiTypeOK, ReplayNext, workerVars, scanVars
<1>1. CASE ForceReset(o)
  BY <1>0, <1>1 DEF ForceReset, Forces, StatusStep
<1>2. CASE ReplayCall(o) \/ ReplayDispatch(o) \/ ForceResetFails(o)
  <2>1. UNCHANGED <<status, startedAge, ods, apc>>
    BY <1>2 DEF ReplayCall, ForceCheck, Replay, Asked, ReplayDispatch, ForceResetFails, EndReplay,
       tables, createVars
  <2>2. \A p \in Operators : opc'[p] = "checked" =>
           \/ opc[p] = "checked" /\ oraw'[p] = oraw[p]
           \/ status[oraw'[p]] \in {"error", "duplicate"}
    BY <1>0, <1>2 DEF ReplayCall, ForceCheck, Replay, Asked, ReplayDispatch, ForceResetFails,
       EndReplay
  <2>3. QED
    BY <1>0, <2>1, <2>2 DEF Quiet, StatusStep, StaleIsAbandoned
<1>3. QED
  BY <1>1, <1>2 DEF ReplayNext, ReplayStep

\* Every undisturbed step is one of these.
LEMMA StepStatus ==
    ASSUME TypeOK, StaleIsAbandoned, [Next]_vars, Undisturbed'
    PROVE  StatusStep
<1>0. ~Inject("lostAck") /\ ~Inject("slowWorker")
  BY StaysUndisturbed DEF Disturbing
<1>1. CASE EnvironmentNext
  <2>1. ASSUME NEW r \in Raws, ClaimAges(r), UNCHANGED <<scanVars, apiVars>>
        PROVE  StatusStep
    <3>1. Abandons(r)
      BY <1>0, <2>1 DEF ClaimAges, Abandons
    <3>2. QED
      BY <3>1 DEF StatusStep
  <2>2. CASE UNCHANGED <<status, startedAge, ods, wpc, wraw, spc, stale, opc, oraw, apc>>
    BY <2>2 DEF Quiet, StatusStep, StaleIsAbandoned
  <2>3. QED
    BY <1>1, <2>1, <2>2 DEF EnvironmentNext, LoseQueue, GracePasses, LockExpires, tables,
       workerVars, scanVars, apiVars
<1>2. CASE UNCHANGED vars
  BY <1>2 DEF vars, storeVars, tables, workerVars, scanVars, apiVars, Quiet, StatusStep,
     StaleIsAbandoned
<1>3. QED
  BY <1>0, <1>1, <1>2, WorkerStatus, ScanStatus, CreateStatus, ReplayStatus DEF Next

-----------------------------------------------------------------------------
(* The locks. *)

\* Without a Redis error or an expiry, a scan starts when no other runs, and the
\* lock of a crashed scan goes when its holder is gone.
LEMMA ScansExcludeStep ==
    ASSUME TypeOK, ScansExclude, [Next]_vars, Undisturbed'
    PROVE  ScansExclude'
<1>0. /\ spc \in [Scans -> ScanPcs] /\ held \in [Scans -> BOOLEAN]
      /\ lock \in Scans \cup {NoScan} /\ NoScan \notin Scans
      /\ ~Inject("lockError") /\ ~Inject("lockExpiry") /\ ~Inject("lostAck")
  BY StaysUndisturbed, NoScanAssumption DEF TypeOK, ScanTypeOK, Disturbing, NoScanAssumption
<1>1. CASE UNCHANGED scanVars
  BY <1>1 DEF scanVars, ScansExclude
<1>2. ASSUME NEW s \in Scans, ScanNext(s)
      PROVE  ScansExclude'
  <2>1. CASE ScanStart(s)
    BY <1>0, <2>1 DEF ScanStart, ScanGoTo, ScansExclude
  <2>2. CASE \/ SelectStale(s) \/ ResetStale(s) \/ SelectPending(s) \/ Dispatch(s) \/ NextPage(s)
    <3>1. UNCHANGED <<held, lock>> /\ spc[s] # "idle" /\ \E pc : spc' = [spc EXCEPT ![s] = pc]
      <4>1. Dispatch(s) => spc' = [spc EXCEPT ![s] = spc[s]]
        BY <1>0 DEF Dispatch
      <4>2. QED
        BY <2>2, <4>1 DEF SelectStale, ResetStale, SelectPending, NextPage, Dispatch, ScanGoTo
    <3>2. QED
      BY <1>0, <3>1 DEF ScansExclude
  <2>3. CASE ScanDone(s) \/ ScanRaises(s)
    <3>1. /\ spc[s] # "idle" /\ spc' = [spc EXCEPT ![s] = "idle"]
      BY <2>3 DEF ScanDone, ScanRaises, Finish, Forget, ScanGoTo
    <3>2. \A t \in Scans : t # s => spc[t] = "idle"
      BY <3>1 DEF ScansExclude
    <3>3. QED
      BY <1>0, <3>1, <3>2 DEF ScansExclude
  <2>4. CASE ScanCrash(s)
    <3>1. /\ spc[s] # "idle" /\ spc' = [spc EXCEPT ![s] = "idle"]
      BY <2>4 DEF ScanCrash, Forget, ScanGoTo
    <3>2. \A t \in Scans : t # s => spc[t] = "idle"
      BY <3>1 DEF ScansExclude
    <3>3. QED
      BY <1>0, <3>1, <3>2 DEF ScansExclude
  <2>5. ~ScanStartUnlocked(s) /\ ~ResetAckLost(s)
    BY <1>0 DEF ScanStartUnlocked, ResetAckLost
  <2>6. QED
    BY <1>2, <2>1, <2>2, <2>3, <2>4, <2>5 DEF ScanNext, ScanStep, ScanFault
<1>3. CASE LockExpires
  <2>1. ~held[lock] /\ lock \in Scans /\ UNCHANGED spc
    BY <1>0, <1>3 DEF LockExpires
  <2>2. \A t \in Scans : spc[t] = "idle"
    BY <2>1 DEF ScansExclude
  <2>3. QED
    BY <2>1, <2>2 DEF ScansExclude
<1>4. QED
  BY <1>1, <1>2, <1>3 DEF Next, WorkerNext, CreateNext, ReplayNext, EnvironmentNext, vars

\* A second replay would be a second count.
LEMMA OneReplayStep ==
    ASSUME TypeOK, OneReplay, [Next]_vars, Undisturbed'
    PROVE  OneReplay'
<1>0. /\ opc \in [Operators -> {"idle", "checked", "dispatch"}]
      /\ injected \in [Faults -> Nat] /\ "replay" \in Faults
      /\ Inject("replay") => injected["replay"] = 0
      /\ injected["replay"] # 0 => injected'["replay"] # 0
  BY StaysUndisturbed, FaultNames DEF TypeOK, ApiTypeOK, StoreTypeOK
<1>1. CASE \A o \in Operators : opc'[o] # "idle" => opc[o] # "idle"
  BY <1>0, <1>1 DEF OneReplay
<1>2. ASSUME NEW o \in Operators, ReplayCall(o)
      PROVE  OneReplay'
  <2>1. Inject("replay") /\ \E pc : opc' = [opc EXCEPT ![o] = pc]
    BY <1>2 DEF ReplayCall, ForceCheck, Replay, Asked
  <2>2. injected'["replay"] # 0
    BY <1>0, <2>1 DEF Inject, OneMore
  <2>3. \A p \in Operators : opc[p] = "idle"
    BY <1>0, <2>1 DEF OneReplay
  <2>4. \A p \in Operators : p # o => opc'[p] = "idle"
    BY <1>0, <2>1, <2>3
  <2>5. QED
    BY <2>2, <2>4 DEF OneReplay
<1>3. ASSUME NEW o \in Operators, ReplayStep(o) \/ ForceResetFails(o)
      PROVE  \A p \in Operators : opc'[p] # "idle" => opc[p] # "idle"
  BY <1>0, <1>3 DEF ReplayStep, ForceReset, ReplayDispatch, ForceResetFails, EndReplay
<1>4. UNCHANGED opc \/ \E o \in Operators : ReplayNext(o)
  BY DEF Next, WorkerNext, ScanNext, CreateNext, Post, CreateStep, CreateFault, Insert, Reinsert,
     Refresh, EnqueueNew, InsertFails, InsertAckLost, RefreshFails, PoolTimeout, ApiCrash, Answer,
     RetryOr500, replayVars, EnvironmentNext, vars, apiVars
<1>5. QED
  BY <1>1, <1>2, <1>3, <1>4 DEF ReplayNext

\* Who is past a claim, before and after an undisturbed step.
LEMMA ClaimStep ==
    ASSUME TypeOK, Exclusive, StatusStep
    PROVE  ClaimIsFresh' /\ ClaimsExclude'
<1>0. /\ wpc \in [Workers -> WorkerPcs] /\ wraw \in [Workers -> Raws \cup {NoRaw}]
      /\ \A w \in Workers : wpc[w] # "idle" => wraw[w] \in Raws
      /\ status \in [Raws -> Statuses] /\ startedAge \in [Raws -> Ages]
      /\ ClaimIsFresh /\ ClaimsExclude
  BY DEF TypeOK, WorkerTypeOK, StoreTypeOK, Exclusive
<1>1. CASE Quiet
  BY <1>0, <1>1 DEF Quiet, ClaimIsFresh, ClaimsExclude
<1>2. ASSUME NEW w \in Workers, Claims(w)
      PROVE  ClaimIsFresh' /\ ClaimsExclude'
  <2>1. /\ wpc' = [wpc EXCEPT ![w] = "build"] /\ wraw' = wraw
        /\ wraw[w] \in Raws /\ status[wraw[w]] = "pending"
        /\ status' = [status EXCEPT ![wraw[w]] = "processing"]
        /\ startedAge' = [startedAge EXCEPT ![wraw[w]] = "fresh"]
    BY <1>2 DEF Claims, TryClaim, SetStatus, GoTo
  <2>2. \A v \in Workers : wpc[v] \in Claimed => wraw[v] # wraw[w]
    BY <2>1 DEF ClaimIsFresh, Exclusive
  <2>3. \A v \in Workers : wpc'[v] \in Claimed => v = w \/ wpc[v] \in Claimed
    BY <1>0, <2>1
  <2>4. ClaimsExclude'
    BY <1>0, <2>1, <2>2, <2>3 DEF ClaimsExclude
  <2>5. \A v \in Workers : wpc'[v] \in Claimed =>
           status'[wraw[v]] = "processing" /\ startedAge'[wraw[v]] = "fresh"
    BY <1>0, <2>1, <2>3 DEF ClaimIsFresh, Claimed
  <2>6. QED
    BY <2>1, <2>4, <2>5 DEF ClaimIsFresh
<1>3. ASSUME NEW w \in Workers, NEW new \in Statuses, Settles(w, new)
      PROVE  ClaimIsFresh' /\ ClaimsExclude'
  <2>1. /\ wpc' = [wpc EXCEPT ![w] = "idle"] /\ wraw' = [wraw EXCEPT ![w] = NoRaw]
        /\ wpc[w] \in Claimed /\ wraw[w] \in Raws
        /\ status' = [status EXCEPT ![wraw[w]] = new] /\ startedAge' = startedAge
    BY <1>3 DEF Settles, SetStatus, Return
  <2>2. \A v \in Workers : wpc'[v] \in Claimed =>
           /\ wpc[v] \in Claimed /\ v # w /\ wraw'[v] = wraw[v] /\ wraw[v] # wraw[w]
           /\ wraw[v] \in Raws
    BY <1>0, <2>1 DEF ClaimsExclude, Claimed
  <2>3. QED
    BY <1>0, <2>1, <2>2 DEF ClaimIsFresh, ClaimsExclude
<1>4. ASSUME UNCHANGED workerVars,
             \A r \in Raws : Busy(r) => status'[r] = status[r] /\ startedAge'[r] = startedAge[r]
      PROVE  ClaimIsFresh' /\ ClaimsExclude'
  <2>1. wpc' = wpc /\ wraw' = wraw
    BY <1>4 DEF workerVars
  <2>2. \A w \in Workers : wpc[w] \in Claimed => Busy(wraw[w]) /\ wraw[w] \in Raws
    BY <1>0 DEF Busy, Claimed
  <2>3. QED
    BY <1>0, <1>4, <2>1, <2>2 DEF ClaimIsFresh, ClaimsExclude
<1>5. \A r \in Raws : Busy(r) => status[r] = "processing" /\ startedAge[r] = "fresh"
  BY DEF Busy, ClaimIsFresh, Exclusive
<1>6. ASSUME NEW s \in Scans, Resets(s)
      PROVE  ClaimIsFresh' /\ ClaimsExclude'
  BY <1>0, <1>4, <1>5, <1>6 DEF Resets, ResetRows, StaleIsAbandoned, Exclusive
<1>7. ASSUME NEW o \in Operators, Forces(o)
      PROVE  ClaimIsFresh' /\ ClaimsExclude'
  <2>1. status[oraw[o]] \in {"error", "duplicate"}
    BY <1>7 DEF Forces, ReplayIsOfFailure, Exclusive
  <2>2. QED
    BY <1>0, <1>4, <1>5, <1>7, <2>1 DEF Forces, UpdateStatus, SetStatus
<1>8. ASSUME NEW r \in Raws, Inserts(r) \/ Abandons(r)
      PROVE  ClaimIsFresh' /\ ClaimsExclude'
  <2>1. CASE Inserts(r)
    <3>1. status[r] = "absent"
      BY <2>1 DEF Inserts, InsertedOnce, Exclusive
    <3>2. QED
      BY <1>0, <1>4, <1>5, <2>1, <3>1 DEF Inserts, InsertRaw, SetStatus
  <2>2. CASE Abandons(r)
    BY <1>0, <1>4, <2>2 DEF Abandons
  <2>3. QED
    BY <1>8, <2>1, <2>2
<1>9. QED
  BY <1>1, <1>2, <1>3, <1>6, <1>7, <1>8 DEF StatusStep

\* How the status of a row moves, by an undisturbed step.
LEMMA StatusMoves ==
    ASSUME TypeOK, Exclusive, StatusStep, NEW r \in Raws, status'[r] # status[r]
    PROVE  <<status[r], status'[r]>> \in Lifecycle!Arrows
<1>0. status \in [Raws -> Statuses]
  BY DEF TypeOK, StoreTypeOK
<1>1. CASE Quiet
  BY <1>1 DEF Quiet
<1>2. ASSUME NEW w \in Workers, Claims(w)
      PROVE  <<status[r], status'[r]>> \in Lifecycle!Arrows
  BY <1>0, <1>2 DEF Claims, TryClaim, SetStatus, Lifecycle!Arrows
<1>3. ASSUME NEW w \in Workers, NEW new \in Statuses, Settles(w, new)
      PROVE  <<status[r], status'[r]>> \in Lifecycle!Arrows
  <2>1. status[wraw[w]] = "processing"
    BY <1>3 DEF Settles, ClaimIsFresh, Exclusive
  <2>2. r = wraw[w] /\ status'[r] \in {"processed", "error", "duplicate"}
    BY <1>0, <1>3 DEF Settles, SetStatus
  <2>3. QED
    BY <2>1, <2>2 DEF Lifecycle!Arrows
<1>4. ASSUME NEW s \in Scans, Resets(s)
      PROVE  <<status[r], status'[r]>> \in Lifecycle!Arrows
  BY <1>0, <1>4 DEF Resets, ResetRows, StaleIsAbandoned, Exclusive, Lifecycle!Arrows
<1>5. ASSUME NEW o \in Operators, Forces(o)
      PROVE  <<status[r], status'[r]>> \in Lifecycle!Arrows
  BY <1>0, <1>5 DEF Forces, UpdateStatus, SetStatus, ReplayIsOfFailure, Exclusive, Lifecycle!Arrows
<1>6. ASSUME NEW q \in Raws, Inserts(q) \/ Abandons(q)
      PROVE  <<status[r], status'[r]>> \in Lifecycle!Arrows
  BY <1>0, <1>6 DEF Inserts, InsertRaw, Abandons, SetStatus, InsertedOnce, Exclusive,
     Lifecycle!Arrows
<1>7. QED
  BY <1>1, <1>2, <1>3, <1>4, <1>5, <1>6 DEF StatusStep

\* Between a scan's SELECT and its reset, nobody takes up the rows it has found.
LEMMA StaleStep ==
    ASSUME TypeOK, Exclusive, StatusStep
    PROVE  StaleIsAbandoned'
<1>0. /\ stale \in [Scans -> SUBSET Raws] /\ spc \in [Scans -> ScanPcs]
      /\ status \in [Raws -> Statuses] /\ startedAge \in [Raws -> Ages]
      /\ StaleIsAbandoned
  BY DEF TypeOK, ScanTypeOK, StoreTypeOK, Exclusive
<1>1. CASE Quiet
  BY <1>0, <1>1 DEF Quiet, StaleIsAbandoned, StaleRows
<1>2. ASSUME UNCHANGED scanVars,
             \A s \in Scans : \A r \in stale[s] : /\ status'[r] = status[r]
                                                 /\ startedAge'[r] \in {startedAge[r], "old"}
      PROVE  StaleIsAbandoned'
  BY <1>2 DEF StaleIsAbandoned, Exclusive, scanVars
<1>3. \A s \in Scans : \A r \in stale[s] : r \in Raws /\ status[r] = "processing" /\ startedAge[r] = "old"
  BY <1>0 DEF StaleIsAbandoned
<1>4. ASSUME NEW w \in Workers, Claims(w)
      PROVE  StaleIsAbandoned'
  <2>1. \A s \in Scans : wraw[w] \notin stale[s]
    BY <1>3, <1>4 DEF Claims
  <2>2. QED
    BY <1>0, <1>2, <1>4, <2>1 DEF Claims, TryClaim, SetStatus
<1>5. ASSUME NEW w \in Workers, NEW new \in Statuses, Settles(w, new)
      PROVE  StaleIsAbandoned'
  <2>1. \A s \in Scans : wraw[w] \notin stale[s]
    BY <1>3, <1>5 DEF Settles, ClaimIsFresh, Exclusive
  <2>2. QED
    BY <1>0, <1>2, <1>5, <2>1 DEF Settles, SetStatus
<1>6. ASSUME NEW s \in Scans, Resets(s)
      PROVE  StaleIsAbandoned'
  <2>1. spc[s] # "idle" /\ stale' = [stale EXCEPT ![s] = {}]
    BY <1>6 DEF Resets
  <2>2. \A t \in Scans : t # s => spc[t] = "idle"
    BY <2>1 DEF Exclusive, ScansExclude
  <2>3. \A t \in Scans : t # s => stale[t] = {}
    BY <2>2 DEF StaleIsAbandoned, Exclusive
  <2>4. QED
    BY <1>0, <2>1, <2>3 DEF StaleIsAbandoned
<1>7. ASSUME NEW o \in Operators, Forces(o)
      PROVE  StaleIsAbandoned'
  <2>1. \A s \in Scans : oraw[o] \notin stale[s]
    BY <1>3, <1>7 DEF Forces, ReplayIsOfFailure, Exclusive
  <2>2. QED
    BY <1>0, <1>2, <1>7, <2>1 DEF Forces, UpdateStatus, SetStatus
<1>8. ASSUME NEW r \in Raws, Inserts(r)
      PROVE  StaleIsAbandoned'
  <2>1. \A s \in Scans : r \notin stale[s]
    BY <1>3, <1>8 DEF Inserts, InsertedOnce, Exclusive
  <2>2. QED
    BY <1>0, <1>2, <1>8, <2>1 DEF Inserts, InsertRaw, SetStatus
<1>9. ASSUME NEW r \in Raws, Abandons(r)
      PROVE  StaleIsAbandoned'
  <2>1. \A s \in Scans : \A q \in stale[s] : status'[q] = status[q] /\ startedAge'[q] \in {startedAge[q], "old"}
    BY <1>0, <1>9 DEF Abandons
  <2>2. QED
    BY <1>2, <1>9, <2>1 DEF Abandons
<1>10. QED
  BY <1>1, <1>4, <1>5, <1>6, <1>7, <1>8, <1>9 DEF StatusStep

\* Between the guard of a forced replay and its UPDATE, the row stays as it was.
LEMMA ReplayIsOfFailureStep ==
    ASSUME TypeOK, Exclusive, StatusStep
    PROVE  ReplayIsOfFailure'
<1>0. /\ opc \in [Operators -> {"idle", "checked", "dispatch"}]
      /\ status \in [Raws -> Statuses]
      /\ \A o \in Operators : opc[o] # "idle" => oraw[o] \in Raws
      /\ ReplayIsOfFailure
  BY DEF TypeOK, ApiTypeOK, StoreTypeOK, Exclusive
<1>1. CASE Quiet
  BY <1>0, <1>1 DEF Quiet, ReplayIsOfFailure
<1>2. ASSUME UNCHANGED replayVars,
             \A r \in Raws : status[r] \in {"error", "duplicate"} => status'[r] = status[r]
      PROVE  ReplayIsOfFailure'
  BY <1>0, <1>2 DEF ReplayIsOfFailure, replayVars
<1>3. ASSUME NEW w \in Workers, Claims(w)
      PROVE  ReplayIsOfFailure'
  BY <1>0, <1>2, <1>3 DEF Claims, TryClaim, SetStatus, apiVars, replayVars
<1>4. ASSUME NEW w \in Workers, NEW new \in Statuses, Settles(w, new)
      PROVE  ReplayIsOfFailure'
  <2>1. status[wraw[w]] = "processing"
    BY <1>4 DEF Settles, ClaimIsFresh, Exclusive
  <2>2. QED
    BY <1>0, <1>2, <1>4, <2>1 DEF Settles, SetStatus, apiVars, replayVars
<1>5. ASSUME NEW s \in Scans, Resets(s)
      PROVE  ReplayIsOfFailure'
  BY <1>0, <1>2, <1>5 DEF Resets, ResetRows, StaleIsAbandoned, Exclusive, apiVars, replayVars
<1>6. ASSUME NEW o \in Operators, Forces(o)
      PROVE  ReplayIsOfFailure'
  <2>1. \A p \in Operators : opc'[p] # "checked"
    BY <1>0, <1>6 DEF Forces, OneReplay, Exclusive
  <2>2. QED
    BY <2>1 DEF ReplayIsOfFailure
<1>7. ASSUME NEW r \in Raws, Inserts(r) \/ Abandons(r)
      PROVE  ReplayIsOfFailure'
  BY <1>0, <1>2, <1>7 DEF Inserts, InsertRaw, SetStatus, Abandons, InsertedOnce, Exclusive, apiVars,
     replayVars
<1>8. QED
  BY <1>1, <1>3, <1>4, <1>5, <1>6, <1>7 DEF StatusStep

\* Only its own handler brings a Raw into being.
LEMMA InsertedOnceStep ==
    ASSUME TypeOK, Exclusive, StatusStep
    PROVE  InsertedOnce'
<1>0. apc \in [Raws -> ApiPcs] /\ status \in [Raws -> Statuses] /\ InsertedOnce
  BY DEF TypeOK, ApiTypeOK, StoreTypeOK, Exclusive
<1>1. SUFFICES ASSUME NEW r \in Raws, apc'[r] \in {"idle", "insert"}
               PROVE  status'[r] = "absent"
  BY DEF InsertedOnce
<1>2. apc[r] \in {"idle", "insert"}
  BY <1>0, <1>1 DEF StatusStep, Quiet, Claims, Settles, Resets, Forces, Inserts, Abandons, apiVars,
     createVars
<1>3. status[r] = "absent"
  BY <1>2 DEF Exclusive, InsertedOnce
<1>4. CASE \E q \in Raws : Inserts(q)
  BY <1>0, <1>1, <1>3, <1>4 DEF Inserts, InsertRaw, SetStatus
<1>5. CASE Quiet \/ \E q \in Raws : Abandons(q)
  BY <1>3, <1>5 DEF Quiet, Abandons
<1>6. ASSUME NEW w \in Workers, Claims(w)
      PROVE  status'[r] = "absent"
  BY <1>0, <1>3, <1>6 DEF Claims, TryClaim, SetStatus
<1>7. ASSUME NEW w \in Workers, NEW new \in Statuses, Settles(w, new)
      PROVE  status'[r] = "absent"
  BY <1>0, <1>3, <1>7 DEF Settles, SetStatus, ClaimIsFresh, Exclusive
<1>8. ASSUME NEW s \in Scans, Resets(s)
      PROVE  status'[r] = "absent"
  BY <1>0, <1>3, <1>8 DEF Resets, ResetRows, StaleIsAbandoned, Exclusive
<1>9. ASSUME NEW o \in Operators, Forces(o)
      PROVE  status'[r] = "absent"
  BY <1>0, <1>3, <1>9 DEF Forces, UpdateStatus, SetStatus, ReplayIsOfFailure, Exclusive
<1>10. QED
  BY <1>4, <1>5, <1>6, <1>7, <1>8, <1>9 DEF StatusStep

\* No arrow leaves processed, and a row lands as it is processed.
LEMMA LandedStaysStep ==
    ASSUME TypeOK, Exclusive, StatusStep
    PROVE  LandedStays'
<1>0. status \in [Raws -> Statuses] /\ ods \subseteq Raws
  BY DEF TypeOK, StoreTypeOK
<1>1. \A r \in ods : status'[r] = "processed"
  <2>1. \A x : <<"processed", x>> \notin Lifecycle!Arrows
    BY DEF Lifecycle!Arrows
  <2>2. QED
    BY <1>0, <2>1, StatusMoves DEF LandedStays, Exclusive
<1>2. ASSUME NEW r \in ods', r \notin ods
      PROVE  status'[r] = "processed"
  <2>1. PICK w \in Workers : \E new \in Statuses : Settles(w, new)
    BY <1>2 DEF StatusStep, Quiet, Claims, TryClaim, Resets, ResetRows, Forces, UpdateStatus, Inserts,
       InsertRaw, Abandons
  <2>2. QED
    BY <1>0, <1>2, <2>1 DEF Settles, SetStatus
<1>3. QED
  BY <1>1, <1>2 DEF LandedStays

-----------------------------------------------------------------------------
(* The theorems. *)

\* What holds until something disturbs.
Unbroken == Undisturbed => Exclusive

\* It holds at the start, and an undisturbed step keeps it.
LEMMA UnbrokenInit == Init => Unbroken
BY DEF Init, StoreInit, WorkerInit, ScanInit, ApiInit, Unbroken, Exclusive, ScansExclude,
   ClaimIsFresh, ClaimsExclude, StaleIsAbandoned, OneReplay, ReplayIsOfFailure, InsertedOnce,
   LandedStays, Claimed

\* A step that disturbs nothing keeps each of the exclusions; one that does makes
\* the claim void from then on.
LEMMA UnbrokenStep ==
    ASSUME TypeOK, Unbroken, [Next]_vars
    PROVE  Unbroken'
<1>1. SUFFICES ASSUME Undisturbed'
               PROVE  Exclusive'
  BY DEF Unbroken
<1>2. Exclusive
  BY <1>1, StaysUndisturbed DEF Unbroken
<1>3. StatusStep
  BY <1>1, <1>2, StepStatus DEF Exclusive
<1>4. ScansExclude' /\ OneReplay'
  BY <1>1, <1>2, ScansExcludeStep, OneReplayStep DEF Exclusive
<1>5. QED
  BY <1>2, <1>3, <1>4, ClaimStep, StaleStep, ReplayIsOfFailureStep, InsertedOnceStep,
     LandedStaysStep DEF Exclusive

\* The locks that the code does not have hold as long as nothing disturbs them.
THEOREM UnbrokenAlways == Spec => []Unbroken
<1>1. TypeOK /\ Unbroken /\ [Next]_vars => Unbroken'
  BY UnbrokenStep
<1>2. QED
  BY <1>1, UnbrokenInit, TypeCorrect, PTL DEF Spec

\* One worker at most is past the claim of a Raw, and its row says so: with the
\* stale threshold, the CAS of try_claim_raw is a lock.
THEOREM ClaimIsALock == Spec => []SingleWriter
<1>1. Unbroken => SingleWriter
  BY DEF Unbroken, Exclusive, ClaimIsFresh, ClaimsExclude, SingleWriter
<1>2. QED
  BY <1>1, UnbrokenAlways, PTL

\* A landed order is never reported as failed, duplicate or unfinished.
THEOREM LandedIsProcessed == Spec => []RowMeansProcessed
<1>1. Unbroken => RowMeansProcessed
  BY DEF Unbroken, Exclusive, LandedStays, RowMeansProcessed
<1>2. QED
  BY <1>1, UnbrokenAlways, PTL

\* Until something disturbs it, the system implements the lifecycle that
\* design/ingestion.md draws: raw.status moves along its arrows only.
THEOREM StatusFollowsLifecycle == Spec => LifecycleSpec
<1>1. Init => Lifecycle!Init
  BY DEF Init, StoreInit, Lifecycle!Init
<1>2. TypeOK /\ TypeOK' /\ Unbroken /\ [Next]_vars => [Undisturbed' => Lifecycle!Next]_status
  <2>1. SUFFICES ASSUME TypeOK, TypeOK', Unbroken, [Next]_vars, Undisturbed'
                 PROVE  Lifecycle!Next
    OBVIOUS
  <2>2. Exclusive /\ StatusStep
    BY <2>1, StaysUndisturbed, StepStatus DEF Unbroken, Exclusive
  <2>3. status' \in [Raws -> Lifecycle!States]
    BY <2>1 DEF TypeOK, StoreTypeOK, Statuses, Lifecycle!States
  <2>4. QED
    BY <2>1, <2>2, <2>3, StatusMoves DEF Lifecycle!Next
<1>3. QED
  BY <1>1, <1>2, TypeCorrect, UnbrokenAlways, PTL DEF Spec, LifecycleSpec

\* process.py calls a collision of a Raw with its own row unreachable: it is, but
\* for the disturbances, of which the run overlap uses one.
THEOREM CollisionNeedsDisturbance == Spec => [](Undisturbed => SelfCollisionUnreachable)
<1>1. TypeOK /\ Unbroken => (Undisturbed => SelfCollisionUnreachable)
  BY DEF Unbroken, Exclusive, LandedStays, SelfCollisionUnreachable
<1>2. QED
  BY <1>1, TypeCorrect, UnbrokenAlways, PTL

\* A processed record is never replayed, but for two replays at a time (the run
\* forced) and the disturbances.
THEOREM ReplayNeedsDisturbance ==
    Spec => [][Undisturbed' => \A r \in Raws : status[r] = "processed" => status'[r] = "processed"]_vars
<1>1. TypeOK /\ Unbroken /\ [Next]_vars
      => [Undisturbed' => \A r \in Raws : status[r] = "processed" => status'[r] = "processed"]_vars
  <2>1. SUFFICES ASSUME TypeOK, Unbroken, [Next]_vars, Undisturbed',
                        NEW r \in Raws, status[r] = "processed", status'[r] # "processed"
                 PROVE  FALSE
    OBVIOUS
  <2>2. Exclusive /\ StatusStep
    BY <2>1, StaysUndisturbed, StepStatus DEF Unbroken, Exclusive
  <2>3. <<status[r], status'[r]>> \in Lifecycle!Arrows
    BY <2>1, <2>2, StatusMoves
  <2>4. QED
    BY <2>1, <2>3 DEF Lifecycle!Arrows
<1>2. QED
  BY <1>1, TypeCorrect, UnbrokenAlways, PTL DEF Spec
=============================================================================
