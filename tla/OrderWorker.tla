----------------------------- MODULE OrderWorker -----------------------------
(***************************************************************************)
(* Celery workers running tasks.process_raw_event, i.e.                    *)
(* process.process_raw_event(raw_id): CAS claim, build the ODS row, look   *)
(* for the order, commit ODS + quality event + status in one transaction.  *)
(* Messages are acknowledged late (task_acks_late), so a worker holds its  *)
(* message until the task returns, and a crash puts it back.               *)
(***************************************************************************)
EXTENDS OrderStore

CONSTANT Workers

VARIABLES
    wpc,   \* where each worker is in process_raw_event
    wraw,  \* the raw_id it works on; NoRaw when idle
    wtry   \* attempt number of the retry loop it is in

workerVars == <<wpc, wraw, wtry>>

NoRaw == 0

\* Positions after a claim that the worker believes it won.
Claimed == {"build", "check", "commit", "markError", "markDuplicate"}
WorkerPcs == {"idle", "claim"} \cup Claimed

WorkerTypeOK ==
    /\ wpc \in [Workers -> WorkerPcs]
    /\ wraw \in [Workers -> Raws \cup {NoRaw}]
    /\ wtry \in [Workers -> 1..Attempts]
    /\ \A w \in Workers : wpc[w] # "idle" => wraw[w] \in Raws

WorkerInit ==
    /\ wpc = [w \in Workers |-> "idle"]
    /\ wraw = [w \in Workers |-> NoRaw]
    /\ wtry = [w \in Workers |-> 1]

\* Some worker is past its claim of r.
Busy(r) == \E w \in Workers : wpc[w] \in Claimed /\ wraw[w] = r

GoTo(w, pc) ==
    /\ wpc' = [wpc EXCEPT ![w] = pc]
    /\ wtry' = [wtry EXCEPT ![w] = 1]
    /\ UNCHANGED wraw

Retry(w) ==
    /\ wtry[w] < Attempts
    /\ wtry' = [wtry EXCEPT ![w] = @ + 1]
    /\ UNCHANGED <<wpc, wraw>>

\* The task returns or raises: either way Celery acknowledges the message.
Return(w) ==
    /\ wpc' = [wpc EXCEPT ![w] = "idle"]
    /\ wraw' = [wraw EXCEPT ![w] = NoRaw]
    /\ wtry' = [wtry EXCEPT ![w] = 1]

LastTry(w) == wtry[w] = Attempts

\* A retry loop that gives up by leaving the row as it is.
RetryOrReturn(w) == Retry(w) \/ (LastTry(w) /\ Return(w))

NoDbChange == UNCHANGED tables /\ Inject("dbError")

-----------------------------------------------------------------------------
Take(w, r) ==
    /\ wpc[w] = "idle"
    /\ queue[r] > 0
    /\ queue' = [queue EXCEPT ![r] = @ - 1]
    /\ wpc' = [wpc EXCEPT ![w] = "claim"]
    /\ wraw' = [wraw EXCEPT ![w] = r]
    /\ UNCHANGED <<tables, injected, wtry>>

\* Mutant of TryClaim: the claim does not write processing_started_at.
TryClaimUntimed(r) ==
    IF status[r] = "pending" THEN UpdateStatus(r, "processing") ELSE UNCHANGED tables

\* try_claim_raw: UPDATE ... WHERE id = r AND status = 'pending'.
TryClaim(r) ==
    IF status[r] = "pending"
    THEN /\ SetStatus(r, "processing")
         /\ startedAge' = [startedAge EXCEPT ![r] = "fresh"]
         /\ UNCHANGED <<receivedAge, ods, verdicts>>
    ELSE UNCHANGED tables

Claim(w) ==
    /\ wpc[w] = "claim"
    /\ TryClaim(wraw[w])
    /\ IF status[wraw[w]] = "pending" THEN GoTo(w, "build") ELSE Return(w)
    /\ UNCHANGED <<queue, injected>>

ClaimFails(w) ==
    /\ wpc[w] = "claim"
    /\ NoDbChange
    /\ RetryOrReturn(w)
    /\ UNCHANGED queue

\* The row is now 'processing', yet this worker's next try will miss it.
ClaimAckLost(w) ==
    /\ wpc[w] = "claim"
    /\ TryClaim(wraw[w])
    /\ Inject("lostAck")
    /\ RetryOrReturn(w)
    /\ UNCHANGED queue

(***************************************************************************)
(* The load of the Raw row and the processing loop.  json.loads and the    *)
(* ODSOrder validators raise the deterministic errors.                     *)
(***************************************************************************)
Build(w) ==
    /\ wpc[w] = "build"
    /\ GoTo(w, IF PayloadOf[wraw[w]] = "malformed" THEN "markError" ELSE "check")
    /\ UNCHANGED storeVars

BuildFails(w) ==
    /\ wpc[w] = "build"
    /\ Inject("procError")
    /\ Retry(w) \/ (LastTry(w) /\ GoTo(w, "markError"))
    /\ UNCHANGED <<tables, queue>>

(***************************************************************************)
(* A SELECT outside every try (the load, the reload before a retry, the    *)
(* ODS pre-check, the look at the winner after an IntegrityError) raises   *)
(* out of the task; the row stays 'processing'.                            *)
(***************************************************************************)
UnguardedSelectFails(w) ==
    /\ \/ wpc[w] \in {"build", "check"}
       \/ wpc[w] = "commit" /\ Conflicts(wraw[w]) # {}
    /\ NoDbChange
    /\ Return(w)
    /\ UNCHANGED queue

\* Mutant of Check: the answers are swapped.
CheckInverted(w) ==
    /\ wpc[w] = "check"
    /\ GoTo(w, IF HasOrder(wraw[w]) THEN "commit" ELSE "markDuplicate")
    /\ UNCHANGED storeVars

Check(w) ==
    /\ wpc[w] = "check"
    /\ GoTo(w, IF HasOrder(wraw[w]) THEN "markDuplicate" ELSE "commit")
    /\ UNCHANGED storeVars

\* The flush raises DataError or ValueError before any unique index is met.
CommitRejected(w) ==
    /\ wpc[w] = "commit"
    /\ PayloadOf[wraw[w]] = "unstorable"
    /\ GoTo(w, "markError")
    /\ UNCHANGED storeVars

\* Mutant of CommitConflict: every failed flush is read as a duplicate.
CommitConflictAny(w) ==
    /\ wpc[w] = "commit"
    /\ GoTo(w, "markDuplicate")
    /\ UNCHANGED storeVars

\* IntegrityError: read as "another Raw won", and never retried.
CommitConflict(w) ==
    /\ wpc[w] = "commit"
    /\ PayloadOf[wraw[w]] # "unstorable"
    /\ Conflicts(wraw[w]) # {}
    /\ GoTo(w, "markDuplicate")
    /\ UNCHANGED storeVars

\* Mutant of Land: neither UNIQUE constraint.
LandAgain(r) ==
    /\ PayloadOf[r] # "unstorable"
    /\ SetStatus(r, "processed")
    /\ ods' = ods \cup {r}
    /\ verdicts' = [verdicts EXCEPT ![r][VerdictOf(r)] = @ + 1]
    /\ UNCHANGED <<receivedAge, startedAge>>

\* INSERT ods, INSERT quality_events, UPDATE raw: one transaction.
Land(r) ==
    /\ PayloadOf[r] # "unstorable"
    /\ Conflicts(r) = {}
    /\ SetStatus(r, "processed")
    /\ ods' = ods \cup {r}
    /\ verdicts' = [verdicts EXCEPT ![r][VerdictOf(r)] = @ + 1]
    /\ UNCHANGED <<receivedAge, startedAge>>

Commit(w) ==
    /\ wpc[w] = "commit"
    /\ Land(wraw[w])
    /\ Return(w)
    /\ UNCHANGED <<queue, injected>>

CommitFails(w) ==
    /\ wpc[w] = "commit"
    /\ NoDbChange
    /\ RetryOrReturn(w)
    /\ UNCHANGED queue

CommitAckLost(w) ==
    /\ wpc[w] = "commit"
    /\ Land(wraw[w])
    /\ Inject("lostAck")
    /\ RetryOrReturn(w)
    /\ UNCHANGED queue

\* _commit_raw_status: the WHERE names the id only, whatever the status is now.
MarkedStatus(pc) == IF pc = "markError" THEN "error" ELSE "duplicate"
Marking(w) == wpc[w] \in {"markError", "markDuplicate"}

Mark(w) ==
    /\ Marking(w)
    /\ UpdateStatus(wraw[w], MarkedStatus(wpc[w]))
    /\ Return(w)
    /\ UNCHANGED <<queue, injected>>

MarkFails(w) ==
    /\ Marking(w)
    /\ NoDbChange
    /\ RetryOrReturn(w)
    /\ UNCHANGED queue

MarkAckLost(w) ==
    /\ Marking(w)
    /\ UpdateStatus(wraw[w], MarkedStatus(wpc[w]))
    /\ Inject("lostAck")
    /\ RetryOrReturn(w)
    /\ UNCHANGED queue

-----------------------------------------------------------------------------
\* task_reject_on_worker_lost, or the visibility timeout: the message returns.
Crash(w) ==
    /\ wpc[w] # "idle"
    /\ Inject("crash")
    /\ Publish(wraw[w])
    /\ Return(w)
    /\ UNCHANGED tables

\* The visibility timeout passes while the worker still holds the message.
Redeliver(w) ==
    /\ wpc[w] # "idle"
    /\ Inject("redeliver")
    /\ Publish(wraw[w])
    /\ UNCHANGED <<tables, workerVars>>

\* processing_started_at < now - STALE_PROCESSING_MINUTES becomes true.
ClaimAges(r) ==
    /\ status[r] = "processing"
    /\ startedAge[r] = "fresh"
    /\ startedAge' = [startedAge EXCEPT ![r] = "old"]
    /\ IF Busy(r) THEN Inject("slowWorker") ELSE UNCHANGED injected
    /\ UNCHANGED <<status, receivedAge, ods, verdicts, queue, workerVars>>

WorkerStep(w) ==
    \/ Claim(w) \/ Build(w) \/ Check(w)
    \/ CommitRejected(w) \/ CommitConflict(w) \/ Commit(w) \/ Mark(w)

WorkerFault(w) ==
    \/ ClaimFails(w) \/ ClaimAckLost(w)
    \/ BuildFails(w) \/ UnguardedSelectFails(w)
    \/ CommitFails(w) \/ CommitAckLost(w)
    \/ MarkFails(w) \/ MarkAckLost(w)
    \/ Crash(w) \/ Redeliver(w)
=============================================================================
