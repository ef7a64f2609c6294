---------------------------- MODULE RecoveryScan ----------------------------
(***************************************************************************)
(* tasks.scan_and_dispatch, sent by Celery Beat every scan_interval and    *)
(* once when Beat starts: under a best-effort Redis lock it walks the      *)
(* backlog page by page; each page is one process.scan_and_recover call    *)
(* (stale processing back to pending, then the aged pending rows), every   *)
(* id of which is published again.                                         *)
(***************************************************************************)
EXTENDS OrderStore

CONSTANTS
    Scans,      \* task slots that can run the scan at the same time
    BatchSize,  \* SCAN_BATCH_SIZE
    MaxRounds   \* SCAN_MAX_ROUNDS

ASSUME ScanAssumption ==
    /\ IsFiniteSet(Raws)
    /\ BatchSize \in Nat \ {0}
    /\ MaxRounds \in Nat \ {0}

VARIABLES
    spc,     \* where each scan is
    stale,   \* stale_ids its SELECT returned
    page,    \* ids of the current page still to be published
    after,   \* the cursor after_id
    more,    \* the current page was full
    round,   \* pages begun in this run
    held,    \* this run took the lock (its token is in Redis, or was)
    lock     \* the slot whose token is in Redis; NoScan when the key is absent

scanVars == <<spc, stale, page, after, more, round, held, lock>>

CONSTANT NoScan
ASSUME NoScanAssumption == NoScan \notin Scans

ScanPcs == {"idle", "stale", "reset", "pending", "dispatch"}

ScanTypeOK ==
    /\ spc \in [Scans -> ScanPcs]
    /\ stale \in [Scans -> SUBSET Raws]
    /\ page \in [Scans -> SUBSET Raws]
    /\ after \in [Scans -> Raws \cup {0}]
    /\ more \in [Scans -> BOOLEAN]
    /\ round \in [Scans -> 0..MaxRounds]
    /\ held \in [Scans -> BOOLEAN]
    /\ lock \in Scans \cup {NoScan}

ScanInit ==
    /\ spc = [s \in Scans |-> "idle"]
    /\ stale = [s \in Scans |-> {}]
    /\ page = [s \in Scans |-> {}]
    /\ after = [s \in Scans |-> 0]
    /\ more = [s \in Scans |-> FALSE]
    /\ round = [s \in Scans |-> 0]
    /\ held = [s \in Scans |-> FALSE]
    /\ lock = NoScan

\* ORDER BY id LIMIT n.
FirstByID(S, n) == {r \in S : Cardinality({q \in S : q < r}) < n}

\* Mutants of StaleRows: no age at all; the age of the row instead of the claim's.
AnyProcessingRows == {r \in Raws : status[r] = "processing"}
StaleByReceipt == {r \in Raws : status[r] = "processing" /\ receivedAge[r] = "old"}

StaleRows == {r \in Raws : status[r] = "processing" /\ startedAge[r] = "old"}
PendingRows(id) ==
    {r \in Raws : status[r] = "pending" /\ receivedAge[r] = "old" /\ r > id}

ScanGoTo(s, pc) == spc' = [spc EXCEPT ![s] = pc]

\* Mutant of Forget: the cursor outlives the run.
ForgetKeepingCursor(s) ==
    /\ ScanGoTo(s, "idle")
    /\ stale' = [stale EXCEPT ![s] = {}]
    /\ page' = [page EXCEPT ![s] = {}]
    /\ more' = [more EXCEPT ![s] = FALSE]
    /\ round' = [round EXCEPT ![s] = 0]
    /\ held' = [held EXCEPT ![s] = FALSE]
    /\ UNCHANGED after

\* The task is over: its locals are gone.
Forget(s) ==
    /\ ScanGoTo(s, "idle")
    /\ stale' = [stale EXCEPT ![s] = {}]
    /\ page' = [page EXCEPT ![s] = {}]
    /\ after' = [after EXCEPT ![s] = 0]
    /\ more' = [more EXCEPT ![s] = FALSE]
    /\ round' = [round EXCEPT ![s] = 0]
    /\ held' = [held EXCEPT ![s] = FALSE]

\* Mutant of Finish: the key is deleted without comparing the token.
FinishUnconditional(s) ==
    /\ Forget(s)
    /\ lock' = IF held[s] THEN NoScan ELSE lock

(***************************************************************************)
(* The finally of _scan_lock: compare-and-delete on the run's own token,   *)
(* on success and on every exception.                                      *)
(***************************************************************************)
Finish(s) ==
    /\ Forget(s)
    /\ lock' = IF held[s] /\ lock = s THEN NoScan ELSE lock

-----------------------------------------------------------------------------
\* SET NX EX: taken.  When another run holds it the task returns 0: no step.
ScanStart(s) ==
    /\ spc[s] = "idle"
    /\ lock = NoScan
    /\ lock' = s
    /\ held' = [held EXCEPT ![s] = TRUE]
    /\ ScanGoTo(s, "stale")
    /\ round' = [round EXCEPT ![s] = 1]
    /\ UNCHANGED <<stale, page, after, more, storeVars>>

\* Redis failed while the lock was taken: the scan runs all the same.
ScanStartUnlocked(s) ==
    /\ spc[s] = "idle"
    /\ Inject("lockError")
    /\ ScanGoTo(s, "stale")
    /\ round' = [round EXCEPT ![s] = 1]
    /\ UNCHANGED <<stale, page, after, more, held, lock, tables, queue>>

SelectStale(s) ==
    /\ spc[s] = "stale"
    /\ stale' = [stale EXCEPT ![s] = FirstByID(StaleRows, BatchSize)]
    /\ ScanGoTo(s, IF StaleRows = {} THEN "pending" ELSE "reset")
    /\ UNCHANGED <<page, after, more, round, held, lock, storeVars>>

\* UPDATE raw SET status = 'pending' WHERE id IN (stale_ids), and no more.
ResetRows(s) ==
    /\ status' = [r \in Raws |-> IF r \in stale[s] THEN "pending" ELSE status[r]]
    /\ UNCHANGED <<receivedAge, startedAge, ods, verdicts, queue>>

ResetStale(s) ==
    /\ spc[s] = "reset"
    /\ ResetRows(s)
    /\ stale' = [stale EXCEPT ![s] = {}]
    /\ ScanGoTo(s, "pending")
    /\ UNCHANGED <<page, after, more, round, held, lock, injected>>

ResetAckLost(s) ==
    /\ spc[s] = "reset"
    /\ ResetRows(s)
    /\ Inject("lostAck")
    /\ Finish(s)

SelectPending(s) ==
    /\ spc[s] = "pending"
    /\ LET rows == FirstByID(PendingRows(after[s]), BatchSize)
       IN  /\ page' = [page EXCEPT ![s] = rows]
           /\ more' = [more EXCEPT ![s] = Cardinality(rows) = BatchSize]
           /\ \/ rows = {} /\ UNCHANGED after
              \/ \E last \in rows : /\ \A r \in rows : r <= last
                                    /\ after' = [after EXCEPT ![s] = last]
    /\ ScanGoTo(s, "dispatch")
    /\ UNCHANGED <<stale, round, held, lock, storeVars>>

\* apply_async for the next id of the page.
Dispatch(s) ==
    /\ spc[s] = "dispatch"
    /\ \E r \in page[s] :
         /\ \A q \in page[s] : r <= q
         /\ Publish(r)
         /\ page' = [page EXCEPT ![s] = @ \ {r}]
    /\ UNCHANGED <<spc, stale, after, more, round, held, lock, tables, injected>>

\* Mutant of NextPage: no limit of rounds.
NextPageUnbounded(s) ==
    /\ spc[s] = "dispatch"
    /\ page[s] = {}
    /\ more[s]
    /\ round' = [round EXCEPT ![s] = @ + 1]
    /\ ScanGoTo(s, "stale")
    /\ UNCHANGED <<stale, page, after, more, held, lock, storeVars>>

\* The page was full and rounds are left: call scan_and_recover again.
NextPage(s) ==
    /\ spc[s] = "dispatch"
    /\ page[s] = {}
    /\ more[s]
    /\ round[s] < MaxRounds
    /\ round' = [round EXCEPT ![s] = @ + 1]
    /\ ScanGoTo(s, "stale")
    /\ UNCHANGED <<stale, page, after, more, held, lock, storeVars>>

ScanDone(s) ==
    /\ spc[s] = "dispatch"
    /\ page[s] = {}
    /\ more[s] => round[s] = MaxRounds
    /\ Finish(s)
    /\ UNCHANGED storeVars

-----------------------------------------------------------------------------
\* No exception is caught: a failed statement or publish ends the task.
ScanRaises(s) ==
    /\ \/ spc[s] \in {"stale", "reset", "pending"} /\ Inject("dbError")
       \/ spc[s] = "dispatch" /\ page[s] # {} /\ Inject("publish")
    /\ Finish(s)
    /\ UNCHANGED <<tables, queue>>

\* The process dies: no finally, the lock stays until its TTL.
ScanCrash(s) ==
    /\ spc[s] # "idle"
    /\ Inject("crash")
    /\ Forget(s)
    /\ UNCHANGED <<lock, tables, queue>>

\* The TTL (one scan interval) passes; a live holder is not told.
LockExpires ==
    /\ lock # NoScan
    /\ lock' = NoScan
    /\ IF held[lock] THEN Inject("lockExpiry") ELSE UNCHANGED injected
    /\ UNCHANGED <<spc, stale, page, after, more, round, held, tables, queue>>

ScanStep(s) ==
    \/ SelectStale(s) \/ ResetStale(s) \/ SelectPending(s)
    \/ Dispatch(s) \/ NextPage(s) \/ ScanDone(s)

ScanFault(s) ==
    \/ ScanStartUnlocked(s) \/ ResetAckLost(s) \/ ScanRaises(s) \/ ScanCrash(s)
=============================================================================
