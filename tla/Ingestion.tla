------------------------------ MODULE Ingestion ------------------------------
(***************************************************************************)
(* The ingestion path: API handlers, Celery workers and recovery scans     *)
(* that interact through the tables and the broker of OrderStore.          *)
(***************************************************************************)
EXTENDS OrderWorker, RecoveryScan, OrderApi

vars == <<storeVars, workerVars, scanVars, apiVars>>

Init == StoreInit /\ WorkerInit /\ ScanInit /\ ApiInit

WorkerNext(w) ==
    /\ WorkerStep(w) \/ WorkerFault(w) \/ \E r \in Raws : Take(w, r)
    /\ UNCHANGED <<scanVars, apiVars>>

ScanNext(s) ==
    /\ ScanStart(s) \/ ScanStep(s) \/ ScanFault(s)
    /\ UNCHANGED <<workerVars, apiVars>>

CreateNext(r) ==
    /\ Post(r) \/ CreateStep(r) \/ CreateFault(r)
    /\ UNCHANGED <<workerVars, scanVars>>

ReplayNext(o) ==
    /\ ReplayCall(o) \/ ReplayStep(o) \/ ForceResetFails(o)
    /\ UNCHANGED <<workerVars, scanVars>>

\* Clocks and Redis.
EnvironmentNext ==
    \/ /\ LoseQueue \/ \E r \in Raws : GracePasses(r)
       /\ UNCHANGED <<workerVars, scanVars, apiVars>>
    \/ \E r \in Raws : ClaimAges(r) /\ UNCHANGED <<scanVars, apiVars>>
    \/ LockExpires /\ UNCHANGED <<workerVars, apiVars>>

Next ==
    \/ \E w \in Workers : WorkerNext(w)
    \/ \E s \in Scans : ScanNext(s)
    \/ \E r \in Raws : CreateNext(r)
    \/ \E o \in Operators : ReplayNext(o)
    \/ EnvironmentNext

Spec == Init /\ [][Next]_vars

(***************************************************************************)
(* Fairness.  Code that is running keeps running (faults are choices, and  *)
(* the budgets bound them); Beat starts a scan on every tick; clocks       *)
(* advance and lock TTLs pass.  The Redis list is first-in first-out, so a *)
(* waiting message is taken even though other messages keep arriving:      *)
(* strong fairness per Raw.  Clients and operators owe nothing.            *)
(***************************************************************************)
Fairness ==
    /\ \A w \in Workers : WF_vars(WorkerStep(w) /\ UNCHANGED <<scanVars, apiVars>>)
    /\ \A r \in Raws :
         /\ SF_vars(\E w \in Workers : Take(w, r) /\ UNCHANGED <<scanVars, apiVars>>)
         /\ WF_vars(CreateStep(r) /\ UNCHANGED <<workerVars, scanVars>>)
         /\ WF_vars(GracePasses(r) /\ UNCHANGED <<workerVars, scanVars, apiVars>>)
         /\ WF_vars(~Busy(r) /\ ClaimAges(r) /\ UNCHANGED <<scanVars, apiVars>>)
    /\ \A o \in Operators : WF_vars(ReplayStep(o) /\ UNCHANGED <<workerVars, scanVars>>)
    /\ \A s \in Scans : WF_vars(ScanStep(s) /\ UNCHANGED <<workerVars, apiVars>>)
    /\ WF_vars((\E s \in Scans : ScanStart(s)) /\ UNCHANGED <<workerVars, apiVars>>)
    /\ WF_vars(lock # NoScan /\ ~held[lock] /\ LockExpires /\ UNCHANGED <<workerVars, apiVars>>)

FairSpec == Spec /\ Fairness
-----------------------------------------------------------------------------
(* Properties that hold under every fault of the environment. *)

\* Every variable has its type.
TypeOK == StoreTypeOK /\ WorkerTypeOK /\ ScanTypeOK /\ ApiTypeOK

\* First write wins: whatever crashes, retries, redeliveries, overlapping scans
\* and lost acknowledgements occur, ods and quality_events behave as OdsLedger:
\* one row per order, one row per Raw, never replaced, and its one initial
\* quality event written in the same transaction.
Ledger == INSTANCE OdsLedger
LedgerSpec == Ledger!Spec

\* An ODS row and its initial quality event exist together or not at all, so
\* that the effective quality state of every row is known.
RowHasItsVerdict ==
    \A r \in Raws, v \in ToStates :
        verdicts[r][v] = IF r \in ods /\ v = VerdictOf(r) THEN 1 ELSE 0

\* A terminal status tells the truth about ods: processed has its own row, and
\* duplicate is only ever said of an order that some Raw did land.
TerminalIsTruthful ==
    \A r \in Raws : /\ status[r] = "processed" => r \in ods
                    /\ status[r] = "duplicate" => HasOrder(r)

\* No row is beyond the reach of the stale scan: a processing row always has a
\* processing_started_at to compare (a NULL would never be older than anything).
ProcessingIsTimed ==
    \A r \in Raws : status[r] = "processing" => startedAge[r] # "null"

\* Dispatch comes after the commit: a message, a busy worker or a 200 answer
\* always names a Raw row that is durable.
OnlyDurableRawsAreNamed ==
    \A r \in Raws :
        \/ queue[r] > 0
        \/ \E w \in Workers : wraw[w] = r
        \/ apc[r] = "ok200"
        => status[r] # "absent"

\* The scan lock is lost to its TTL and to nothing else: a run whose lock expired
\* under it does not delete the lock of its successor when it finishes.
LockIsLostToItsTTL ==
    [][\A s \in Scans :
         lock = s /\ held[s] /\ spc'[s] # "idle" /\ lock' # s
         => injected'["lockExpiry"] > injected["lockExpiry"]]_vars

-----------------------------------------------------------------------------
(* The inductive invariant: what the positions of the processes know of the *)
(* tables, which is what the properties above need to survive a step.       *)

\* A worker about to write 'duplicate' has seen the order in ods, and ods keeps it.
MarkIsJustified ==
    \A w \in Workers : wpc[w] = "markDuplicate" => HasOrder(wraw[w])

\* Past the build, a worker holds a row that was built.
BuiltIsBuildable ==
    \A w \in Workers :
        wpc[w] \in {"check", "commit"} => PayloadOf[wraw[w]] # "malformed"

\* The ids in the locals of scans and handlers are those of durable rows.
LocalsAreDurable ==
    /\ \A s \in Scans, r \in Raws : r \in stale[s] \cup page[s] => status[r] # "absent"
    /\ \A o \in Operators : opc[o] # "idle" => status[oraw[o]] # "absent"
    /\ \A r \in Raws : apc[r] \in {"reinsert", "refresh", "enqueue"} => status[r] # "absent"

\* The conjunction that every step preserves, with the safety properties above:
\* what a process read before another one moved is still true when it acts on it.
IInv ==
    /\ TypeOK
    /\ RowHasItsVerdict /\ TerminalIsTruthful
    /\ ProcessingIsTimed /\ OnlyDurableRawsAreNamed
    /\ MarkIsJustified /\ BuiltIsBuildable /\ LocalsAreDurable

-----------------------------------------------------------------------------
(* Properties that hold as long as scans exclude each other, claims do not *)
(* outlive the stale threshold, commits are acknowledged and one operator  *)
(* replays at a time.                                                      *)

Disturbing == {"slowWorker", "lockError", "lockExpiry", "lostAck"}
Undisturbed == (\A f \in Disturbing : injected[f] = 0) /\ injected["replay"] <= 1

\* One worker at most is past the claim of a Raw, and then the row says so: the
\* CAS together with the stale threshold is a lock.
SingleWriter ==
    Undisturbed => \A v, w \in Workers :
        wpc[v] \in Claimed /\ wpc[w] \in Claimed /\ wraw[v] = wraw[w]
        => v = w /\ status[wraw[v]] = "processing"

\* raw.status moves along the arrows of the lifecycle diagram only; processed
\* in particular is final.
Lifecycle == INSTANCE RawLifecycle
LifecycleSpec == Lifecycle!Init /\ [][Undisturbed' => Lifecycle!Next]_status

\* A landed order is never reported as failed, duplicate or unfinished.
RowMeansProcessed == Undisturbed => \A r \in ods : status[r] = "processed"

-----------------------------------------------------------------------------
(* Liveness under FairSpec. *)

\* Every Raw that was ever committed, whatever the client was answered, reaches
\* a terminal status, although the enqueue may always fail and faults occur.
EveryRawIsSettled == \A r \in Raws : status[r] # "absent" ~> status[r] \in Terminal

-----------------------------------------------------------------------------
(* What documents and comments of the repository say of the code.          *)

\* ADR-0015 and process.py: a Raw never collides with its own ODS row.
SelfCollisionUnreachable == \A r \in Raws : status[r] = "duplicate" => r \notin ods

\* design/ingestion.md and api_responses.py: a processed record is never replayed.
ProcessedIsFinal ==
    [][\A r \in Raws : status[r] = "processed" => status'[r] = "processed"]_vars
=============================================================================
