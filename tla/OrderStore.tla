----------------------------- MODULE OrderStore -----------------------------
(***************************************************************************)
(* What the processes of the ingestion path share: the three PostgreSQL    *)
(* tables of models.py, the Celery broker (Redis) that carries             *)
(* tasks.process_raw_event messages, and a count of environment faults.    *)
(* The components OrderApi, OrderWorker and RecoveryScan extend it.        *)
(*                                                                         *)
(* A transaction is one step, taken when it commits: PostgreSQL runs the   *)
(* sessions of database.py under READ COMMITTED, so a SELECT and a later   *)
(* UPDATE of the same session are two steps that see two states.           *)
(***************************************************************************)
EXTENDS Naturals, FiniteSets

CONSTANTS
    Raws,        \* raw.id values, in insertion order (SERIAL, from 1)
    OrderOf,     \* the order_id each Raw carries
    PayloadOf,   \* what processing makes of each Raw's payload
    Attempts,    \* tries of every retry loop (all MAX_*_RETRIES are 3)
    MaxMsgs,     \* BOUND: copies of one message the broker keeps; more are
                 \* merged, a further copy being one more claim that misses
    FaultBudgets \* BOUND: each a number of times for every fault; a behaviour stays
                 \* within one of them

Payloads == {"clean", "dirty", "malformed", "unstorable"}
Statuses == {"absent", "pending", "processing", "processed", "error", "duplicate"}
Terminal == {"processed", "error", "duplicate"}
Ages == {"null", "fresh", "old"}

Faults == {"dbError",    \* OperationalError: the transaction did not happen
           "lostAck",    \* OperationalError, but the server had committed
           "procError",  \* a transient exception while building the ODS row
           "slowWorker", \* a live worker outlives STALE_PROCESSING_MINUTES
           "crash",      \* a process dies between two steps
           "loseQueue",  \* Redis restarts; it persists nothing
           "redeliver",  \* visibility_timeout passes while a worker still runs
           "publish",    \* the scan's apply_async raises
           "lockError",  \* Redis fails while the scan lock is taken
           "lockExpiry", \* the lock's TTL passes while its holder still runs
           "replay"}     \* an operator calls POST /process_raw

ASSUME StoreAssumption ==
    /\ Raws \subseteq Nat \ {0}
    /\ PayloadOf \in [Raws -> Payloads]
    /\ Attempts \in Nat \ {0}
    /\ MaxMsgs \in Nat \ {0}
    /\ FaultBudgets \subseteq [Faults -> Nat]

VARIABLES
    status,      \* raw.status; "absent" until the INSERT commits
    receivedAge, \* raw.received_at against PENDING_GRACE_SECONDS
    startedAge,  \* raw.processing_started_at against STALE_PROCESSING_MINUTES
    ods,         \* the Raws that have a row in ods (the row's raw_id)
    verdicts,    \* quality_events: how many initial_evaluation events with
                 \* each to_state the Raw has
    queue,       \* messages waiting in the broker, per Raw
    injected     \* faults the environment has injected so far

tables == <<status, receivedAge, startedAge, ods, verdicts>>
storeVars == <<tables, queue, injected>>

ToStates == {"clean", "quarantined"}

StoreTypeOK ==
    /\ status \in [Raws -> Statuses]
    /\ receivedAge \in [Raws -> Ages]
    /\ startedAge \in [Raws -> Ages]
    /\ ods \subseteq Raws
    /\ verdicts \in [Raws -> [ToStates -> Nat]]
    /\ queue \in [Raws -> 0..MaxMsgs]
    /\ injected \in [Faults -> Nat]

StoreInit ==
    /\ status = [r \in Raws |-> "absent"]
    /\ receivedAge = [r \in Raws |-> "null"]
    /\ startedAge = [r \in Raws |-> "null"]
    /\ ods = {}
    /\ verdicts = [r \in Raws |-> [v \in ToStates |-> 0]]
    /\ queue = [r \in Raws |-> 0]
    /\ injected = [f \in Faults |-> 0]

-----------------------------------------------------------------------------
(* Transactions on the tables. *)

\* Mutant of Conflicts: no UNIQUE(ods.order_id).
ConflictsOfRaw(r) == {s \in ods : s = r}

\* UNIQUE(ods.raw_id) and UNIQUE(ods.order_id): the rows an insert of r meets.
Conflicts(r) == {s \in ods : s = r \/ OrderOf[s] = OrderOf[r]}

\* SELECT ods WHERE order_id = ...: the row, if any, that already holds r's order.
HasOrder(r) == \E s \in ods : OrderOf[s] = OrderOf[r]

SetStatus(r, new) == status' = [status EXCEPT ![r] = new]

\* INSERT INTO raw: the column defaults.
InsertRaw(r) ==
    /\ SetStatus(r, "pending")
    /\ receivedAge' = [receivedAge EXCEPT ![r] = "fresh"]
    /\ UNCHANGED <<startedAge, ods, verdicts>>

\* An UPDATE of raw.status alone, with nothing but the id in its WHERE.
UpdateStatus(r, new) ==
    /\ SetStatus(r, new)
    /\ UNCHANGED <<receivedAge, startedAge, ods, verdicts>>

\* The initial_evaluation event's to_state.
VerdictOf(r) == IF PayloadOf[r] = "dirty" THEN "quarantined" ELSE "clean"

-----------------------------------------------------------------------------
(* The broker. *)

Publish(r) == queue' = [queue EXCEPT ![r] = IF @ < MaxMsgs THEN @ + 1 ELSE @]

(***************************************************************************)
(* main._enqueue: whatever the broker or the circuit breaker does, it      *)
(* returns; the message is out, or it is not.                              *)
(***************************************************************************)
Enqueue(r) == Publish(r) \/ UNCHANGED queue

OneMore(f) == [injected EXCEPT ![f] = @ + 1]
CanInject(f) == \E b \in FaultBudgets : \A g \in Faults : OneMore(f)[g] <= b[g]
Inject(f) == CanInject(f) /\ injected' = OneMore(f)

\* Redis runs without appendonly: a restart empties the queue.

LoseQueue ==
    /\ \E r \in Raws : queue[r] > 0
    /\ Inject("loseQueue")
    /\ queue' = [r \in Raws |-> 0]
    /\ UNCHANGED tables

\* received_at < now - PENDING_GRACE_SECONDS becomes true.
GracePasses(r) ==
    /\ receivedAge[r] = "fresh"
    /\ receivedAge' = [receivedAge EXCEPT ![r] = "old"]
    /\ UNCHANGED <<status, startedAge, ods, verdicts, queue, injected>>
=============================================================================
