------------------------------ MODULE OrderApi ------------------------------
(***************************************************************************)
(* The two state-changing endpoints of main.py.  Each Raw is the product   *)
(* of one POST /orders handler (create_order), so handlers are indexed by  *)
(* the Raw they insert; POST /process_raw runs on behalf of Operators.     *)
(* Validation, authentication and rate limiting come before any of this    *)
(* and change no table.                                                    *)
(***************************************************************************)
EXTENDS OrderStore

CONSTANT Operators   \* concurrent POST /process_raw handlers

VARIABLES
    apc,   \* where the create_order handler of each Raw is
    atry,  \* its attempt at the Raw write
    opc,   \* where each process_raw handler is
    oraw   \* the raw_id it was called with

apiVars == <<apc, atry, opc, oraw>>

Unasked == 0

\* "reinsert": the row is in, its ack was lost, the next try inserts it again.
Answered == {"ok200", "err500", "err503", "died"}
ApiPcs == {"idle", "insert", "reinsert", "refresh", "enqueue"} \cup Answered

ApiTypeOK ==
    /\ apc \in [Raws -> ApiPcs]
    /\ atry \in [Raws -> 1..Attempts]
    /\ opc \in [Operators -> {"idle", "checked", "dispatch"}]
    /\ oraw \in [Operators -> Raws \cup {Unasked}]
    /\ \A o \in Operators : opc[o] # "idle" => oraw[o] \in Raws

ApiInit ==
    /\ apc = [r \in Raws |-> "idle"]
    /\ atry = [r \in Raws |-> 1]
    /\ opc = [o \in Operators |-> "idle"]
    /\ oraw = [o \in Operators |-> Unasked]

createVars == <<apc, atry>>
replayVars == <<opc, oraw>>

Answer(r, pc) ==
    /\ apc' = [apc EXCEPT ![r] = pc]
    /\ atry' = [atry EXCEPT ![r] = 1]
    /\ UNCHANGED replayVars

\* The next attempt, at pc; after the last one the OperationalError is a 500.
RetryOr500(r, pc) ==
    /\ IF atry[r] < Attempts
       THEN /\ apc' = [apc EXCEPT ![r] = pc]
            /\ atry' = [atry EXCEPT ![r] = @ + 1]
       ELSE /\ apc' = [apc EXCEPT ![r] = "err500"]
            /\ atry' = [atry EXCEPT ![r] = 1]
    /\ UNCHANGED replayVars

-----------------------------------------------------------------------------
Post(r) ==
    /\ apc[r] = "idle"
    /\ Answer(r, "insert")
    /\ UNCHANGED storeVars

Insert(r) ==
    /\ apc[r] = "insert"
    /\ InsertRaw(r)
    /\ apc' = [apc EXCEPT ![r] = "refresh"]
    /\ UNCHANGED <<atry, replayVars, queue, injected>>

\* Mutant of InsertFails: the failed write is swallowed and the order dispatched.
InsertFailsUnseen(r) ==
    /\ apc[r] = "insert"
    /\ Inject("dbError")
    /\ Answer(r, "enqueue")
    /\ UNCHANGED <<tables, queue>>

InsertFails(r) ==
    /\ apc[r] = "insert"
    /\ Inject("dbError")
    /\ RetryOr500(r, "insert")
    /\ UNCHANGED <<tables, queue>>

InsertAckLost(r) ==
    /\ apc[r] = "insert"
    /\ InsertRaw(r)
    /\ Inject("lostAck")
    /\ RetryOr500(r, "reinsert")
    /\ UNCHANGED queue

\* The transient Raw keeps its id: IntegrityError, which nothing catches.
Reinsert(r) ==
    /\ apc[r] = "reinsert"
    /\ Answer(r, "err500")
    /\ UNCHANGED storeVars

Refresh(r) ==
    /\ apc[r] = "refresh"
    /\ Answer(r, "enqueue")
    /\ UNCHANGED storeVars

\* The commit is acknowledged: the next attempt only refreshes again.
RefreshFails(r) ==
    /\ apc[r] = "refresh"
    /\ Inject("dbError")
    /\ RetryOr500(r, "refresh")
    /\ UNCHANGED <<tables, queue>>

\* SATimeoutError: no connection from the pool for the write or the refresh.
PoolTimeout(r) ==
    /\ apc[r] \in {"insert", "reinsert", "refresh"}
    /\ Inject("dbError")
    /\ Answer(r, "err503")
    /\ UNCHANGED <<tables, queue>>

EnqueueNew(r) ==
    /\ apc[r] = "enqueue"
    /\ Enqueue(r)
    /\ Answer(r, "ok200")
    /\ UNCHANGED <<tables, injected>>

ApiCrash(r) ==
    /\ apc[r] \in {"insert", "reinsert", "refresh", "enqueue"}
    /\ Inject("crash")
    /\ Answer(r, "died")
    /\ UNCHANGED <<tables, queue>>

-----------------------------------------------------------------------------
EndReplay(o) ==
    /\ opc' = [opc EXCEPT ![o] = "idle"]
    /\ oraw' = [oraw EXCEPT ![o] = Unasked]
    /\ UNCHANGED createVars

Asked(o, r, pc) ==
    /\ opc[o] = "idle"
    /\ Inject("replay")
    /\ opc' = [opc EXCEPT ![o] = pc]
    /\ oraw' = [oraw EXCEPT ![o] = r]
    /\ UNCHANGED <<createVars, tables, queue>>

\* Mutant of ForceCheck: force=true accepts every existing row.
ForceCheckAny(o, r) ==
    /\ status[r] # "absent"
    /\ Asked(o, r, "checked")

\* force=true passes its guard: the SELECT saw error or duplicate.
ForceCheck(o, r) ==
    /\ status[r] \in {"error", "duplicate"}
    /\ Asked(o, r, "checked")

\* force=false: an existing row, whatever its status, is only dispatched.
Replay(o, r) ==
    /\ status[r] # "absent"
    /\ Asked(o, r, "dispatch")

\* UPDATE raw SET status = 'pending' WHERE id = r: the guard is not repeated.
ForceReset(o) ==
    /\ opc[o] = "checked"
    /\ UpdateStatus(oraw[o], "pending")
    /\ opc' = [opc EXCEPT ![o] = "dispatch"]
    /\ UNCHANGED <<createVars, oraw, queue, injected>>

ForceResetFails(o) ==
    /\ opc[o] = "checked"
    /\ \/ Inject("dbError") /\ UNCHANGED tables
       \/ Inject("lostAck") /\ UpdateStatus(oraw[o], "pending")
    /\ EndReplay(o)
    /\ UNCHANGED queue

ReplayDispatch(o) ==
    /\ opc[o] = "dispatch"
    /\ Enqueue(oraw[o])
    /\ EndReplay(o)
    /\ UNCHANGED <<tables, injected>>

CreateStep(r) == Insert(r) \/ Reinsert(r) \/ Refresh(r) \/ EnqueueNew(r)
CreateFault(r) ==
    InsertFails(r) \/ InsertAckLost(r) \/ RefreshFails(r) \/ PoolTimeout(r) \/ ApiCrash(r)
ReplayStep(o) == ForceReset(o) \/ ReplayDispatch(o)
ReplayCall(o) == \E r \in Raws : ForceCheck(o, r) \/ Replay(o, r)
=============================================================================
