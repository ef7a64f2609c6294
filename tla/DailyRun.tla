------------------------------ MODULE DailyRun ------------------------------
(***************************************************************************)
(* The DAG orders_analytics_daily, one run at a time: extract_ods_to_bq    *)
(* copies ods and quality_events to BigQuery staging, then dbt builds      *)
(* stg_ (Silver), tests it, rebuilds int_ and the marts (Gold), and brings *)
(* the event report up to date.  A table is the set of its keys: staging   *)
(* only appends and stg_ removes the copies.                               *)
(***************************************************************************)
EXTENDS QualityLog

CONSTANTS
    Lookback,    \* stg_*_lookback_days, and rpt_quality_events_lookback_days
    ReconWindow, \* stg_*_recon_window_days
    GatePercent, \* threshold of hard_gate_latest_batch_error_rate
    WithReports  \* BOUND: whether the last layer, which nothing reads, is built

ASSUME DailyRunAssumption ==
    /\ Lookback \in Nat /\ ReconWindow \in Nat
    /\ ReconWindow > Lookback
    /\ GatePercent \in Nat \ {0}
    /\ WithReports \in BOOLEAN

VARIABLES
    layer,    \* the layer the run is at
    todo,     \* its tables that are still to be built
    staging,  \* staging[t]: keys in ecommerce_staging
    silver,   \* silver[t]: keys in stg_orders, stg_quality_events
    int,      \* int.clean = int_orders, int.held = int_orders_quarantine,
              \* int.rejected: its rows in state permanently_rejected
    gold,     \* fct_orders
    reported, \* keys of the events that rpt_quality_events_daily counts
    began,    \* the day the run began
    builtAt,  \* builtAt[b]: day of the last incremental build of b; NotYet
    readAt,   \* readAt[b]: day that build's run began
    apart     \* apart[b]: most days from a run to the next build that followed it

warehouse == <<staging, silver, int, gold, reported>>
history == <<builtAt, readAt, apart>>
runVars == <<layer, todo, warehouse, began, history>>

Tables == {"orders", "events"}
Incremental == Tables \cup {"report"}
Layers == {"idle", "extract", "staging", "gate", "intermediate", "marts", "reports"}
Work(l) == CASE l \in {"extract", "staging"} -> Tables
             [] l = "intermediate" -> {"clean", "held"}
             [] OTHER -> {}

\* Keys of the source tables, and the instant that decides their partition.
Source(t) == IF t = "orders" THEN ods ELSE events
At(t, k) == IF t = "orders" THEN stamp[k] ELSE log[k].tick
DayOf(t, k) == Day(At(t, k))

DailyRunTypeOK ==
    /\ layer \in Layers
    /\ todo \subseteq Work(layer)
    /\ staging \in [Tables -> SUBSET Nat] /\ silver \in [Tables -> SUBSET Nat]
    /\ \A t \in Tables : staging[t] \subseteq Source(t) /\ silver[t] \subseteq staging[t]
    /\ int \in [{"clean", "held", "rejected"} -> SUBSET Raws]
    /\ gold \subseteq Raws /\ reported \subseteq events
    /\ began \in 0..Today
    /\ builtAt \in [Incremental -> 0..Today \cup {NotYet}]
    /\ readAt \in [Incremental -> 0..Today \cup {NotYet}]
    /\ apart \in [Incremental -> 0..Today]

DailyRunInit ==
    /\ layer = "idle" /\ todo = {}
    /\ staging = [t \in Tables |-> {}] /\ silver = [t \in Tables |-> {}]
    /\ int = [t \in {"clean", "held", "rejected"} |-> {}]
    /\ gold = {} /\ reported = {}
    /\ began = 0
    /\ builtAt = [b \in Incremental |-> NotYet] /\ readAt = builtAt
    /\ apart = [b \in Incremental |-> 0]

GoTo(l) == layer' = l /\ todo' = Work(l)

\* One table of the layer is done; after the last one the next layer begins.
Done(x, next) ==
    /\ layer' = IF todo = {x} THEN next ELSE layer
    /\ todo' = IF todo = {x} THEN Work(next) ELSE todo \ {x}

-----------------------------------------------------------------------------
\* Scheduled, caught up after a boot or triggered by hand: at any instant.
StartRun ==
    /\ layer = "idle"
    /\ GoTo("extract")
    /\ began' = Today
    /\ UNCHANGED <<warehouse, history>>

\* Mutant of Slice: the boundary is not read again.
SliceAfter(t) ==
    {k \in Source(t) : \A old \in staging[t] : DayOf(t, k) > DayOf(t, old)}

\* time_col >= watermark, the start of the latest partition in staging.
Slice(t) ==
    {k \in Source(t) : \A old \in staging[t] : DayOf(t, k) >= DayOf(t, old)}

Extract(t) ==
    /\ layer = "extract" /\ t \in todo
    /\ staging' = [staging EXCEPT ![t] = @ \cup Slice(t)]
    /\ Done(t, "staging")
    /\ UNCHANGED <<silver, int, gold, reported, began, history>>

\* Mutants of InWindow: the left edge is an instant within a day; it is outside.
InWindowUntruncated(t, k, days) == At(t, k) >= tick - days * TicksPerDay

InWindowExclusive(t, k, days) == DayOf(t, k) > Today - days

InWindow(t, k, days) == DayOf(t, k) >= Today - days

\* insert_overwrite: each partition that occurs in the result replaces the old
\* one.  The first build of b reads everything.
Overwritten(t, b, read, old) ==
    LET fresh == {k \in read : builtAt[b] = NotYet \/ InWindow(t, k, Lookback)}
        days == {DayOf(t, k) : k \in fresh}
    IN fresh \cup {k \in old : DayOf(t, k) \notin days}

Rebuilt(t) == Overwritten(t, t, staging[t], silver[t])

Larger(m, n) == IF m > n THEN m ELSE n

\* b has been built in this run, today.
BuildIsNoted(b) ==
    /\ builtAt' = [builtAt EXCEPT ![b] = Today]
    /\ readAt' = [readAt EXCEPT ![b] = began]
    /\ apart' = [apart EXCEPT ![b] = IF builtAt[b] = NotYet THEN @ ELSE Larger(@, Today - readAt[b])]

BuildStg(t) ==
    /\ layer = "staging" /\ t \in todo
    /\ silver' = [silver EXCEPT ![t] = Rebuilt(t)]
    /\ BuildIsNoted(t)
    /\ Done(t, "gate")
    /\ UNCHANGED <<staging, int, gold, reported, began>>

\* assert_stg_*_matches_staging, per partition of the reconciliation window.
Reconciles(t) ==
    \A k \in staging[t] \ silver[t] : ~InWindow(t, k, ReconWindow)

LatestBatch ==
    {r \in silver.orders : \A q \in silver.orders : DayOf("orders", q) <= DayOf("orders", r)}

\* hard_gate_latest_batch_error_rate.
HardGate ==
    LatestBatch # {} =>
    100 * Cardinality({r \in LatestBatch : IsDirty(r)}) < GatePercent * Cardinality(LatestBatch)

TestsPass == (\A t \in Tables : Reconciles(t)) /\ HardGate

Gate ==
    /\ layer = "gate"
    /\ GoTo(IF TestsPass THEN "intermediate" ELSE "idle")
    /\ UNCHANGED <<warehouse, began, history>>

\* Mutant of EffectivelyClean: the snapshot alone.
EffectivelyCleanSnapshot(r) == ~IsDirty(r)

\* The snapshot in ods and the latest event; without an event the snapshot.
EffectivelyClean(r) == ~IsDirty(r) \/ StateIn(r, silver.events) = "promoted"

\* Mutant of Held: an inner join with the events.
HeldWithEvents == {r \in silver.orders : EventsOf(r, silver.events) # {} /\ ~EffectivelyClean(r)}

Held == {r \in silver.orders : ~EffectivelyClean(r)}

\* Mutant of BuildInt: the int_ tables are incremental too, so a row outside the
\* window stays where it is.
BuildIntIncremental(m) ==
    LET left == {r \in int.clean \cup int.held : ~InWindow("orders", r, Lookback)}
        read == silver.orders \ left
    IN /\ layer = "intermediate" /\ m \in todo
       /\ int' = IF m = "clean"
                 THEN [int EXCEPT !.clean = {r \in read : EffectivelyClean(r)} \cup (@ \cap left)]
                 ELSE [int EXCEPT !.held = (Held \cap read) \cup (@ \cap left),
                          !.rejected = {r \in Held \cap read :
                              StateIn(r, silver.events) = "permanently_rejected"} \cup (@ \cap left)]
       /\ Done(m, "marts")
       /\ UNCHANGED <<staging, silver, gold, reported, began, history>>

\* Both int_ tables are built anew from the whole of Silver.
BuildInt(m) ==
    /\ layer = "intermediate" /\ m \in todo
    /\ int' = IF m = "clean"
              THEN [int EXCEPT !.clean = {r \in silver.orders : EffectivelyClean(r)}]
              ELSE [int EXCEPT !.held = Held,
                       !.rejected = {r \in Held :
                           StateIn(r, silver.events) = "permanently_rejected"}]
    /\ Done(m, "marts")
    /\ UNCHANGED <<staging, silver, gold, reported, began, history>>

BuildMarts ==
    /\ layer = "marts"
    /\ gold' = int.clean
    /\ GoTo(IF WithReports THEN "reports" ELSE "idle")
    /\ UNCHANGED <<staging, silver, int, reported, began, history>>

\* Mutant of Reported: the window begins with the last build's own day.
ReportedSinceBuild ==
    {k \in silver.events : builtAt["report"] # NotYet => DayOf("events", k) > builtAt["report"]}
    \cup reported

\* rpt_quality_events_daily: a third window, with its own look at the clock.
Reported == Overwritten("events", "report", silver.events, reported)

BuildReport ==
    /\ layer = "reports"
    /\ reported' = Reported
    /\ BuildIsNoted("report")
    /\ GoTo("idle")
    /\ UNCHANGED <<staging, silver, int, gold, began>>

\* A task fails (extract after its retries, dbt at once): what was built stays.
RunFails ==
    /\ layer # "idle"
    /\ Spend("runFails")
    /\ GoTo("idle")
    /\ UNCHANGED <<tick, stamp, log, rules, warehouse, began, history>>

RunStep ==
    \/ StartRun \/ Gate \/ BuildMarts \/ BuildReport
    \/ \E t \in Tables : Extract(t) \/ BuildStg(t)
    \/ \E m \in {"clean", "held"} : BuildInt(m)
=============================================================================
