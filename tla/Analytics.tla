----------------------------- MODULE Analytics -----------------------------
(***************************************************************************)
(* PostgreSQL, the daily run and the re-evaluation job side by side.       *)
(***************************************************************************)
EXTENDS Reevaluation

CONSTANT
    Overlaps  \* "reject": an operator may reject between the job's read and write;
              \* "torn": the job may read while a row is in both int_ tables, which are
              \* built one after the other, or one of them not at all

ASSUME OverlapsAssumption == Overlaps \subseteq {"reject", "torn"}

vars == <<pgVars, runVars, jobVars>>

Init == QualityLogInit /\ DailyRunInit /\ ReevaluationInit

RejectNow(r) ==
    /\ step # "idle" => "reject" \in Overlaps
    /\ Reject(r)

ReadNow ==
    /\ int.clean \cap int.held # {} => "torn" \in Overlaps
    /\ ReadCandidates

\* Midnight between the job's now() and its commit.
CommitsLate == step = "append" /\ planned # << >> /\ Day(tick + 1) > Today

TickNow ==
    /\ Tick
    /\ IF CommitsLate THEN Spend("late") ELSE UNCHANGED budget

PgNext ==
    /\ \/ TickNow \/ Deploy
       \/ \E r \in Raws : Land(r) \/ LandLate(r) \/ RejectNow(r)
    /\ UNCHANGED <<runVars, jobVars>>

RunNext ==
    \/ RunStep /\ UNCHANGED <<pgVars, jobVars>>
    \/ RunFails /\ UNCHANGED jobVars

JobNext == ReadNow \/ JobStep \/ JobFails

Next == PgNext \/ RunNext \/ JobNext

Spec == Init /\ [][Next]_vars

-----------------------------------------------------------------------------
\* Every variable has its type.
TypeOK == QualityLogTypeOK /\ DailyRunTypeOK /\ ReevaluationTypeOK

\* No transaction has committed after midnight with a timestamp from before.
NoneLate == \A b \in Budgets : budget["late"] = b["late"]

\* The watermark passes over no row: what is committed in PostgreSQL is in
\* staging or will be read by the next extraction, however runs fail and
\* whatever commits while one of them reads.
NothingIsPassedOver ==
    NoneLate => \A t \in Tables : Source(t) \subseteq staging[t] \cup Slice(t)

\* insert_overwrite never takes a row out of Silver or out of the report, at
\* whatever time of the day a run builds (the incident of 2026-08-30).
OverwriteKeepsRows ==
    [][/\ \A t \in Tables : silver[t] \subseteq silver'[t]
       /\ reported \subseteq reported']_vars

\* Rows in staging that no build will take into Silver any more.
Passed(t) == {k \in staging[t] \ silver[t] : builtAt[t] # NotYet /\ ~InWindow(t, k, Lookback)}

\* The lookback window forgives failures: a row stays out of Silver for good only
\* when more than Lookback days lie between a run and the next build.
ShortGapLosesNothing ==
    NoneLate => \A t \in Tables :
        Passed(t) # {} => Larger(apart[t], Today - readAt[t]) > Lookback

\* The report counts every event of Silver, although its window is not that of
\* stg_quality_events: it looks at the clock later, maybe after midnight, and is not
\* built at all when the gate stops a run.  What it misses for good lies behind
\* a gap of more than Lookback days between a run that built it and the next build.
ReportMissesOnlyGaps ==
    NoneLate /\ builtAt["report"] # NotYet
             /\ (\E k \in silver.events \ reported : ~InWindow("events", k, Lookback))
    => Larger(apart["report"], Today - readAt["report"]) > Lookback

\* Every event records a change, from the state the row really had before.
EventsAreTransitions ==
    \A i \in events :
        LET before == {j \in events : log[j].raw = log[i].raw /\ NoLater(j, i)} \ {i}
        IN log[i].from = StateIn(log[i].raw, before) /\ log[i].to # log[i].from

\* The states that the log implies move along the edges of the diagram: no
\* automated task leaves permanently_rejected, whatever BigQuery still shows.
Lifecycle == INSTANCE QualityStates WITH state <- [r \in Raws |-> StateOf(r)]
LifecycleSpec == Lifecycle!Spec

\* A row whose bad value was normalised away never reaches Gold: passing the
\* rules without the evidence is not a promotion.
GoldHasItsValues == \A r \in gold : Kind[r] # "normalised"

\* What the marts are built from is a partition of Silver, although either int_
\* table is built alone and a row may come without its events: no row of Silver
\* is missing and none is there twice (assert_orders_split_is_partition).
SplitIsPartition ==
    layer = "marts" => /\ int.clean \cup int.held = silver.orders
                       /\ int.clean \cap int.held = {}

\* A run that gets through leaves Gold as the states in PostgreSQL say, for every
\* row of Silver whose events Silver has too: also for one that was promoted, demoted
\* or rejected when it had long left every window, or while the gate was closed.
GoldFollowsStates ==
    [][BuildMarts =>
       \A r \in Raws : EventsOf(r, events) \subseteq silver.events =>
           (r \in gold' <=> r \in silver.orders /\ StateOf(r) \in {"clean", "promoted"})]_vars

-----------------------------------------------------------------------------
(* What documents of the repository say of the code. *)

\* quarantine-writeoff.md: a rejection is terminal, the automated task never
\* overrides it.
RejectionIsFinal ==
    [][\A r \in Raws : StateOf(r) = "permanently_rejected"
                        => StateOf(r)' = "permanently_rejected"]_vars
=============================================================================
