---------------------------- MODULE Reevaluation ----------------------------
(***************************************************************************)
(* reevaluate_quality.py --commit, triggered by hand after new rules are   *)
(* deployed: candidates from the int_ tables in BigQuery, their states     *)
(* from quality_events in PostgreSQL, and one transaction that appends the *)
(* transitions.                                                            *)
(***************************************************************************)
EXTENDS DailyRun

VARIABLES
    step,     \* where the job is
    using,    \* the rules its process was started with
    listed,   \* listed[r]: rows of the candidate query that name r
    known,    \* current_states; None when the query does not know the row
    planned   \* the events of plan_events, in order

jobVars == <<step, using, listed, known, planned>>

JobSteps == {"idle", "fetch", "plan", "append"}

ReevaluationTypeOK ==
    /\ step \in JobSteps
    /\ using \in {"strict", "lenient"}
    /\ listed \in [Raws -> 0..2]
    /\ known \in [Raws -> States \cup {None}]
    /\ planned \in Seq(EventType)

NoStates == [r \in Raws |-> None]

ReevaluationInit ==
    /\ step = "idle"
    /\ using = "strict"
    /\ listed = [r \in Raws |-> 0]
    /\ known = NoStates
    /\ planned = << >>

\* The locals of a process that has ended.
Ended ==
    /\ step' = "idle"
    /\ using' = "strict"
    /\ listed' = [r \in Raws |-> 0]
    /\ known' = NoStates
    /\ planned' = << >>

\* One row from each of the two tables of the UNION ALL; while dbt rebuilds
\* them one after the other, a row can be in both, or in none.
Listed(r) ==
    IF ~IsDirty(r) THEN 0
    ELSE (IF r \in int.clean THEN 1 ELSE 0) + (IF r \in int.held \ int.rejected THEN 1 ELSE 0)

\* ORDER BY raw_id LIMIT n: the candidates up to some raw_id.
ReadCandidates ==
    /\ step = "idle"
    /\ Spend("reevaluate")
    /\ using' = rules
    /\ \E last \in Raws : listed' = [r \in Raws |-> IF r <= last THEN Listed(r) ELSE 0]
    /\ step' = "fetch"
    /\ UNCHANGED <<tick, stamp, log, rules, runVars, known, planned>>

\* Mutant of CurrentState: the mirror in BigQuery is asked.
MirroredState(r) == StateIn(r, silver.events)

CurrentState(r) == StateOf(r)

FetchStates ==
    /\ step = "fetch"
    /\ known' = [r \in Raws |-> IF listed[r] > 0 THEN CurrentState(r) ELSE None]
    /\ step' = "plan"
    /\ UNCHANGED <<pgVars, runVars, using, listed, planned>>

\* business_clean finds an error now, with the rules in use; it finds none where
\* ingestion has normalised the value away.
HasNewErrors(r) == Kind[r] = "strictOnly" /\ using = "strict"

\* Mutant of IsBlocked: the evidence that is gone counts as passed.
NeverBlocked(r) == FALSE

IsBlocked(r) == Kind[r] = "normalised"

\* Mutant of IsFinal: a rejected row is judged like any other.
NeverFinal(state) == FALSE

IsFinal(state) == state = "permanently_rejected"

\* decide_target_state; None when there is no transition to record.
Decide(r, state) ==
    LET clean == ~HasNewErrors(r) /\ ~IsBlocked(r)
    IN CASE IsFinal(state) -> None
         [] ~IsFinal(state) /\ clean /\ state # "promoted" -> "promoted"
         [] ~IsFinal(state) /\ ~clean /\ state = "promoted" -> "re_quarantined"
         [] OTHER -> None

\* Mutant of Changing: unchanged rows are not skipped.
ChangingOrNot == {x \in Raws \X (1..2) : x[2] <= listed[x[1]]}

\* The listed rows, with their multiplicity, that change their state.
Changing ==
    {x \in Raws \X (1..2) : x[2] <= listed[x[1]] /\ Decide(x[1], known[x[1]]) # None}

\* The order in which the candidates are read and judged.
Before(x, y) == 2 * x[1] + x[2] < 2 * y[1] + y[2]

EventFor(r) == [raw |-> r, from |-> known[r], to |-> Decide(r, known[r]),
                tick |-> tick, rank |-> PlannedRank]

\* One event for each listed row that changes its state, all with one event_at.
Plan ==
    /\ step = "plan"
    /\ \E rows \in [1..Cardinality(Changing) -> Changing] :
          /\ \A i, j \in DOMAIN rows : i < j => Before(rows[i], rows[j])
          /\ planned' = [i \in DOMAIN rows |-> EventFor(rows[i][1])]
    /\ step' = "append"
    /\ UNCHANGED <<pgVars, runVars, using, listed, known>>

\* One transaction for the batch.
AppendEvents ==
    /\ step = "append"
    /\ log' = log \o planned
    /\ Ended
    /\ UNCHANGED <<tick, stamp, rules, budget, runVars>>

\* BigQuery or PostgreSQL fails: nothing is written and nothing is retried.
JobFails ==
    /\ step # "idle"
    /\ Spend("jobFails")
    /\ Ended
    /\ UNCHANGED <<tick, stamp, log, rules, runVars>>

JobStep == FetchStates \/ Plan \/ AppendEvents
=============================================================================
