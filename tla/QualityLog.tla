----------------------------- MODULE QualityLog -----------------------------
(***************************************************************************)
(* PostgreSQL as the analytics side sees it: the rows of ods with their    *)
(* received_at, and the append-only log quality_events, the authority on   *)
(* the quality state of every row.  Rows arrive by the success transaction *)
(* of the ingestion path (the Land of OdsLedger, here with its timestamp). *)
(***************************************************************************)
EXTENDS Integers, Sequences, FiniteSets

CONSTANTS
    Raws,        \* raw ids
    Kind,        \* Kind[r] \in Kinds
    TicksPerDay, \* instants a UTC day is divided in
    Horizon,     \* the last instant of the instance
    Budgets      \* how often each event of Budgeted may happen: one of these, at the start

Kinds == {"clean",       \* passes every version of the rules
          "strictOnly",  \* has an error under the strict rules only
          "normalised"}  \* its evidence is gone: a code of NON_REPRODUCIBLE_CODES

Budgeted == {"late", "deploy", "reject", "reevaluate", "runFails", "jobFails"}

ASSUME QualityLogAssumption ==
    /\ Raws \subseteq Nat /\ IsFiniteSet(Raws)
    /\ Kind \in [Raws -> Kinds]
    /\ TicksPerDay \in Nat \ {0} /\ Horizon \in Nat
    /\ Budgets \subseteq [Budgeted -> Nat]
    /\ \A a, b \in Budgets : a["late"] = b["late"]

VARIABLES
    tick,   \* now
    stamp,  \* ods.received_at; NotYet when r is not in ods
    log,    \* quality_events in the order of their ids
    rules,  \* the version of the rules that is deployed
    budget

pgVars == <<tick, stamp, log, rules, budget>>

NotYet == -1
Day(t) == t \div TicksPerDay
Today == Day(tick)

ods == {r \in Raws : stamp[r] # NotYet}
events == DOMAIN log

States == {"clean", "quarantined", "promoted", "re_quarantined", "permanently_rejected"}
None == "none"

\* event_at is kept twice: its instant, for the partitions, and its rank among
\* the events, which decides the latest.
EventType == [raw : Raws, from : States \cup {None}, to : States,
              tick : 0..Horizon, rank : Nat]

QualityLogTypeOK ==
    /\ tick \in 0..Horizon
    /\ stamp \in [Raws -> 0..Horizon \cup {NotYet}]
    /\ log \in Seq(EventType)
    /\ rules \in {"strict", "lenient"}
    /\ budget \in [Budgeted -> Nat]

QualityLogInit ==
    /\ tick = 0
    /\ stamp = [r \in Raws |-> NotYet]
    /\ log = << >>
    /\ rules = "strict"
    /\ budget \in Budgets

Spend(what) ==
    /\ budget[what] > 0
    /\ budget' = [budget EXCEPT ![what] = @ - 1]

\* ORDER BY event_at, id.
NoLater(i, j) ==
    \/ log[i].rank < log[j].rank
    \/ log[i].rank = log[j].rank /\ i <= j

EventsOf(r, ids) == {i \in ids : log[i].raw = r}

\* to_state of the latest event of r among ids; None when it has none.
StateIn(r, ids) ==
    LET own == EventsOf(r, ids)
    IN IF own = {} THEN None ELSE log[CHOOSE i \in own : \A j \in own : NoLater(j, i)].to

StateOf(r) == StateIn(r, events)

\* has_clean_error: the snapshot taken at ingestion, which never changes.
IsDirty(r) == \E i \in events : log[i].raw = r /\ log[i].from = None /\ log[i].to = "quarantined"

\* business_clean finds an error at ingestion, with the rules v.
Fails(r, v) == Kind[r] = "normalised" \/ (Kind[r] = "strictOnly" /\ v = "strict")

\* An event whose event_at is the time of its INSERT comes after every event
\* there is, and after those that are planned and not written yet.
NowRank == 2 * Len(log) + 2
PlannedRank == 2 * Len(log) + 1

-----------------------------------------------------------------------------
Tick ==
    /\ tick < Horizon
    /\ tick' = tick + 1
    /\ UNCHANGED <<stamp, log, rules>>

\* ODS row and initial event in one transaction, with one now().
LandAt(r, t) ==
    /\ stamp[r] = NotYet
    /\ stamp' = [stamp EXCEPT ![r] = t]
    /\ log' = Append(log, [raw |-> r, from |-> None, tick |-> t, rank |-> NowRank,
                           to |-> IF Fails(r, rules) THEN "quarantined" ELSE "clean"])
    /\ UNCHANGED <<tick, rules>>

Land(r) == LandAt(r, tick) /\ UNCHANGED budget

\* now() is the start of the transaction: it may have begun before midnight.
LandLate(r) ==
    /\ tick > 0 /\ Day(tick - 1) < Today
    /\ LandAt(r, tick - 1)
    /\ Spend("late")

Deploy ==
    /\ Spend("deploy")
    /\ rules' = IF rules = "strict" THEN "lenient" ELSE "strict"
    /\ UNCHANGED <<tick, stamp, log>>

\* quarantine-writeoff.md: an operator looks at the state and inserts the event.
Reject(r) ==
    /\ StateOf(r) \in {"quarantined", "re_quarantined"}
    /\ Spend("reject")
    /\ log' = Append(log, [raw |-> r, from |-> StateOf(r), to |-> "permanently_rejected",
                           tick |-> tick, rank |-> NowRank])
    /\ UNCHANGED <<tick, stamp, rules>>
=============================================================================
