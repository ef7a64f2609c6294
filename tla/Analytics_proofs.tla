--------------------------- MODULE Analytics_proofs ---------------------------
(***************************************************************************)
(* Proofs about Analytics for every set of rows, every calendar, lookback, *)
(* gate and budget: type correctness, and the facts about instants, states *)
(* and single steps that the proofs of the windows (Windows_proofs) and of *)
(* the quality states (Quality_proofs) rest on.                            *)
(***************************************************************************)
EXTENDS Analytics, FiniteSetTheorems, SequenceTheorems, TLAPS

-----------------------------------------------------------------------------
(* Instants and days. *)

\* What the assumption on the calendar says of each constant.
LEMMA Calendar ==
    /\ TicksPerDay \in Nat /\ TicksPerDay > 0 /\ Horizon \in Nat
    /\ Lookback \in Nat /\ ReconWindow \in Nat
BY QualityLogAssumption, DailyRunAssumption DEF QualityLogAssumption, DailyRunAssumption

\* Rows are numbered, each has its kind, and there are finitely many.
LEMMA Rows == Raws \subseteq Nat /\ IsFiniteSet(Raws) /\ Kind \in [Raws -> Kinds]
BY QualityLogAssumption DEF QualityLogAssumption

\* A day is the instants from its first to the one before the next day's.
LEMMA DayBounds ==
    ASSUME NEW t \in Nat
    PROVE  /\ Day(t) \in Nat
           /\ TicksPerDay * Day(t) <= t
           /\ t < TicksPerDay * Day(t) + TicksPerDay
BY Calendar DEF Day

\* Days do not run backwards.
LEMMA DayMonotone ==
    ASSUME NEW s \in Nat, NEW t \in Nat, s <= t
    PROVE  Day(s) <= Day(t)
<1>1. \A m, n \in Nat : m < n => TicksPerDay * m + TicksPerDay <= TicksPerDay * n
  BY Calendar
<1>2. CASE Day(t) < Day(s)
  <2>1. TicksPerDay * Day(t) + TicksPerDay <= TicksPerDay * Day(s)
    BY <1>1, <1>2, DayBounds
  <2>2. s < s
    BY <2>1, DayBounds, Calendar
  <2>3. QED
    BY <2>2
<1>3. QED
  BY <1>2, DayBounds

-----------------------------------------------------------------------------
(* The latest event of a row, in a log that is given: the same definitions   *)
(* then serve for the log before a step and for the log after it.            *)

OfRow(lg, r, ids) == {i \in ids : lg[i].raw = r}

NoLaterIn(lg, i, j) ==
    \/ lg[i].rank < lg[j].rank
    \/ lg[i].rank = lg[j].rank /\ i <= j

StateInLog(lg, r, ids) ==
    IF OfRow(lg, r, ids) = {} THEN None
    ELSE lg[CHOOSE i \in OfRow(lg, r, ids) : \A j \in OfRow(lg, r, ids) : NoLaterIn(lg, j, i)].to

\* i is the latest of S in the log lg.
IsLatest(lg, S, i) == i \in S /\ \A j \in S : NoLaterIn(lg, j, i)

\* The state of a row in a set of events, in Analytics and in the form of this
\* module, which takes the log as a parameter.
LEMMA StateInIsStateInLog ==
    ASSUME NEW r, NEW ids
    PROVE  StateIn(r, ids) = StateInLog(log, r, ids) /\ EventsOf(r, ids) = OfRow(log, r, ids)
BY DEF StateIn, StateInLog, EventsOf, OfRow, NoLater, NoLaterIn

\* Ranks are naturals.
LEMMA RankType ==
    ASSUME NEW lg \in Seq(EventType), NEW i \in DOMAIN lg
    PROVE  i \in Nat /\ i \in 1..Len(lg) /\ lg[i] \in EventType /\ lg[i].rank \in Nat
<1>1. i \in 1..Len(lg) /\ Len(lg) \in Nat /\ lg[i] \in EventType
  OBVIOUS
<1>2. QED
  BY <1>1 DEF EventType

\* Some events of a log, if there are any, have a latest.
LEMMA LatestExists ==
    ASSUME NEW lg \in Seq(EventType), NEW S \in SUBSET DOMAIN lg, S # {}
    PROVE  \E i \in S : IsLatest(lg, S, i)
<1> DEFINE After(i) == {j \in S : ~NoLaterIn(lg, j, i)}
           Afters == {After(i) : i \in S}
<1>1. /\ S \subseteq 1..Len(lg) /\ Len(lg) \in Nat
      /\ \A i \in S : i \in Nat /\ lg[i].rank \in Nat
  <2>1. S \subseteq 1..Len(lg) /\ Len(lg) \in Nat
    OBVIOUS
  <2>2. QED
    BY <2>1, RankType
<1>2. IsFiniteSet(S)
  <2>1. IsFiniteSet(1..Len(lg))
    BY <1>1, FS_Interval
  <2>2. QED
    BY <1>1, <2>1, FS_Subset
<1>3. \A i, j \in S : j \in After(i) => After(j) \subseteq After(i) /\ After(j) # After(i)
  BY <1>1 DEF NoLaterIn
<1>4. PICK i \in S : \A j \in S : ~(After(j) \subseteq After(i) /\ After(j) # After(i))
  <2>1. Afters \subseteq SUBSET S /\ Afters # {}
    OBVIOUS
  <2>2. FiniteSubsetsOf(S) = SUBSET S
    BY <1>2, FS_FiniteSubsetsOfFinite
  <2>3. IsWellFoundedOn(StrictSubsetOrdering(S), SUBSET S)
    BY <1>2, <2>2, FS_StrictSubsetOrderingWellFounded
  <2>4. PICK A \in Afters : \A B \in Afters : ~(<<B, A>> \in StrictSubsetOrdering(S))
    BY <2>1, <2>3, WFMin
  <2>5. PICK i \in S : A = After(i)
    OBVIOUS
  <2>6. \A j \in S : ~(<<After(j), After(i)>> \in StrictSubsetOrdering(S))
    BY <2>4, <2>5
  <2>7. QED
    BY <2>6 DEF StrictSubsetOrdering
<1>5. QED
  BY <1>3, <1>4 DEF IsLatest

\* The state of a row is what its latest event says: no other is as late.
LEMMA LatestDecides ==
    ASSUME NEW lg \in Seq(EventType), NEW r, NEW ids \in SUBSET DOMAIN lg,
           NEW i, IsLatest(lg, OfRow(lg, r, ids), i)
    PROVE  StateInLog(lg, r, ids) = lg[i].to
<1> DEFINE S == OfRow(lg, r, ids)
           c == CHOOSE k \in S : \A j \in S : NoLaterIn(lg, j, k)
<1>1. S \subseteq DOMAIN lg /\ i \in S /\ \A j \in S : NoLaterIn(lg, j, i)
  BY DEF OfRow, IsLatest
<1>2. c \in S /\ \A j \in S : NoLaterIn(lg, j, c)
  BY <1>1
<1> HIDE DEF c
<1>3. NoLaterIn(lg, c, i) /\ NoLaterIn(lg, i, c)
  BY <1>1, <1>2
<1>4. i \in Nat /\ c \in Nat /\ lg[i].rank \in Nat /\ lg[c].rank \in Nat
  BY <1>1, <1>2, RankType
<1>5. c = i
  BY <1>3, <1>4 DEF NoLaterIn
<1>6. StateInLog(lg, r, ids) = lg[c].to
  BY <1>1 DEF StateInLog, c
<1>7. QED
  BY <1>5, <1>6

\* The state of a row depends on its events only.
LEMMA SameEventsSameState ==
    ASSUME NEW lg \in Seq(EventType), NEW lh \in Seq(EventType), NEW r,
           NEW ids \in SUBSET DOMAIN lg, NEW jds \in SUBSET DOMAIN lh,
           OfRow(lg, r, ids) = OfRow(lh, r, jds),
           \A i \in OfRow(lg, r, ids) : lg[i] = lh[i]
    PROVE  StateInLog(lg, r, ids) = StateInLog(lh, r, jds)
<1> DEFINE S == OfRow(lg, r, ids)
<1>1. CASE S = {}
  BY <1>1 DEF StateInLog
<1>2. CASE S # {}
  <2>1. S \in SUBSET DOMAIN lg
    BY DEF OfRow
  <2>2. PICK i \in S : IsLatest(lg, S, i)
    BY <1>2, <2>1, LatestExists
  <2>3. IsLatest(lh, S, i)
    BY <2>2 DEF IsLatest, NoLaterIn
  <2>4. StateInLog(lg, r, ids) = lg[i].to /\ StateInLog(lh, r, jds) = lh[i].to
    BY <2>2, <2>3, LatestDecides
  <2>5. QED
    BY <2>2, <2>4
<1>3. QED
  BY <1>1, <1>2

-----------------------------------------------------------------------------
(* Type correctness of PostgreSQL. *)

\* A budget that is spent stays a budget.
LEMMA BudgetType ==
    ASSUME budget \in [Budgeted -> Nat], NEW b \in Budgeted, Spend(b)
    PROVE  budget' \in [Budgeted -> Nat]
BY DEF Spend

\* Appending to the log keeps what it says.
LEMMA LogType ==
    ASSUME log \in Seq(EventType), NEW e \in EventType, log' = Append(log, e)
    PROVE  log' \in Seq(EventType)
OBVIOUS

\* The state of a row is one of the states, or none.
LEMMA StateType ==
    ASSUME QualityLogTypeOK, NEW r, NEW ids \in SUBSET events
    PROVE  StateIn(r, ids) \in States \cup {None}
<1>0. log \in Seq(EventType) /\ ids \in SUBSET DOMAIN log
  BY DEF QualityLogTypeOK, events
<1>1. CASE OfRow(log, r, ids) = {}
  BY <1>1, StateInIsStateInLog DEF StateInLog
<1>2. CASE OfRow(log, r, ids) # {}
  <2>1. OfRow(log, r, ids) \in SUBSET DOMAIN log
    BY <1>0 DEF OfRow
  <2>2. PICK i \in OfRow(log, r, ids) : IsLatest(log, OfRow(log, r, ids), i)
    BY <1>0, <1>2, <2>1, LatestExists
  <2>3. StateIn(r, ids) = log[i].to
    BY <1>0, <2>2, LatestDecides, StateInIsStateInLog
  <2>4. log[i] \in EventType
    BY <1>0, <2>1, RankType
  <2>5. QED
    BY <2>3, <2>4 DEF EventType
<1>3. QED
  BY <1>1, <1>2

\* The initial event of a row is well formed.
LEMMA LandType ==
    ASSUME QualityLogTypeOK, NEW r \in Raws, NEW t \in 0..Horizon, LandAt(r, t)
    PROVE  /\ stamp' \in [Raws -> 0..Horizon \cup {NotYet}]
           /\ log' \in Seq(EventType)
<1>1. NowRank \in Nat
  BY DEF QualityLogTypeOK, NowRank
<1>2. (IF Fails(r, rules) THEN "quarantined" ELSE "clean") \in States
  BY DEF States
<1>3. [raw |-> r, from |-> None, tick |-> t, rank |-> NowRank,
       to |-> IF Fails(r, rules) THEN "quarantined" ELSE "clean"] \in EventType
  BY <1>1, <1>2 DEF EventType
<1>4. log' \in Seq(EventType)
  BY <1>3, LogType DEF LandAt, QualityLogTypeOK
<1>5. QED
  BY <1>4 DEF LandAt, QualityLogTypeOK

\* PostgreSQL's own steps keep its types.
LEMMA PgTypes ==
    ASSUME TypeOK, PgNext
    PROVE  QualityLogTypeOK'
<1> USE DEF TypeOK
<1>0. tick \in Nat /\ tick \in 0..Horizon /\ tick <= Horizon
  BY Calendar DEF QualityLogTypeOK
<1>1. CASE TickNow
  <2>1. tick' \in 0..Horizon
    BY <1>0, <1>1, Calendar DEF TickNow, Tick
  <2>2. budget' \in [Budgeted -> Nat]
    BY <1>1, BudgetType DEF TickNow, Budgeted, QualityLogTypeOK
  <2>3. QED
    BY <1>1, <2>1, <2>2 DEF TickNow, Tick, QualityLogTypeOK, EventType
<1>2. CASE Deploy
  <2>1. budget' \in [Budgeted -> Nat]
    BY <1>2, BudgetType DEF Deploy, Budgeted, QualityLogTypeOK
  <2>2. QED
    BY <1>2, <2>1 DEF Deploy, QualityLogTypeOK
<1>3. ASSUME NEW r \in Raws, Land(r)
      PROVE  QualityLogTypeOK'
  <2>1. stamp' \in [Raws -> 0..Horizon \cup {NotYet}] /\ log' \in Seq(EventType)
    BY <1>0, <1>3, LandType DEF Land
  <2>2. QED
    BY <1>3, <2>1 DEF Land, LandAt, QualityLogTypeOK
<1>4. ASSUME NEW r \in Raws, LandLate(r)
      PROVE  QualityLogTypeOK'
  <2>1. tick - 1 \in 0..Horizon
    BY <1>0, <1>4, Calendar DEF LandLate
  <2>2. stamp' \in [Raws -> 0..Horizon \cup {NotYet}] /\ log' \in Seq(EventType)
    BY <2>1, <1>4, LandType DEF LandLate
  <2>3. budget' \in [Budgeted -> Nat]
    BY <1>4, BudgetType DEF LandLate, Budgeted, QualityLogTypeOK
  <2>4. QED
    BY <1>4, <2>2, <2>3 DEF LandLate, LandAt, QualityLogTypeOK
<1>5. ASSUME NEW r \in Raws, RejectNow(r)
      PROVE  QualityLogTypeOK'
  <2>1. NowRank \in Nat
    BY DEF QualityLogTypeOK, NowRank
  <2>2. StateOf(r) \in States \cup {None}
    BY StateType DEF StateOf
  <2>3. [raw |-> r, from |-> StateOf(r), to |-> "permanently_rejected",
         tick |-> tick, rank |-> NowRank] \in EventType
    BY <1>0, <2>1, <2>2 DEF EventType, States
  <2>4. log' \in Seq(EventType)
    BY <1>5, <2>3, LogType DEF RejectNow, Reject, QualityLogTypeOK
  <2>5. budget' \in [Budgeted -> Nat]
    BY <1>5, BudgetType DEF RejectNow, Reject, Budgeted, QualityLogTypeOK
  <2>6. QED
    BY <1>5, <2>4, <2>5 DEF RejectNow, Reject, QualityLogTypeOK
<1>6. QED
  BY <1>1, <1>2, <1>3, <1>4, <1>5 DEF PgNext

-----------------------------------------------------------------------------
(* Type correctness of the re-evaluation job. *)

\* A job that has ended has no locals.
LEMMA EndedTypes ==
    ASSUME Ended
    PROVE  ReevaluationTypeOK'
BY DEF Ended, ReevaluationTypeOK, JobSteps, NoStates

\* The batch that Plan computes is a sequence of events.
LEMMA PlanType ==
    ASSUME TypeOK, Plan
    PROVE  planned' \in Seq(EventType)
<1>1. /\ Changing \subseteq Raws \X (1..2)
      /\ Changing \subseteq Raws \X {1, 2}
      /\ \A x \in Changing : Decide(x[1], known[x[1]]) # None
  BY DEF Changing
<1>2. Cardinality(Changing) \in Nat
  <2>1. IsFiniteSet({1, 2})
    <3>1. \A x : IsFiniteSet({x})
      BY FS_Singleton
    <3>2. \A S, x : IsFiniteSet(S) => IsFiniteSet(S \cup {x})
      BY FS_AddElement
    <3>3. {1, 2} = {1} \cup {2}
      OBVIOUS
    <3>4. IsFiniteSet({1} \cup {2})
      BY <3>1, <3>2, Zenon
    <3>5. QED
      BY <3>3, <3>4, Zenon
  <2>2. IsFiniteSet(Raws \X {1, 2})
    BY <2>1, FS_Product, Rows
  <2>3. IsFiniteSet(Changing)
    BY <1>1, <2>2, FS_Subset
  <2>4. QED
    BY <2>3, FS_CardinalityType
<1>3. PICK rows \in [1..Cardinality(Changing) -> Changing] :
         planned' = [i \in DOMAIN rows |-> EventFor(rows[i][1])]
  BY DEF Plan
<1>4. PlannedRank \in Nat /\ tick \in 0..Horizon
  BY DEF TypeOK, QualityLogTypeOK, PlannedRank
<1>5. ASSUME NEW x \in Changing
      PROVE  EventFor(x[1]) \in EventType
  <2>1. x[1] \in Raws /\ Decide(x[1], known[x[1]]) # None
    BY <1>1
  <2>2. known[x[1]] \in States \cup {None}
    BY <2>1 DEF TypeOK, ReevaluationTypeOK
  <2>3. Decide(x[1], known[x[1]]) \in States
    BY <2>1 DEF Decide, States
  <2>4. QED
    BY <1>4, <2>1, <2>2, <2>3 DEF EventFor, EventType
<1>6. planned' \in [1..Cardinality(Changing) -> EventType]
  BY <1>3, <1>5
<1>7. QED
  BY <1>2, <1>6, SeqDef

\* The candidate query lists a row at most twice.
LEMMA ListedType ==
    ASSUME NEW r
    PROVE  Listed(r) \in 0..2
BY DEF Listed

\* The job's steps and its failure keep its types.
LEMMA JobTypes ==
    ASSUME TypeOK, JobNext
    PROVE  ReevaluationTypeOK'
<1>1. CASE ReadNow
  <2>1. PICK last \in Raws : listed' = [r \in Raws |-> IF r <= last THEN Listed(r) ELSE 0]
    BY <1>1 DEF ReadNow, ReadCandidates
  <2>2. listed' \in [Raws -> 0..2]
    BY <2>1, ListedType
  <2>3. QED
    BY <1>1, <2>2 DEF ReadNow, ReadCandidates, TypeOK, ReevaluationTypeOK, JobSteps,
       QualityLogTypeOK
<1>2. CASE FetchStates
  <2>1. known' \in [Raws -> States \cup {None}]
    BY <1>2, StateType DEF FetchStates, CurrentState, StateOf, TypeOK
  <2>2. QED
    BY <1>2, <2>1 DEF FetchStates, TypeOK, ReevaluationTypeOK, JobSteps
<1>3. CASE Plan
  BY <1>3, PlanType DEF Plan, TypeOK, ReevaluationTypeOK, JobSteps
<1>4. CASE AppendEvents \/ JobFails
  BY <1>4, EndedTypes DEF AppendEvents, JobFails
<1>5. QED
  BY <1>1, <1>2, <1>3, <1>4 DEF JobNext, JobStep

\* So do they PostgreSQL's.
LEMMA JobPgTypes ==
    ASSUME TypeOK, JobNext
    PROVE  QualityLogTypeOK'
<1>1. CASE ReadNow
  <2>1. budget' \in [Budgeted -> Nat]
    BY <1>1, BudgetType DEF ReadNow, ReadCandidates, Budgeted, TypeOK, QualityLogTypeOK
  <2>2. QED
    BY <1>1, <2>1 DEF ReadNow, ReadCandidates, TypeOK, QualityLogTypeOK
<1>2. CASE FetchStates \/ Plan
  BY <1>2 DEF FetchStates, Plan, pgVars, TypeOK, QualityLogTypeOK
<1>3. CASE AppendEvents
  <2>1. log' \in Seq(EventType)
    BY <1>3, ConcatProperties DEF AppendEvents, TypeOK, QualityLogTypeOK, ReevaluationTypeOK
  <2>2. QED
    BY <1>3, <2>1 DEF AppendEvents, TypeOK, QualityLogTypeOK
<1>4. CASE JobFails
  <2>1. budget' \in [Budgeted -> Nat]
    BY <1>4, BudgetType DEF JobFails, Budgeted, TypeOK, QualityLogTypeOK
  <2>2. QED
    BY <1>4, <2>1 DEF JobFails, TypeOK, QualityLogTypeOK
<1>5. QED
  BY <1>1, <1>2, <1>3, <1>4 DEF JobNext, JobStep

-----------------------------------------------------------------------------
(* What a step does to the sources: rows and events are added, never changed,
   and time does not run backwards. *)

Forward ==
    /\ tick <= tick'
    /\ \A r \in ods : r \in ods' /\ stamp'[r] = stamp[r]
    /\ \A i \in events : i \in events' /\ log'[i] = log[i]

\* A step of anyone only appends to the log, judges rows once, keeps what staging
\* has, and never moves the clock back: what the other proofs need of most steps.
LEMMA StepForward ==
    ASSUME TypeOK, Next
    PROVE  Forward
<1>0. /\ tick \in Nat /\ \A r \in ods : r \in Raws /\ stamp[r] # NotYet
      /\ stamp \in [Raws -> 0..Horizon \cup {NotYet}]
      /\ log \in Seq(EventType) /\ planned \in Seq(EventType)
      /\ events = 1..Len(log) /\ Len(log) \in Nat
  BY Calendar DEF ods, events, TypeOK, QualityLogTypeOK, ReevaluationTypeOK
<1>1. CASE UNCHANGED <<tick, stamp, log>>
  BY <1>0, <1>1 DEF Forward, ods, events
<1>2. CASE TickNow
  BY <1>0, <1>2 DEF Forward, ods, events, TickNow, Tick
<1>3. CASE \E r \in Raws, t \in Nat : LandAt(r, t)
  <2>1. PICK r \in Raws, t \in Nat : LandAt(r, t)
    BY <1>3
  <2>2. /\ stamp[r] = NotYet /\ stamp' = [stamp EXCEPT ![r] = t] /\ tick' = tick
        /\ \E e : log' = Append(log, e)
    BY <2>1 DEF LandAt
  <2>3. \A q \in ods : q \in ods' /\ stamp'[q] = stamp[q]
    BY <1>0, <2>2 DEF ods
  <2>4. \A i \in events : i \in events' /\ log'[i] = log[i]
    BY <1>0, <2>2 DEF events
  <2>5. QED
    BY <1>0, <2>2, <2>3, <2>4 DEF Forward
<1>4. CASE \E r \in Raws : RejectNow(r)
  <2>1. /\ UNCHANGED <<stamp, tick>>
        /\ \E e : log' = Append(log, e)
    BY <1>4 DEF RejectNow, Reject
  <2>2. \A i \in events : i \in events' /\ log'[i] = log[i]
    BY <1>0, <2>1 DEF events
  <2>3. QED
    BY <1>0, <2>1, <2>2 DEF Forward, ods
<1>5. CASE AppendEvents
  <2>1. UNCHANGED <<stamp, tick>> /\ log' = log \o planned
    BY <1>5 DEF AppendEvents
  <2>2. \A i \in events : i \in events' /\ log'[i] = log[i]
    BY <1>0, <2>1 DEF events
  <2>3. QED
    BY <1>0, <2>1, <2>2 DEF Forward, ods
<1>6. QED
  <2>1. RunNext => UNCHANGED <<tick, stamp, log>>
    BY DEF RunNext, RunFails, pgVars
  <2>2. JobNext /\ ~AppendEvents => UNCHANGED <<tick, stamp, log>>
    BY DEF JobNext, ReadNow, ReadCandidates, JobStep, FetchStates, Plan, JobFails, pgVars
  <2>3. PgNext => \/ UNCHANGED <<tick, stamp, log>> \/ TickNow
                  \/ \E r \in Raws, t \in Nat : LandAt(r, t)
                  \/ \E r \in Raws : RejectNow(r)
    BY <1>0 DEF PgNext, Deploy, Land, LandLate
  <2>4. QED
    BY <1>1, <1>2, <1>3, <1>4, <1>5, <2>1, <2>2, <2>3 DEF Next

\* Every key of a source has an instant, and a day.
LEMMA AtType ==
    ASSUME QualityLogTypeOK, NEW t \in Tables, NEW k \in Source(t)
    PROVE  At(t, k) \in Nat /\ DayOf(t, k) \in Nat
<1>1. CASE t = "orders"
  <2>1. k \in Raws /\ stamp[k] \in 0..Horizon
    BY <1>1 DEF Source, ods, QualityLogTypeOK
  <2>2. At(t, k) \in Nat
    BY <1>1, <2>1, Calendar DEF At
  <2>3. QED
    BY <2>2, DayBounds DEF DayOf
<1>2. CASE t = "events"
  <2>1. k \in events /\ log[k] \in EventType
    BY <1>2 DEF Source, events, QualityLogTypeOK
  <2>2. At(t, k) \in Nat
    BY <1>2, <2>1, Calendar DEF At, EventType
  <2>3. QED
    BY <2>2, DayBounds DEF DayOf
<1>3. QED
  BY <1>1, <1>2 DEF Tables

\* A source keeps its keys, and each key its instant and its day.
LEMMA SourcesGrow ==
    ASSUME TypeOK, Next
    PROVE  /\ Today \in Nat /\ Today' \in Nat /\ Today <= Today'
           /\ \A t \in Tables : \A k \in Source(t) :
                 /\ k \in Source(t)'
                 /\ At(t, k)' = At(t, k)
                 /\ DayOf(t, k)' = DayOf(t, k)
<1>1. Forward
  BY StepForward
<1>2. tick \in Nat /\ tick' \in Nat /\ tick <= tick'
  <2>1. tick \in Nat
    BY Calendar DEF TypeOK, QualityLogTypeOK
  <2>2. tick' = tick \/ tick' = tick + 1
    BY DEF Next, PgNext, RunNext, JobNext, TickNow, Tick, Deploy, Land, LandLate, LandAt,
       RejectNow, Reject, RunFails, pgVars, ReadNow, ReadCandidates, JobStep, FetchStates,
       Plan, AppendEvents, JobFails
  <2>3. QED
    BY <2>1, <2>2
<1>3. Today \in Nat /\ Today' \in Nat /\ Today <= Today'
  BY <1>2, DayBounds, DayMonotone DEF Today
<1>4. ASSUME NEW t \in Tables, NEW k \in Source(t)
      PROVE  k \in Source(t)' /\ At(t, k)' = At(t, k)
  BY <1>1 DEF Forward, Source, At, Tables
<1>5. ASSUME NEW t \in Tables, NEW k \in Source(t)
      PROVE  DayOf(t, k)' = DayOf(t, k)
  BY <1>4 DEF DayOf, Day
<1>6. QED
  BY <1>3, <1>4, <1>5

-----------------------------------------------------------------------------
(* Type correctness of the daily run, with the two facts that it rests on. *)

\* A build is noted with the day it ran and the day its run began.
Noted == \A b \in Incremental : builtAt[b] = NotYet <=> readAt[b] = NotYet

\* The report counts events of Silver.
ReportedIsSilver == reported \subseteq silver["events"]

Types == TypeOK /\ Noted /\ ReportedIsSilver

\* What an overwrite leaves is what it read and what was there.
LEMMA OverwrittenType ==
    ASSUME NEW t, NEW b, NEW read, NEW old
    PROVE  Overwritten(t, b, read, old) \subseteq read \cup old
BY DEF Overwritten

\* Replacing whole partitions adds rows and takes none away, as long as every row
\* that is there is in what the build reads: the window is made of whole days.
LEMMA OverwriteAdds ==
    ASSUME NEW t, NEW b, NEW read, NEW old \in SUBSET read
    PROVE  Overwritten(t, b, read, old) =
             old \cup {k \in read : builtAt[b] = NotYet \/ InWindow(t, k, Lookback)}
BY DEF Overwritten, InWindow

\* The note of a build keeps the history in its types.
LEMMA NoteTypes ==
    ASSUME DailyRunTypeOK, Noted, Today \in Nat, NEW b \in Incremental, BuildIsNoted(b)
    PROVE  /\ builtAt' \in [Incremental -> 0..Today \cup {NotYet}]
           /\ readAt' \in [Incremental -> 0..Today \cup {NotYet}]
           /\ apart' \in [Incremental -> 0..Today]
           /\ Noted'
<1> USE DEF DailyRunTypeOK, BuildIsNoted, NotYet
<1>1. /\ Today \in 0..Today /\ began \in 0..Today
      /\ apart[b] \in 0..Today
      /\ builtAt[b] # NotYet => readAt[b] \in 0..Today
  BY DEF Noted
<1>2. (IF builtAt[b] = NotYet THEN apart[b] ELSE Larger(apart[b], Today - readAt[b])) \in 0..Today
  BY <1>1 DEF Larger
<1>3. apart' \in [Incremental -> 0..Today]
  BY <1>2
<1>4. /\ builtAt' \in [Incremental -> 0..Today \cup {NotYet}]
      /\ readAt' \in [Incremental -> 0..Today \cup {NotYet}]
  BY <1>1
<1>5. Noted'
  BY <1>1 DEF Noted
<1>6. QED
  BY <1>3, <1>4, <1>5

\* Going to the next layer, or striking a table off the list, keeps the list right.
LEMMA LayerTypes ==
    ASSUME layer \in Layers, todo \subseteq Work(layer),
           \/ \E l \in Layers : GoTo(l)
           \/ \E x : \E next \in Layers : Done(x, next)
    PROVE  layer' \in Layers /\ todo' \subseteq Work(layer')
BY DEF GoTo, Done

\* A step that leaves the daily run alone keeps its types, whatever it adds to
\* the sources.
LEMMA RunTypesFrame ==
    ASSUME Types, Next, UNCHANGED runVars
    PROVE  DailyRunTypeOK' /\ Noted' /\ ReportedIsSilver'
<1>1. \A t \in Tables : Source(t) \subseteq Source(t)'
  BY SourcesGrow DEF Types
<1>2. 0..Today \subseteq 0..Today'
  BY SourcesGrow DEF Types
<1>3. /\ events = Source("events") /\ events' = Source("events")' /\ "events" \in Tables
  BY DEF Source, Tables
<1>4. UNCHANGED <<layer, todo, staging, silver, int, gold, reported, began, builtAt, readAt, apart>>
  BY DEF runVars, warehouse, history
<1>5. DailyRunTypeOK
  BY DEF Types, TypeOK
<1>6. /\ layer' \in Layers /\ todo' \subseteq Work(layer)' /\ int' \in [{"clean", "held", "rejected"} -> SUBSET Raws]
      /\ gold' \subseteq Raws /\ reported' \subseteq events'
      /\ staging' \in [Tables -> SUBSET Nat] /\ silver' \in [Tables -> SUBSET Nat]
  BY <1>1, <1>3, <1>4, <1>5 DEF DailyRunTypeOK, Work
<1>7. \A t \in Tables : staging'[t] \subseteq Source(t)' /\ silver'[t] \subseteq staging'[t]
  BY <1>1, <1>4, <1>5 DEF DailyRunTypeOK
<1>8. /\ began' \in 0..Today'
      /\ builtAt' \in [Incremental -> 0..Today' \cup {NotYet}]
      /\ readAt' \in [Incremental -> 0..Today' \cup {NotYet}]
      /\ apart' \in [Incremental -> 0..Today']
  BY <1>2, <1>4, <1>5 DEF DailyRunTypeOK
<1>9. QED
  BY <1>4, <1>6, <1>7, <1>8 DEF DailyRunTypeOK, Types, Noted, ReportedIsSilver, NotYet

\* The steps of the daily run keep its types.
LEMMA RunTypes ==
    ASSUME Types, RunNext
    PROVE  DailyRunTypeOK' /\ Noted' /\ ReportedIsSilver'
<1>0. /\ DailyRunTypeOK /\ Noted /\ ReportedIsSilver
      /\ UNCHANGED <<tick, stamp, log>>
      /\ Today \in Nat
      /\ layer \in Layers /\ todo \subseteq Work(layer)
  BY SourcesGrow DEF Types, TypeOK, RunNext, RunFails, pgVars, Next, DailyRunTypeOK
<1>1. UNCHANGED <<ods, events, Today>> /\ \A t \in Tables : UNCHANGED Source(t)
  BY <1>0 DEF ods, events, Today, Day, Source
<1>2. layer' \in Layers /\ todo' \subseteq Work(layer')
  <2>1. \/ \E l \in Layers : GoTo(l)
        \/ \E x : \E next \in Layers : Done(x, next)
    BY DEF RunNext, RunStep, RunFails, StartRun, Extract, BuildStg, Gate, BuildInt, BuildMarts,
       BuildReport, Layers
  <2>2. QED
    BY <1>0, <2>1, LayerTypes
<1>3. Work(layer)' = Work(layer')
  BY DEF Work
<1> DEFINE Rest == /\ staging' \in [Tables -> SUBSET Nat] /\ silver' \in [Tables -> SUBSET Nat]
                   /\ \A t \in Tables : staging'[t] \subseteq Source(t) /\ silver'[t] \subseteq staging'[t]
                   /\ int' \in [{"clean", "held", "rejected"} -> SUBSET Raws]
                   /\ gold' \subseteq Raws /\ ReportedIsSilver'
                   /\ began' \in 0..Today
           History == /\ builtAt' \in [Incremental -> 0..Today \cup {NotYet}]
                      /\ readAt' \in [Incremental -> 0..Today \cup {NotYet}]
                      /\ apart' \in [Incremental -> 0..Today]
                      /\ Noted'
<1>4. UNCHANGED history => History
  BY <1>0 DEF history, DailyRunTypeOK, Noted
<1>5. UNCHANGED warehouse /\ began' \in {began, Today} => Rest
  BY <1>0 DEF warehouse, DailyRunTypeOK, ReportedIsSilver
<1>6. SUFFICES Rest /\ History
  <2>1. ASSUME Rest /\ History PROVE reported' \subseteq events'
    BY <1>1, <2>1 DEF ReportedIsSilver, Source, Tables
  <2>2. QED
    BY <1>1, <1>2, <1>3, <2>1 DEF DailyRunTypeOK
<1>7. CASE StartRun \/ Gate \/ RunFails
  BY <1>0, <1>4, <1>5, <1>7 DEF StartRun, Gate, RunFails, DailyRunTypeOK
<1>8. ASSUME NEW t \in Tables, Extract(t)
      PROVE  Rest /\ History
  <2>1. Slice(t) \subseteq Source(t)
    BY DEF Slice
  <2>2. Source(t) \subseteq Nat
    <3>1. ods \subseteq Nat
      BY Rows DEF ods
    <3>2. events \subseteq Nat
      BY DEF events, TypeOK, Types, QualityLogTypeOK
    <3>3. QED
      BY <3>1, <3>2 DEF Source
  <2>3. staging' \in [Tables -> SUBSET Nat] /\ staging'[t] \subseteq Source(t) /\ staging[t] \subseteq staging'[t]
        /\ \A u \in Tables : u # t => staging'[u] = staging[u]
    BY <1>0, <1>8, <2>1, <2>2 DEF Extract, DailyRunTypeOK
  <2>4. UNCHANGED <<silver, int, gold, reported, began>>
    BY <1>8 DEF Extract
  <2>5. Rest
    BY <1>0, <2>3, <2>4 DEF DailyRunTypeOK, ReportedIsSilver
  <2>6. QED
    BY <1>4, <1>8, <2>5 DEF Extract
<1>9. ASSUME NEW t \in Tables, BuildStg(t)
      PROVE  Rest /\ History
  <2>1. Rebuilt(t) \subseteq staging[t]
    BY <1>0, OverwrittenType DEF Rebuilt, DailyRunTypeOK
  <2>2. silver' \in [Tables -> SUBSET Nat] /\ silver'[t] \subseteq staging[t]
        /\ \A u \in Tables : u # t => silver'[u] = silver[u]
    BY <1>0, <1>9, <2>1 DEF BuildStg, DailyRunTypeOK
  <2>3. UNCHANGED <<staging, int, gold, reported, began>>
    BY <1>9 DEF BuildStg
  <2>4. ReportedIsSilver'
    <3>1. silver["events"] \subseteq silver'["events"]
      <4>1. silver'[t] = Rebuilt(t) /\ \A u \in Tables : u # t => silver'[u] = silver[u]
        BY <1>0, <1>9 DEF BuildStg, DailyRunTypeOK
      <4>2. silver[t] \subseteq Rebuilt(t)
        BY <1>0, OverwriteAdds DEF Rebuilt, DailyRunTypeOK
      <4>3. QED
        BY <4>1, <4>2 DEF Tables
    <3>2. QED
      BY <1>0, <2>3, <3>1 DEF ReportedIsSilver
  <2>5. Rest
    BY <1>0, <2>2, <2>3, <2>4 DEF DailyRunTypeOK
  <2>6. History
    BY <1>0, <1>9, NoteTypes DEF BuildStg, Incremental
  <2>7. QED
    BY <2>5, <2>6
<1>10. ASSUME NEW m \in {"clean", "held"}, BuildInt(m)
       PROVE  Rest /\ History
  <2>1. silver["orders"] \subseteq Raws
    BY <1>0 DEF DailyRunTypeOK, Tables, Source, ods
  <2>2. int' \in [{"clean", "held", "rejected"} -> SUBSET Raws]
    BY <1>0, <1>10, <2>1 DEF BuildInt, Held, DailyRunTypeOK
  <2>3. UNCHANGED <<staging, silver, gold, reported, began, history>>
    BY <1>10 DEF BuildInt
  <2>4. QED
    BY <1>0, <1>4, <2>2, <2>3 DEF DailyRunTypeOK, ReportedIsSilver
<1>11. CASE BuildMarts
  <2>1. gold' \subseteq Raws
    BY <1>0, <1>11 DEF BuildMarts, DailyRunTypeOK
  <2>2. UNCHANGED <<staging, silver, int, reported, began, history>>
    BY <1>11 DEF BuildMarts
  <2>3. QED
    BY <1>0, <1>4, <2>1, <2>2 DEF DailyRunTypeOK, ReportedIsSilver
<1>12. CASE BuildReport
  <2>1. reported' \subseteq silver["events"]
    BY <1>0, <1>12, OverwrittenType DEF BuildReport, Reported, ReportedIsSilver
  <2>2. UNCHANGED <<staging, silver, int, gold, began>>
    BY <1>12 DEF BuildReport
  <2>3. Rest
    BY <1>0, <2>1, <2>2 DEF DailyRunTypeOK, ReportedIsSilver
  <2>4. History
    BY <1>0, <1>12, NoteTypes DEF BuildReport, Incremental
  <2>5. QED
    BY <2>3, <2>4
<1>13. QED
  BY <1>7, <1>8, <1>9, <1>10, <1>11, <1>12 DEF RunNext, RunStep

\* The clock shows a day.
LEMMA TodayType ==
    ASSUME Types
    PROVE  tick \in Nat /\ Today \in Nat
<1>1. tick \in Nat
  BY Calendar DEF Types, TypeOK, QualityLogTypeOK
<1>2. QED
  BY <1>1, DayBounds DEF Today

\* All types are inductive.
LEMMA TypesStep ==
    ASSUME Types, [Next]_vars
    PROVE  Types'
<1>1. CASE PgNext
  <2>1. QualityLogTypeOK'
    BY <1>1, PgTypes DEF Types
  <2>2. ReevaluationTypeOK'
    BY <1>1 DEF PgNext, jobVars, Types, TypeOK, ReevaluationTypeOK
  <2>3. QED
    BY <1>1, <2>1, <2>2, RunTypesFrame DEF PgNext, Next, Types, TypeOK
<1>2. CASE RunNext
  <2>1. QualityLogTypeOK'
    <3>1. CASE UNCHANGED pgVars
      BY <3>1 DEF pgVars, Types, TypeOK, QualityLogTypeOK
    <3>2. CASE RunFails
      <4>1. budget' \in [Budgeted -> Nat]
        BY <3>2, BudgetType DEF RunFails, Budgeted, Types, TypeOK, QualityLogTypeOK
      <4>2. QED
        BY <3>2, <4>1 DEF RunFails, Types, TypeOK, QualityLogTypeOK
    <3>3. QED
      BY <1>2, <3>1, <3>2 DEF RunNext
  <2>2. ReevaluationTypeOK'
    BY <1>2 DEF RunNext, jobVars, Types, TypeOK, ReevaluationTypeOK
  <2>3. QED
    BY <1>2, <2>1, <2>2, RunTypes DEF Types, TypeOK
<1>3. CASE JobNext
  <2>1. UNCHANGED runVars
    BY <1>3 DEF JobNext, ReadNow, ReadCandidates, JobStep, FetchStates, Plan, AppendEvents, JobFails
  <2>2. QED
    BY <1>3, <2>1, JobTypes, JobPgTypes, RunTypesFrame DEF Next, Types, TypeOK
<1>4. CASE UNCHANGED vars
  <2>1. QualityLogTypeOK' /\ ReevaluationTypeOK'
    BY <1>4 DEF vars, pgVars, jobVars, Types, TypeOK, QualityLogTypeOK, ReevaluationTypeOK
  <2>2. UNCHANGED <<ods, events, Today>> /\ \A t : UNCHANGED Source(t)
    BY <1>4 DEF vars, pgVars, ods, events, Today, Day, Source
  <2>3. DailyRunTypeOK'
    BY <1>4, <2>2 DEF vars, runVars, warehouse, history, Types, TypeOK, DailyRunTypeOK, Work
  <2>4. Noted' /\ ReportedIsSilver'
    BY <1>4 DEF vars, runVars, warehouse, history, Types, Noted, ReportedIsSilver
  <2>5. QED
    BY <2>1, <2>3, <2>4 DEF Types, TypeOK
<1>5. QED
  BY <1>1, <1>2, <1>3, <1>4 DEF Next

\* The types and the notes hold of an empty platform.
LEMMA TypesInit ==
    ASSUME Init
    PROVE  Types
<1> USE DEF Init
<1>1. QualityLogTypeOK
  <2>1. << >> \in Seq(EventType)
    OBVIOUS
  <2>2. QED
    BY <2>1, Calendar, QualityLogAssumption DEF QualityLogInit, QualityLogTypeOK, QualityLogAssumption
<1>2. ReevaluationTypeOK
  <2>1. << >> \in Seq(EventType)
    OBVIOUS
  <2>2. QED
    BY <2>1 DEF ReevaluationInit, ReevaluationTypeOK, JobSteps, NoStates
<1>3. Today \in Nat
  <2>1. tick \in Nat
    BY DEF QualityLogInit
  <2>2. QED
    BY <2>1, DayBounds DEF Today
<1>4. DailyRunTypeOK
  <2>1. /\ layer \in Layers /\ todo \subseteq Work(layer)
        /\ int \in [{"clean", "held", "rejected"} -> SUBSET Raws]
        /\ gold \subseteq Raws /\ reported \subseteq events
    BY DEF DailyRunInit, Layers
  <2>2. /\ staging \in [Tables -> SUBSET Nat] /\ silver \in [Tables -> SUBSET Nat]
        /\ \A t \in Tables : staging[t] \subseteq Source(t) /\ silver[t] \subseteq staging[t]
    BY DEF DailyRunInit
  <2>3. /\ began \in 0..Today
        /\ builtAt \in [Incremental -> 0..Today \cup {NotYet}]
        /\ readAt \in [Incremental -> 0..Today \cup {NotYet}]
        /\ apart \in [Incremental -> 0..Today]
    BY <1>3 DEF DailyRunInit
  <2>4. QED
    BY <2>1, <2>2, <2>3 DEF DailyRunTypeOK
<1>5. Noted /\ ReportedIsSilver
  BY DEF DailyRunInit, Noted, ReportedIsSilver
<1>6. QED
  BY <1>1, <1>2, <1>4, <1>5 DEF Types, TypeOK

\* The types, the notes of the builds and the report, in every state.
THEOREM TypesAlways == Spec => []Types
<1>1. Init => Types
  BY TypesInit
<1>2. Types /\ [Next]_vars => Types'
  BY TypesStep
<1>3. QED
  BY <1>1, <1>2, PTL DEF Spec

\* Every variable of PostgreSQL, of the warehouse and of the job keeps its type.
THEOREM AnalyticsTypes == Spec => []TypeOK
BY TypesAlways, PTL DEF Types

=============================================================================
