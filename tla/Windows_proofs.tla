---------------------------- MODULE Windows_proofs ----------------------------
(***************************************************************************)
(* Proofs about the day-grained watermark, the lookback windows and the    *)
(* partition overwrites of the daily run, for every calendar, every        *)
(* lookback and every order of arrivals, runs, failures and midnights.     *)
(***************************************************************************)
EXTENDS Analytics_proofs

-----------------------------------------------------------------------------
(* Nothing is taken out of Silver or of the report. *)

\* Every step of the daily run keeps what is in Silver and in the report.
LEMMA RowsStay ==
    ASSUME Types, [Next]_vars
    PROVE  /\ \A t \in Tables : silver[t] \subseteq silver'[t]
           /\ reported \subseteq reported'
<1>0. DailyRunTypeOK /\ ReportedIsSilver
  BY DEF Types, TypeOK
<1>1. CASE UNCHANGED <<silver, reported>>
  BY <1>1
<1>2. ASSUME NEW t \in Tables, BuildStg(t)
      PROVE  /\ \A u \in Tables : silver[u] \subseteq silver'[u]
             /\ reported \subseteq reported'
  <2>1. silver'[t] = Rebuilt(t) /\ \A u \in Tables : u # t => silver'[u] = silver[u]
    BY <1>0, <1>2 DEF BuildStg, DailyRunTypeOK
  <2>2. silver[t] \subseteq Rebuilt(t)
    BY <1>0, OverwriteAdds DEF Rebuilt, DailyRunTypeOK
  <2>3. QED
    BY <1>2, <2>1, <2>2 DEF BuildStg
<1>3. CASE BuildReport
  BY <1>0, <1>3, OverwriteAdds DEF BuildReport, Reported, ReportedIsSilver
<1>4. QED
  <2>1. PgNext \/ JobNext \/ UNCHANGED vars => UNCHANGED runVars
    BY DEF PgNext, JobNext, ReadNow, ReadCandidates, JobStep, FetchStates, Plan, AppendEvents,
       JobFails, vars
  <2>2. RunNext => \/ UNCHANGED <<silver, reported>>
                   \/ \E t \in Tables : BuildStg(t)
                   \/ BuildReport
    BY DEF RunNext, RunStep, RunFails, StartRun, Gate, BuildMarts, Extract, BuildInt, warehouse
  <2>3. QED
    BY <1>1, <1>2, <1>3, <2>1, <2>2 DEF Next, runVars, warehouse

\* insert_overwrite never takes a row out of Silver or of the report.
THEOREM RowsAreKept == Spec => OverwriteKeepsRows
<1>1. Types /\ [Next]_vars =>
        [/\ \A t \in Tables : silver[t] \subseteq silver'[t]
         /\ reported \subseteq reported']_vars
  BY RowsStay
<1>2. QED
  BY <1>1, TypesAlways, PTL DEF Spec, OverwriteKeepsRows

-----------------------------------------------------------------------------
(* The watermark passes over no row. *)

\* Nothing carries a timestamp of the future.
Past ==
    /\ \A t \in Tables : \A k \in Source(t) : At(t, k) <= tick
    /\ \A i \in DOMAIN planned : planned[i].tick <= tick

\* The events of a batch that is about to commit are of today, unless its
\* lateness has been counted.
PlannedToday ==
    NoneLate /\ step = "append" => \A i \in DOMAIN planned : Day(planned[i].tick) = Today

\* Lateness is counted down.
LateBudget == Budgets # {} /\ \A b \in Budgets : budget["late"] <= b["late"]

WatermarkInv == Types /\ Past /\ PlannedToday /\ LateBudget /\ NothingIsPassedOver

\* Lateness is never given back.
LEMMA LateStep ==
    ASSUME Types, LateBudget, [Next]_vars
    PROVE  /\ LateBudget'
           /\ NoneLate' => NoneLate
           /\ NoneLate' => ~(TickNow /\ CommitsLate) /\ \A r \in Raws : ~LandLate(r)
<1>1. /\ budget \in [Budgeted -> Nat] /\ Budgets \subseteq [Budgeted -> Nat] /\ "late" \in Budgeted
      /\ \A b \in Budgets : b["late"] \in Nat /\ budget["late"] <= b["late"]
  BY QualityLogAssumption DEF Types, TypeOK, QualityLogTypeOK, LateBudget, Budgeted,
     QualityLogAssumption
<1>2. UNCHANGED budget \/ \E b \in Budgeted : Spend(b)
  BY DEF Next, PgNext, TickNow, Deploy, Land, LandLate, RejectNow, Reject, RunNext, RunFails,
     JobNext, ReadNow, ReadCandidates, JobStep, FetchStates, Plan, AppendEvents, JobFails,
     Budgeted, vars, pgVars
<1>3. budget'["late"] = budget["late"] \/ budget'["late"] = budget["late"] - 1
  BY <1>1, <1>2 DEF Spend
<1>4. (TickNow /\ CommitsLate) \/ (\E r \in Raws : LandLate(r)) => budget'["late"] = budget["late"] - 1
  BY <1>1 DEF TickNow, LandLate, Spend
<1>5. QED
  BY <1>1, <1>3, <1>4 DEF LateBudget, NoneLate

\* A key that a step adds to a source carries the time of the step, or that of
\* a transaction which began earlier.
LEMMA Arrivals ==
    ASSUME TypeOK, Next, NEW t \in Tables, NEW k \in Source(t)', k \notin Source(t)
    PROVE  /\ tick' = tick
           /\ \/ At(t, k)' = tick
              \/ At(t, k)' = tick - 1 /\ \E r \in Raws : LandLate(r)
              \/ step = "append" /\ \E i \in DOMAIN planned : At(t, k)' = planned[i].tick
<1>0. /\ log \in Seq(EventType) /\ planned \in Seq(EventType)
      /\ stamp \in [Raws -> 0..Horizon \cup {NotYet}]
  BY DEF TypeOK, QualityLogTypeOK, ReevaluationTypeOK
<1>1. ASSUME NEW r \in Raws, NEW s, LandAt(r, s)
      PROVE  tick' = tick /\ At(t, k)' = s
  <2>1. /\ stamp' = [stamp EXCEPT ![r] = s]
        /\ \E e : log' = Append(log, e) /\ e.tick = s
    BY <1>1 DEF LandAt
  <2>2. CASE t = "orders"
    <3>1. k = r
      BY <1>0, <2>1, <2>2 DEF Source, ods
    <3>2. QED
      BY <1>0, <1>1, <2>1, <2>2, <3>1 DEF At, LandAt
  <2>3. CASE t = "events"
    <3>1. k = Len(log) + 1
      BY <1>0, <2>1, <2>3 DEF Source, events
    <3>2. log'[k].tick = s
      BY <1>0, <2>1, <3>1
    <3>3. QED
      BY <1>1, <2>3, <3>2 DEF At, LandAt
  <2>4. QED
    BY <2>2, <2>3 DEF Tables
<1>2. ASSUME NEW r \in Raws, RejectNow(r)
      PROVE  tick' = tick /\ At(t, k)' = tick
  <2>1. /\ UNCHANGED stamp
        /\ \E e : log' = Append(log, e) /\ e.tick = tick
    BY <1>2 DEF RejectNow, Reject
  <2>2. t = "events" /\ k = Len(log) + 1
    BY <1>0, <2>1 DEF Source, ods, events, Tables
  <2>3. log'[k].tick = tick
    BY <1>0, <2>1, <2>2
  <2>4. QED
    BY <1>2, <2>2, <2>3 DEF At, RejectNow, Reject
<1>3. CASE AppendEvents
  <2>1. UNCHANGED stamp /\ log' = log \o planned /\ step = "append"
    BY <1>3 DEF AppendEvents
  <2>2. t = "events" /\ k - Len(log) \in DOMAIN planned /\ log'[k] = planned[k - Len(log)]
    BY <1>0, <2>1 DEF Source, ods, events, Tables
  <2>3. QED
    BY <1>3, <2>1, <2>2 DEF At, AppendEvents
<1>4. CASE UNCHANGED <<stamp, log>>
  BY <1>4 DEF Source, ods, events
<1>5. QED
  <2>1. RunNext => UNCHANGED <<stamp, log>>
    BY DEF RunNext, RunFails, pgVars
  <2>2. JobNext /\ ~AppendEvents => UNCHANGED <<stamp, log>>
    BY DEF JobNext, ReadNow, ReadCandidates, JobStep, FetchStates, Plan, JobFails, pgVars
  <2>3. PgNext => \/ UNCHANGED <<stamp, log>>
                  \/ \E r \in Raws : LandAt(r, tick)
                  \/ \E r \in Raws : LandLate(r)
                  \/ \E r \in Raws : RejectNow(r)
    BY DEF PgNext, TickNow, Tick, Deploy, Land
  <2>4. \A r \in Raws : LandLate(r) => LandAt(r, tick - 1)
    BY DEF LandLate
  <2>5. QED
    BY <1>1, <1>2, <1>3, <1>4, <2>1, <2>2, <2>3, <2>4 DEF Next

\* What the job has planned carries the instant of Plan's now().
LEMMA PlannedTicks ==
    ASSUME Plan
    PROVE  \A i \in DOMAIN planned' : planned'[i].tick = tick
<1>1. PICK rows \in [1..Cardinality(Changing) -> Changing] :
         planned' = [i \in DOMAIN rows |-> EventFor(rows[i][1])]
  BY DEF Plan
<1>2. QED
  BY <1>1 DEF EventFor

\* Outside the job its locals stay; in the job the batch is planned, kept or gone.
LEMMA PlannedStep ==
    ASSUME [Next]_vars
    PROVE  \/ UNCHANGED <<step, planned>>
           \/ Plan /\ tick' = tick
           \/ step' # "append" /\ tick' = tick /\ (planned' = planned \/ planned' = << >>)
BY DEF Next, PgNext, RunNext, JobNext, ReadNow, ReadCandidates, JobStep, FetchStates, Plan,
   AppendEvents, JobFails, Ended, vars, jobVars, pgVars

\* No timestamp is ahead of the clock.
LEMMA PastStep ==
    ASSUME Types, Past, [Next]_vars
    PROVE  Past'
<1>0. /\ TypeOK /\ tick \in Nat /\ planned \in Seq(EventType)
      /\ \A i \in DOMAIN planned : planned[i].tick \in Nat /\ planned[i].tick <= tick
  <2>1. TypeOK /\ tick \in Nat /\ planned \in Seq(EventType)
    BY Calendar DEF Types, TypeOK, QualityLogTypeOK, ReevaluationTypeOK
  <2>2. \A i \in DOMAIN planned : planned[i] \in EventType
    BY <2>1
  <2>3. \A i \in DOMAIN planned : planned[i].tick \in Nat
    BY <2>2, Calendar DEF EventType
  <2>4. QED
    BY <2>1, <2>3 DEF Past
<1>1. tick' \in Nat /\ tick <= tick'
  <2>1. CASE Next
    BY <1>0, <2>1, StepForward, TypesStep, Calendar DEF Forward, Types, TypeOK, QualityLogTypeOK
  <2>2. QED
    BY <1>0, <2>1 DEF vars, pgVars
<1>2. ASSUME NEW t \in Tables, NEW k \in Source(t)'
      PROVE  At(t, k)' <= tick'
  <2>1. CASE k \in Source(t)
    <3>1. At(t, k)' = At(t, k) /\ At(t, k) <= tick /\ At(t, k) \in Nat
      <4>1. At(t, k)' = At(t, k)
        BY <1>0, <2>1, SourcesGrow DEF vars, pgVars, At
      <4>2. QED
        BY <1>0, <2>1, <4>1, AtType DEF Past, TypeOK
    <3>2. QED
      BY <1>0, <1>1, <3>1
  <2>2. CASE k \notin Source(t)
    <3>1. Next
      BY <2>2 DEF vars, pgVars, Source, ods, events
    <3>2. tick' = tick
      BY <1>0, <2>2, <3>1, Arrivals
    <3>3. \/ At(t, k)' = tick \/ At(t, k)' = tick - 1
          \/ \E i \in DOMAIN planned : At(t, k)' = planned[i].tick
      BY <1>0, <2>2, <3>1, Arrivals
    <3>4. QED
      BY <1>0, <3>2, <3>3
  <2>3. QED
    BY <2>1, <2>2
<1>3. \A i \in DOMAIN planned' : planned'[i].tick <= tick'
  <2>1. CASE planned' = planned
    BY <1>0, <1>1, <2>1
  <2>2. CASE Plan /\ tick' = tick
    BY <1>0, <2>2, PlannedTicks
  <2>3. CASE planned' = << >>
    BY <2>3
  <2>4. QED
    BY <2>1, <2>2, <2>3, PlannedStep
<1>4. QED
  BY <1>2, <1>3 DEF Past

\* A batch waits over midnight only if that is counted.
LEMMA PlannedTodayStep ==
    ASSUME Types, LateBudget, PlannedToday, [Next]_vars
    PROVE  PlannedToday'
<1> SUFFICES ASSUME NoneLate', step' = "append", NEW i \in DOMAIN planned'
             PROVE  Day(planned'[i].tick) = Today'
  BY DEF PlannedToday, Day
<1>0. NoneLate /\ ~(TickNow /\ CommitsLate) /\ tick \in Nat
  BY LateStep, Calendar DEF Types, TypeOK, QualityLogTypeOK
<1>1. CASE Plan /\ tick' = tick
  BY <1>1, PlannedTicks DEF Today, Day
<1>2. CASE UNCHANGED <<step, planned>>
  <2>1. Day(planned[i].tick) = Today /\ planned # << >> /\ step = "append"
    BY <1>0, <1>2 DEF PlannedToday
  <2>2. Today' = Today
    <3>1. CASE tick' = tick
      BY <3>1 DEF Today, Day
    <3>2. CASE TickNow
      <4>1. tick' = tick + 1 /\ ~(Day(tick + 1) > Today)
        BY <1>0, <2>1, <3>2 DEF TickNow, Tick, CommitsLate
      <4>2. Day(tick + 1) \in Nat /\ Today \in Nat /\ Today <= Day(tick + 1)
        BY <1>0, DayBounds, DayMonotone DEF Today
      <4>3. Today' = Day(tick + 1)
        BY <4>1 DEF Today, Day
      <4>4. QED
        BY <4>1, <4>2, <4>3
    <3>3. QED
      BY <3>1, <3>2 DEF Next, PgNext, Deploy, Land, LandLate, LandAt, RejectNow, Reject, RunNext,
         RunFails, pgVars, JobNext, ReadNow, ReadCandidates, JobStep, FetchStates, Plan,
         AppendEvents, JobFails, vars
  <2>3. QED
    BY <1>2, <2>1, <2>2 DEF Day
<1>3. QED
  BY <1>1, <1>2, PlannedStep

\* Without lateness a key that is added belongs to today.
LEMMA ArrivalsAreToday ==
    ASSUME Types, LateBudget, PlannedToday, Next, NoneLate', NEW t \in Tables,
           NEW k \in Source(t)', k \notin Source(t)
    PROVE  DayOf(t, k)' = Today'
<1>1. NoneLate /\ \A r \in Raws : ~LandLate(r)
  BY LateStep
<1>2. /\ tick' = tick
      /\ \/ At(t, k)' = tick
         \/ step = "append" /\ \E i \in DOMAIN planned : At(t, k)' = planned[i].tick
  BY <1>1, Arrivals DEF Types
<1>3. Today' = Today /\ DayOf(t, k)' = Day(At(t, k)')
  BY <1>2 DEF Today, DayOf, Day
<1>4. QED
  BY <1>1, <1>2, <1>3 DEF PlannedToday, Today

\* No key is of a day that has not come.
LEMMA DaysPast ==
    ASSUME Types, Past, NEW t \in Tables, NEW k \in Source(t)
    PROVE  DayOf(t, k) \in Nat /\ Today \in Nat /\ DayOf(t, k) <= Today
<1>1. At(t, k) \in Nat /\ tick \in Nat /\ At(t, k) <= tick
  BY AtType, Calendar DEF Types, TypeOK, QualityLogTypeOK, Past
<1>2. QED
  BY <1>1, DayBounds, DayMonotone DEF DayOf, Today

\* A step extends staging by a slice of one table, or leaves it.
LEMMA StagingStep ==
    ASSUME Types, [Next]_vars, NEW t \in Tables
    PROVE  \/ staging'[t] = staging[t]
           \/ /\ staging'[t] = staging[t] \cup Slice(t) /\ Extract(t)
              /\ UNCHANGED <<tick, stamp, log>>
<1>1. CASE \E u \in Tables : Extract(u) /\ UNCHANGED pgVars
  <2>1. PICK u \in Tables : Extract(u) /\ UNCHANGED pgVars
    BY <1>1
  <2>2. staging' = [staging EXCEPT ![u] = @ \cup Slice(u)]
    BY <2>1 DEF Extract
  <2>3. staging \in [Tables -> SUBSET Nat]
    BY DEF Types, TypeOK, DailyRunTypeOK
  <2>4. QED
    BY <2>1, <2>2, <2>3 DEF pgVars
<1>2. CASE UNCHANGED staging
  BY <1>2
<1>3. QED
  BY <1>1, <1>2 DEF Next, PgNext, RunNext, JobNext, ReadNow, ReadCandidates, JobStep, FetchStates,
     Plan, AppendEvents, JobFails, RunStep, RunFails, StartRun, BuildStg, Gate, BuildInt,
     BuildMarts, BuildReport, vars, runVars, warehouse

\* What is committed is in staging, or at or above its latest partition.
LEMMA PassedOverStep ==
    ASSUME Types, Past, PlannedToday, LateBudget, NothingIsPassedOver, [Next]_vars
    PROVE  NothingIsPassedOver'
<1> SUFFICES ASSUME NoneLate', NEW t \in Tables, NEW k \in Source(t)', k \notin staging'[t],
                    NEW old \in staging'[t]
             PROVE  DayOf(t, k)' >= DayOf(t, old)'
  BY DEF NothingIsPassedOver, Slice
<1>1. NoneLate /\ Source(t) \subseteq staging[t] \cup Slice(t) /\ staging[t] \subseteq Source(t)
  BY LateStep DEF NothingIsPassedOver, Types, TypeOK, DailyRunTypeOK
<1>2. CASE UNCHANGED vars
  <2>1. UNCHANGED staging /\ Source(t)' = Source(t) /\ \A j : DayOf(t, j)' = DayOf(t, j)
    BY <1>2 DEF vars, pgVars, runVars, warehouse, Source, ods, events, DayOf, At, Day
  <2>2. QED
    BY <1>1, <2>1 DEF Slice
<1>3. CASE Next /\ k \in Source(t)
  <2>1. staging'[t] = staging[t]
    BY <1>1, <1>3, StagingStep
  <2>2. DayOf(t, k)' = DayOf(t, k) /\ DayOf(t, old)' = DayOf(t, old)
    BY <1>1, <1>3, <2>1, SourcesGrow DEF Types
  <2>3. QED
    BY <1>1, <1>3, <2>1, <2>2 DEF Slice
<1>4. CASE Next /\ k \notin Source(t)
  <2>1. staging'[t] = staging[t]
    BY <1>4, StagingStep DEF Source, ods, events
  <2>2. DayOf(t, k)' = Today'
    BY <1>4, ArrivalsAreToday
  <2>3. DayOf(t, old)' = DayOf(t, old) /\ Today <= Today' /\ Today' \in Nat
    BY <1>1, <1>4, <2>1, SourcesGrow DEF Types
  <2>4. DayOf(t, old) \in Nat /\ Today \in Nat /\ DayOf(t, old) <= Today
    BY <1>1, <2>1, DaysPast
  <2>5. QED
    BY <2>2, <2>3, <2>4
<1>5. QED
  BY <1>2, <1>3, <1>4

\* No row, no partition, no budget spent.
LEMMA WatermarkInit ==
    ASSUME Init
    PROVE  WatermarkInv
<1>1. Types
  BY TypesInit
<1>2. ods = {} /\ events = {} /\ DOMAIN planned = {} /\ budget \in Budgets
  BY DEF Init, QualityLogInit, ReevaluationInit, ods, events
<1>3. \A b \in Budgets : b["late"] \in Nat /\ budget["late"] = b["late"]
  BY <1>2, QualityLogAssumption DEF QualityLogAssumption, Budgeted
<1>4. Past /\ PlannedToday /\ NothingIsPassedOver
  BY <1>2 DEF Past, PlannedToday, NothingIsPassedOver, Source
<1>5. QED
  BY <1>1, <1>2, <1>3, <1>4 DEF WatermarkInv, LateBudget

\* Nothing in the tables is newer than the clock, a commit that is late is
\* budgeted, and up to such a commit the watermark has passed over nothing.
THEOREM WatermarkAlways == Spec => []WatermarkInv
<1>1. Init => WatermarkInv
  BY WatermarkInit
<1>2. WatermarkInv /\ [Next]_vars => WatermarkInv'
  BY TypesStep, PastStep, PlannedTodayStep, LateStep, PassedOverStep DEF WatermarkInv
<1>3. QED
  BY <1>1, <1>2, PTL DEF Spec

\* The watermark passes over no row, however runs fail and whatever commits
\* while one of them reads.
THEOREM WatermarkPassesNoRow == Spec => []NothingIsPassedOver
BY WatermarkAlways, PTL DEF WatermarkInv

-----------------------------------------------------------------------------
(* What lies behind a window. *)

\* t has been copied, or built, in the run that is under way.
Copied(t) ==
    \/ layer \notin {"idle", "extract"}
    \/ layer = "extract" /\ t \notin todo

Built(t) ==
    \/ layer \notin {"idle", "extract", "staging"}
    \/ layer = "staging" /\ t \notin todo

\* The run leaves behind only what arrived after it began.
CopiedUpToRun ==
    NoneLate => \A t \in Tables : Copied(t) =>
        \A k \in Source(t) : k \in staging[t] \/ DayOf(t, k) >= began

\* What a build in this run has left in staging is behind its window.
BuiltUpToWindow ==
    \A t \in Tables : Built(t) =>
        /\ builtAt[t] # NotYet
        /\ \A k \in staging[t] : k \in silver[t] \/ ~InWindow(t, k, Lookback)

\* A row not yet in Silver arrived after the run of the last build began, or
\* some build came too late for its predecessor.
SilverGaps ==
    NoneLate => \A t \in Tables : builtAt[t] # NotYet =>
        \A k \in Source(t) : \/ k \in silver[t]
                             \/ DayOf(t, k) >= readAt[t]
                             \/ apart[t] > Lookback

\* The same of the report, for what it can still find in Silver.
ReportGaps ==
    NoneLate /\ builtAt["report"] # NotYet =>
        \A k \in events : \/ k \in reported
                          \/ DayOf("events", k) >= readAt["report"]
                          \/ apart["report"] > Lookback
                          \/ k \in Passed("events")

GapInv == CopiedUpToRun /\ BuiltUpToWindow /\ SilverGaps /\ ReportGaps

\* A key of a source keeps its day, or has just arrived, today.
LEMMA KeyDays ==
    ASSUME WatermarkInv, [Next]_vars, NoneLate', NEW t \in Tables, NEW k \in Source(t)'
    PROVE  /\ Today \in Nat /\ Today' \in Nat /\ Today <= Today'
           /\ \/ k \in Source(t) /\ DayOf(t, k)' = DayOf(t, k) /\ DayOf(t, k) \in Nat
              \/ k \notin Source(t) /\ DayOf(t, k)' = Today'
<1> USE DEF WatermarkInv
<1>1. CASE Next
  <2>1. CASE k \in Source(t)
    BY <1>1, <2>1, SourcesGrow, DaysPast DEF Types
  <2>2. CASE k \notin Source(t)
    BY <1>1, <2>2, SourcesGrow, ArrivalsAreToday DEF Types
  <2>3. QED
    BY <2>1, <2>2
<1>2. CASE UNCHANGED vars
  <2>1. Today' = Today /\ Source(t)' = Source(t) /\ DayOf(t, k)' = DayOf(t, k)
    BY <1>2 DEF vars, pgVars, Source, ods, events, DayOf, At, Today, Day
  <2>2. Today \in Nat
    BY TodayType
  <2>3. QED
    BY <2>1, <2>2, DaysPast
<1>3. QED
  BY <1>1, <1>2

\* A table that is copied was copied before, or is the one extracted now.
LEMMA CopiedStep ==
    ASSUME Types, [Next]_vars, NEW t \in Tables, Copied(t)'
    PROVE  \/ Copied(t) /\ began' = began
           \/ Extract(t) /\ UNCHANGED pgVars
<1>1. PgNext \/ JobNext \/ UNCHANGED vars => UNCHANGED <<layer, todo, began>>
  BY DEF PgNext, JobNext, ReadNow, ReadCandidates, JobStep, FetchStates, Plan, AppendEvents,
     JobFails, vars, runVars
<1>2. CASE UNCHANGED <<layer, todo, began>>
  BY <1>2 DEF Copied
<1>3. CASE StartRun \/ RunFails
  BY <1>3 DEF StartRun, RunFails, GoTo, Work, Copied
<1>4. CASE Gate \/ BuildMarts \/ BuildReport
  BY <1>4 DEF Gate, BuildMarts, BuildReport, Copied
<1>5. CASE \E u \in Tables : BuildStg(u)
  BY <1>5 DEF BuildStg, Copied
<1>6. CASE \E m \in {"clean", "held"} : BuildInt(m)
  BY <1>6 DEF BuildInt, Copied
<1>7. ASSUME NEW u \in Tables, u # t, Extract(u)
      PROVE  Copied(t) /\ began' = began
  BY <1>7 DEF Extract, Done, Work, Copied
<1>8. QED
  BY <1>1, <1>2, <1>3, <1>4, <1>5, <1>6, <1>7 DEF Next, RunNext, RunStep

\* A table that is built was built before, or is the one built now.
LEMMA BuiltStep ==
    ASSUME Types, [Next]_vars, NEW t \in Tables, Built(t)'
    PROVE  \/ Built(t) /\ UNCHANGED staging
           \/ BuildStg(t) /\ UNCHANGED pgVars
<1>1. PgNext \/ JobNext \/ UNCHANGED vars => UNCHANGED <<layer, todo, staging>>
  BY DEF PgNext, JobNext, ReadNow, ReadCandidates, JobStep, FetchStates, Plan, AppendEvents,
     JobFails, vars, runVars, warehouse
<1>2. CASE UNCHANGED <<layer, todo, staging>>
  BY <1>2 DEF Built
<1>3. CASE StartRun \/ RunFails
  BY <1>3 DEF StartRun, RunFails, GoTo, Work, Built
<1>4. CASE Gate \/ BuildMarts \/ BuildReport
  BY <1>4 DEF Gate, BuildMarts, BuildReport, warehouse, Built
<1>5. CASE \E u \in Tables : Extract(u)
  BY <1>5 DEF Extract, Done, Work, Built
<1>6. CASE \E m \in {"clean", "held"} : BuildInt(m)
  BY <1>6 DEF BuildInt, Built
<1>7. ASSUME NEW u \in Tables, u # t, BuildStg(u)
      PROVE  Built(t) /\ UNCHANGED staging
  BY <1>7 DEF BuildStg, Done, Work, Built
<1>8. QED
  BY <1>1, <1>2, <1>3, <1>4, <1>5, <1>6, <1>7 DEF Next, RunNext, RunStep

\* What the note of a build holds is kept until the next one.
LEMMA HistoryStep ==
    ASSUME Types, [Next]_vars, NEW b \in Incremental
    PROVE  \/ UNCHANGED <<builtAt[b], readAt[b], apart[b]>>
           \/ b \in Tables /\ BuildStg(b) /\ UNCHANGED pgVars
           \/ b = "report" /\ BuildReport /\ UNCHANGED pgVars
<1>0. /\ builtAt \in [Incremental -> 0..Today \cup {NotYet}]
      /\ readAt \in [Incremental -> 0..Today \cup {NotYet}]
      /\ apart \in [Incremental -> 0..Today]
  BY DEF Types, TypeOK, DailyRunTypeOK
<1>1. CASE UNCHANGED history
  BY <1>1 DEF history
<1>2. ASSUME NEW c \in Incremental, c # b, BuildIsNoted(c)
      PROVE  UNCHANGED <<builtAt[b], readAt[b], apart[b]>>
  BY <1>0, <1>2 DEF BuildIsNoted
<1>3. \/ UNCHANGED history
      \/ \E t \in Tables : BuildStg(t) /\ UNCHANGED pgVars
      \/ BuildReport /\ UNCHANGED pgVars
  BY DEF Next, PgNext, RunNext, JobNext, ReadNow, ReadCandidates, JobStep, FetchStates, Plan,
     AppendEvents, JobFails, RunStep, RunFails, StartRun, Extract, Gate, BuildInt, BuildMarts,
     vars, runVars
<1>4. /\ \A t \in Tables : BuildStg(t) => BuildIsNoted(t) /\ t \in Incremental
      /\ BuildReport => BuildIsNoted("report") /\ "report" \in Incremental
  BY DEF BuildStg, BuildReport, Incremental
<1>5. QED
  BY <1>1, <1>2, <1>3, <1>4

\* Silver changes where it is built.
LEMMA SilverStep ==
    ASSUME Types, [Next]_vars, NEW t \in Tables
    PROVE  \/ silver'[t] = silver[t]
           \/ BuildStg(t) /\ UNCHANGED pgVars
<1>1. silver \in [Tables -> SUBSET Nat]
  BY DEF Types, TypeOK, DailyRunTypeOK
<1>2. ASSUME NEW u \in Tables, u # t, BuildStg(u)
      PROVE  silver'[t] = silver[t]
  BY <1>1, <1>2 DEF BuildStg
<1>3. \/ UNCHANGED silver
      \/ \E u \in Tables : BuildStg(u) /\ UNCHANGED pgVars
  BY DEF Next, PgNext, RunNext, JobNext, ReadNow, ReadCandidates, JobStep, FetchStates, Plan,
     AppendEvents, JobFails, RunStep, RunFails, StartRun, Extract, Gate, BuildInt, BuildMarts,
     BuildReport, vars, runVars, warehouse
<1>4. CASE UNCHANGED silver
  BY <1>4
<1>5. CASE \E u \in Tables : BuildStg(u) /\ UNCHANGED pgVars
  <2>1. PICK u \in Tables : BuildStg(u) /\ UNCHANGED pgVars
    BY <1>5
  <2>2. CASE u = t
    BY <2>1, <2>2
  <2>3. CASE u # t
    BY <1>2, <2>1, <2>3
  <2>4. QED
    BY <2>2, <2>3
<1>6. QED
  BY <1>3, <1>4, <1>5

\* What a build of Silver leaves and notes.
LEMMA BuildStgNotes ==
    ASSUME Types, NEW t \in Tables, BuildStg(t), UNCHANGED pgVars
    PROVE  /\ silver'[t] = silver[t] \cup
                 {k \in staging[t] : builtAt[t] = NotYet \/ InWindow(t, k, Lookback)}
           /\ builtAt'[t] = Today /\ readAt'[t] = began
           /\ apart'[t] = IF builtAt[t] = NotYet THEN apart[t]
                          ELSE Larger(apart[t], Today - readAt[t])
           /\ UNCHANGED staging /\ Today' = Today /\ Today \in Nat /\ began \in 0..Today
           /\ Source(t)' = Source(t) /\ \A k : DayOf(t, k)' = DayOf(t, k)
<1>1. DailyRunTypeOK
  BY DEF Types, TypeOK
<1>2. silver'[t] = Rebuilt(t)
  BY <1>1 DEF BuildStg, DailyRunTypeOK
<1>3. Rebuilt(t) = silver[t] \cup {k \in staging[t] : builtAt[t] = NotYet \/ InWindow(t, k, Lookback)}
  BY <1>1, OverwriteAdds DEF Rebuilt, DailyRunTypeOK
<1>4. t \in Incremental
  BY DEF Incremental
<1>5. /\ builtAt'[t] = Today /\ readAt'[t] = began
      /\ apart'[t] = IF builtAt[t] = NotYet THEN apart[t] ELSE Larger(apart[t], Today - readAt[t])
  BY <1>1, <1>4 DEF BuildStg, BuildIsNoted, DailyRunTypeOK
<1>6. Today' = Today /\ Source(t)' = Source(t) /\ \A k : DayOf(t, k)' = DayOf(t, k)
  BY DEF pgVars, Source, ods, events, DayOf, At, Today, Day
<1>7. Today \in Nat /\ began \in 0..Today
  BY <1>1, TodayType DEF DailyRunTypeOK
<1>8. QED
  BY <1>2, <1>3, <1>5, <1>6, <1>7 DEF BuildStg

\* What is behind the window stays behind it.
LEMMA WindowMoves ==
    ASSUME WatermarkInv, [Next]_vars, NEW t \in Tables, NEW k \in Source(t), ~InWindow(t, k, Lookback)
    PROVE  ~InWindow(t, k, Lookback)'
<1>1. DayOf(t, k) \in Nat /\ Today \in Nat /\ Lookback \in Nat
  BY DaysPast, Calendar DEF WatermarkInv
<1>2. DayOf(t, k)' = DayOf(t, k) /\ Today' \in Nat /\ Today <= Today'
  <2>1. CASE Next
    BY <2>1, SourcesGrow DEF WatermarkInv, Types
  <2>2. CASE UNCHANGED vars
    BY <1>1, <2>2 DEF vars, pgVars, DayOf, At, Today, Day
  <2>3. QED
    BY <2>1, <2>2
<1>3. QED
  BY <1>1, <1>2 DEF InWindow

\* After an extraction of a table, staging has what its source had on the days
\* before the run: the day of the watermark is read again.
LEMMA CopiedUpToRunStep ==
    ASSUME WatermarkInv, CopiedUpToRun, [Next]_vars
    PROVE  CopiedUpToRun'
<1> SUFFICES ASSUME NoneLate', NEW t \in Tables, Copied(t)', NEW k \in Source(t)', k \notin staging'[t]
             PROVE  DayOf(t, k)' >= began'
  BY DEF CopiedUpToRun
<1>0. NoneLate /\ DailyRunTypeOK
  BY LateStep DEF WatermarkInv, Types, TypeOK
<1>1. CASE Extract(t) /\ UNCHANGED pgVars
  <2>1. staging'[t] = staging[t] \cup Slice(t) /\ Source(t)' = Source(t)
    BY <1>0, <1>1 DEF Extract, DailyRunTypeOK, pgVars, Source, ods, events
  <2>2. QED
    BY <1>0, <2>1 DEF WatermarkInv, NothingIsPassedOver
<1>2. CASE Copied(t) /\ began' = began
  <2>1. k \notin staging[t]
    BY StagingStep DEF WatermarkInv
  <2>2. k \in Source(t) => DayOf(t, k) >= began
    BY <1>0, <1>2, <2>1 DEF CopiedUpToRun
  <2>3. began \in 0..Today
    BY <1>0 DEF DailyRunTypeOK
  <2>4. QED
    BY <1>2, <2>2, <2>3, KeyDays
<1>3. QED
  BY <1>1, <1>2, CopiedStep DEF WatermarkInv

\* A build of Silver takes all that staging has inside its window.
LEMMA BuiltUpToWindowStep ==
    ASSUME WatermarkInv, BuiltUpToWindow, [Next]_vars
    PROVE  BuiltUpToWindow'
<1> SUFFICES ASSUME NEW t \in Tables, Built(t)'
             PROVE  /\ builtAt'[t] # NotYet
                    /\ \A k \in staging'[t] : k \in silver'[t] \/ ~InWindow(t, k, Lookback)'
  BY DEF BuiltUpToWindow, NotYet
<1>0. Types /\ t \in Incremental /\ staging[t] \subseteq Source(t) /\ t # "report"
  BY DEF WatermarkInv, Types, TypeOK, DailyRunTypeOK, Incremental, Tables
<1>1. CASE BuildStg(t) /\ UNCHANGED pgVars
  <2>1. builtAt'[t] # NotYet
    BY <1>0, <1>1, BuildStgNotes DEF NotYet
  <2>2. ASSUME NEW k \in staging'[t], k \notin silver'[t]
        PROVE  ~InWindow(t, k, Lookback)'
    <3>1. k \in staging[t] /\ ~InWindow(t, k, Lookback)
      BY <1>0, <1>1, <2>2, BuildStgNotes
    <3>2. QED
      BY <1>0, <3>1, WindowMoves
  <2>3. QED
    BY <2>1, <2>2
<1>2. CASE Built(t) /\ UNCHANGED staging /\ ~(BuildStg(t) /\ UNCHANGED pgVars)
  <2>1. builtAt'[t] = builtAt[t]
    BY <1>0, <1>2, HistoryStep
  <2>2. ASSUME NEW k \in staging'[t], k \notin silver'[t]
        PROVE  ~InWindow(t, k, Lookback)'
    <3>1. k \in staging[t] /\ k \notin silver[t]
      BY <1>0, <1>2, <2>2, RowsStay
    <3>2. ~InWindow(t, k, Lookback) /\ k \in Source(t)
      BY <1>0, <1>2, <3>1 DEF BuiltUpToWindow
    <3>3. QED
      BY <3>2, WindowMoves
  <2>3. QED
    BY <1>2, <2>1, <2>2 DEF BuiltUpToWindow
<1>3. QED
  BY <1>0, <1>1, <1>2, BuiltStep

\* A build of Silver leaves out what arrived after the extraction it reads, and
\* what its window no longer reaches.
LEMMA SilverGapsStep ==
    ASSUME WatermarkInv, CopiedUpToRun, SilverGaps, [Next]_vars
    PROVE  SilverGaps'
<1> SUFFICES ASSUME NoneLate', NEW t \in Tables, builtAt'[t] # NotYet,
                    NEW k \in Source(t)', k \notin silver'[t]
             PROVE  DayOf(t, k)' >= readAt'[t] \/ apart'[t] > Lookback
  BY DEF SilverGaps, NotYet
<1>0. /\ NoneLate /\ Types /\ DailyRunTypeOK /\ t \in Incremental /\ t # "report"
      /\ apart[t] \in 0..Today /\ readAt[t] \in 0..Today \cup {-1}
  BY LateStep DEF WatermarkInv, Types, TypeOK, DailyRunTypeOK, Incremental, Tables, NotYet
<1>1. CASE BuildStg(t) /\ UNCHANGED pgVars
  <2>1. k \in Source(t) /\ DayOf(t, k)' = DayOf(t, k) /\ readAt'[t] = began
    BY <1>0, <1>1, BuildStgNotes
  <2>2. DayOf(t, k) \in Nat /\ Today \in Nat /\ Lookback \in Nat
    BY <2>1, DaysPast, Calendar DEF WatermarkInv
  <2>3. CASE k \notin staging[t]
    <3>1. Copied(t)
      BY <1>1 DEF BuildStg, Copied
    <3>2. DayOf(t, k) >= began
      BY <1>0, <2>1, <2>3, <3>1 DEF CopiedUpToRun
    <3>3. QED
      BY <2>1, <3>2
  <2>4. CASE k \in staging[t]
    <3>1. k \notin silver[t] /\ builtAt[t] # NotYet /\ ~InWindow(t, k, Lookback)
      BY <1>0, <1>1, <2>4, BuildStgNotes
    <3>2. apart'[t] = Larger(apart[t], Today - readAt[t])
      BY <1>0, <1>1, <3>1, BuildStgNotes
    <3>3. DayOf(t, k) >= readAt[t] \/ apart[t] > Lookback
      BY <1>0, <2>1, <3>1 DEF SilverGaps
    <3>4. DayOf(t, k) < Today - Lookback
      BY <2>2, <3>1 DEF InWindow
    <3>5. QED
      BY <1>0, <2>2, <3>2, <3>3, <3>4 DEF Larger
  <2>5. QED
    BY <2>3, <2>4
<1>2. CASE ~(BuildStg(t) /\ UNCHANGED pgVars)
  <2>1. UNCHANGED <<builtAt[t], readAt[t], apart[t]>> /\ k \notin silver[t]
    BY <1>0, <1>2, HistoryStep, RowsStay
  <2>2. k \in Source(t) => DayOf(t, k) >= readAt[t] \/ apart[t] > Lookback
    BY <1>0, <2>1 DEF SilverGaps
  <2>3. QED
    BY <1>0, <2>1, <2>2, KeyDays
<1>3. QED
  BY <1>1, <1>2

\* A row that no build will take stays so.
LEMMA PassedStays ==
    ASSUME WatermarkInv, [Next]_vars, NEW t \in Tables, NEW k \in Passed(t)
    PROVE  k \in Passed(t)'
<1>0. /\ Types /\ t \in Incremental /\ t # "report" /\ k \in Source(t) /\ staging[t] \subseteq Source(t)
      /\ k \in staging[t] /\ k \notin silver[t] /\ builtAt[t] # NotYet /\ ~InWindow(t, k, Lookback)
  BY DEF WatermarkInv, Types, TypeOK, DailyRunTypeOK, Incremental, Tables, Passed
<1>1. k \in staging'[t] /\ ~InWindow(t, k, Lookback)'
  BY <1>0, WindowMoves, StagingStep
<1>2. k \notin silver'[t] /\ builtAt'[t] # NotYet
  <2>1. CASE BuildStg(t) /\ UNCHANGED pgVars
    BY <1>0, <2>1, BuildStgNotes DEF NotYet
  <2>2. CASE ~(BuildStg(t) /\ UNCHANGED pgVars)
    <3>1. silver'[t] = silver[t]
      BY <1>0, <2>2, SilverStep
    <3>2. QED
      BY <1>0, <2>2, <3>1, HistoryStep
  <2>3. QED
    BY <2>1, <2>2
<1>3. QED
  BY <1>1, <1>2 DEF Passed, NotYet

\* The same of the build of the report, by the days of its own builds.
LEMMA ReportGapsStep ==
    ASSUME WatermarkInv, GapInv, [Next]_vars
    PROVE  ReportGaps'
<1> SUFFICES ASSUME NoneLate', builtAt'["report"] # NotYet, NEW k \in events', k \notin reported',
                    k \notin Passed("events")'
             PROVE  DayOf("events", k)' >= readAt'["report"] \/ apart'["report"] > Lookback
  BY DEF ReportGaps, NotYet
<1>0. /\ NoneLate /\ Types /\ DailyRunTypeOK /\ "report" \in Incremental /\ "report" \notin Tables
      /\ "events" \in Tables /\ Source("events") = events /\ Source("events")' = events'
      /\ ReportedIsSilver /\ silver["events"] \subseteq staging["events"]
      /\ staging["events"] \subseteq events
  BY LateStep DEF WatermarkInv, Types, TypeOK, DailyRunTypeOK, Incremental, Tables, Source
<1>1. k \notin Passed("events")
  BY <1>0, PassedStays
<1>2. apart["report"] \in 0..Today /\ readAt["report"] \in 0..Today \cup {-1}
  BY <1>0 DEF DailyRunTypeOK, NotYet
<1>3. CASE BuildReport /\ UNCHANGED pgVars
  <2>1. /\ events' = events /\ DayOf("events", k)' = DayOf("events", k)
        /\ readAt'["report"] = began
        /\ apart'["report"] = IF builtAt["report"] = NotYet THEN apart["report"]
                              ELSE Larger(apart["report"], Today - readAt["report"])
    BY <1>0, <1>3 DEF BuildReport, BuildIsNoted, DailyRunTypeOK, pgVars, events, DayOf, At, Day
  <2>2. /\ DayOf("events", k) \in Nat /\ Today \in Nat /\ Lookback \in Nat
    BY <1>0, <2>1, DaysPast, Calendar DEF WatermarkInv
  <2>3. reported' = reported \cup
          {j \in silver["events"] : builtAt["report"] = NotYet \/ InWindow("events", j, Lookback)}
    BY <1>0, <1>3, OverwriteAdds DEF BuildReport, Reported, ReportedIsSilver
  <2>4. Copied("events") /\ Built("events")
    BY <1>3 DEF BuildReport, Copied, Built
  <2>5. CASE k \notin staging["events"]
    BY <1>0, <2>1, <2>4, <2>5 DEF GapInv, CopiedUpToRun
  <2>6. CASE k \in staging["events"] /\ k \notin silver["events"]
    BY <1>0, <1>1, <2>4, <2>6 DEF GapInv, BuiltUpToWindow, Passed
  <2>7. CASE k \in silver["events"]
    <3>1. builtAt["report"] # NotYet /\ ~InWindow("events", k, Lookback) /\ k \notin reported
      BY <2>3, <2>7
    <3>2. DayOf("events", k) >= readAt["report"] \/ apart["report"] > Lookback
      BY <1>0, <1>1, <2>1, <3>1 DEF GapInv, ReportGaps
    <3>3. DayOf("events", k) < Today - Lookback
      BY <2>2, <3>1 DEF InWindow
    <3>4. QED
      BY <1>2, <2>1, <2>2, <3>1, <3>2, <3>3 DEF Larger
  <2>8. QED
    BY <2>5, <2>6, <2>7
<1>4. CASE ~(BuildReport /\ UNCHANGED pgVars)
  <2>1. UNCHANGED <<builtAt["report"], readAt["report"], apart["report"]>> /\ k \notin reported
    BY <1>0, <1>4, HistoryStep, RowsStay
  <2>2. k \in events => DayOf("events", k) >= readAt["report"] \/ apart["report"] > Lookback
    BY <1>0, <1>1, <2>1 DEF GapInv, ReportGaps
  <2>3. QED
    BY <1>0, <1>2, <2>1, <2>2, KeyDays
<1>5. QED
  BY <1>3, <1>4

\* Nothing has been built and nothing can be missing.
LEMMA GapInit ==
    ASSUME Init
    PROVE  GapInv
<1>1. /\ layer = "idle" /\ events = {}
      /\ \A b \in Incremental : builtAt[b] = NotYet
  BY DEF Init, QualityLogInit, DailyRunInit, events
<1>2. QED
  BY <1>1 DEF GapInv, CopiedUpToRun, BuiltUpToWindow, SilverGaps, ReportGaps, Copied, Built,
     Incremental

\* What is missing from staging, from Silver and from the report, by the day of
\* the build that left it out, in every state.
THEOREM GapAlways == Spec => [](WatermarkInv /\ GapInv)
<1>1. Init => WatermarkInv /\ GapInv
  BY WatermarkInit, GapInit
<1>2. WatermarkInv /\ GapInv /\ [Next]_vars => GapInv'
  BY CopiedUpToRunStep, BuiltUpToWindowStep, SilverGapsStep, ReportGapsStep DEF GapInv
<1>3. QED
  BY <1>1, <1>2, WatermarkAlways, PTL DEF Spec

\* The lookback window forgives failures: only a gap of more than Lookback days
\* between a run and the next build keeps a row out of Silver for good.
THEOREM ShortGaps == Spec => []ShortGapLosesNothing
<1>1. WatermarkInv /\ GapInv => ShortGapLosesNothing
  <2> SUFFICES ASSUME WatermarkInv, GapInv, NoneLate, NEW t \in Tables, NEW k \in Passed(t)
               PROVE  Larger(apart[t], Today - readAt[t]) > Lookback
    BY DEF ShortGapLosesNothing
  <2>1. /\ Types /\ DailyRunTypeOK /\ t \in Incremental /\ k \in Source(t)
        /\ k \notin silver[t] /\ builtAt[t] # NotYet /\ ~InWindow(t, k, Lookback)
    BY DEF WatermarkInv, Types, TypeOK, DailyRunTypeOK, Incremental, Passed
  <2>2. apart[t] \in 0..Today /\ readAt[t] \in 0..Today \cup {-1}
    BY <2>1 DEF DailyRunTypeOK, NotYet
  <2>3. DayOf(t, k) \in Nat /\ Today \in Nat /\ Lookback \in Nat /\ DayOf(t, k) < Today - Lookback
    BY <2>1, DaysPast, Calendar DEF WatermarkInv, InWindow
  <2>4. DayOf(t, k) >= readAt[t] \/ apart[t] > Lookback
    BY <2>1 DEF GapInv, SilverGaps
  <2>5. QED
    BY <2>2, <2>3, <2>4 DEF Larger
<1>2. QED
  BY <1>1, GapAlways, PTL

\* The report counts every event of Silver, unless such a gap lies between two
\* builds of the report itself.
THEOREM ReportGapsOnly == Spec => []ReportMissesOnlyGaps
<1>1. WatermarkInv /\ GapInv => ReportMissesOnlyGaps
  <2> SUFFICES ASSUME WatermarkInv, GapInv, NoneLate, builtAt["report"] # NotYet,
                      NEW k \in silver["events"], k \notin reported, ~InWindow("events", k, Lookback)
               PROVE  Larger(apart["report"], Today - readAt["report"]) > Lookback
    BY DEF ReportMissesOnlyGaps
  <2>1. /\ Types /\ DailyRunTypeOK /\ "report" \in Incremental /\ "events" \in Tables
        /\ k \in Source("events") /\ Source("events") = events /\ k \notin Passed("events")
    BY DEF WatermarkInv, Types, TypeOK, DailyRunTypeOK, Incremental, Tables, Source, Passed
  <2>2. apart["report"] \in 0..Today /\ readAt["report"] \in 0..Today \cup {-1}
    BY <2>1 DEF DailyRunTypeOK, NotYet
  <2>3. /\ DayOf("events", k) \in Nat /\ Today \in Nat /\ Lookback \in Nat
        /\ DayOf("events", k) < Today - Lookback
    BY <2>1, DaysPast, Calendar DEF WatermarkInv, InWindow
  <2>4. DayOf("events", k) >= readAt["report"] \/ apart["report"] > Lookback
    BY <2>1 DEF GapInv, ReportGaps
  <2>5. QED
    BY <2>2, <2>3, <2>4 DEF Larger
<1>2. QED
  BY <1>1, GapAlways, PTL
=============================================================================
