---------------------------- MODULE Quality_proofs ----------------------------
(***************************************************************************)
(* Proofs about the log of quality events and what Gold is made of, for    *)
(* every set of rows and every order of deployments, re-evaluations, runs  *)
(* and failures: what the log holds, the partition of Silver that the      *)
(* marts read, and the values that Gold never shows again.                 *)
(***************************************************************************)
EXTENDS Analytics_proofs

-----------------------------------------------------------------------------
(* The log. *)

\* Events are about rows of ods, in the order of their ranks.
LogOrder == \A i \in events : log[i].raw \in ods /\ log[i].rank <= 2 * i

\* A row is judged once at ingestion; no later event makes it clean.
JudgedOnce ==
    /\ \A i, j \in events :
          log[i].raw = log[j].raw /\ log[i].from = None /\ log[j].from = None => i = j
    /\ \A i \in events : log[i].to = "clean" => log[i].from = None

\* What the job has listed and planned, wherever it is: dirty rows that have a
\* state, and transitions that are none of ingestion's.
JobLocals ==
    /\ step # "append" => planned = << >>
    /\ \A r \in Raws : /\ step = "idle" => listed[r] = 0
                       /\ listed[r] > 0 => IsDirty(r)
                       /\ listed[r] > 0 /\ step = "plan" => known[r] # None
    /\ \A p \in DOMAIN planned :
          /\ IsDirty(planned[p].raw)
          /\ planned[p].from # None
          /\ planned[p].to \in {"promoted", "re_quarantined"}
          /\ planned[p].rank <= 2 * Len(log) + 1

LogInv == Types /\ LogOrder /\ JudgedOnce /\ JobLocals

-----------------------------------------------------------------------------
(* What a step adds to the log, and what that leaves as it was. *)

\* The event of a row's ingestion.
Judgement(i, r) ==
    /\ r \in Raws /\ stamp[r] = NotYet /\ stamp'[r] # NotYet
    /\ i = Len(log) + 1
    /\ log'[i].raw = r /\ log'[i].from = None /\ log'[i].rank = 2 * Len(log) + 2
    /\ log'[i].to = IF Fails(r, rules) THEN "quarantined" ELSE "clean"
    /\ UNCHANGED <<runVars, jobVars>>

\* The event of an operator.
Rejection(i, r) ==
    /\ r \in Raws /\ RejectNow(r) /\ StateOf(r) \in {"quarantined", "re_quarantined"}
    /\ i = Len(log) + 1
    /\ log'[i].raw = r /\ log'[i].from = StateOf(r) /\ log'[i].to = "permanently_rejected"
    /\ log'[i].rank = 2 * Len(log) + 2
    /\ UNCHANGED <<runVars, jobVars>>

\* An event of the job.
Reevaluation(i, p) ==
    /\ AppendEvents /\ p \in DOMAIN planned
    /\ i = Len(log) + p /\ log'[i] = planned[p]

\* Three writers add to the log: ingestion, an operator, the job.
LEMMA NewEvent ==
    ASSUME TypeOK, [Next]_vars, NEW i \in events', i \notin events
    PROVE  \/ \E r : Judgement(i, r)
           \/ \E r : Rejection(i, r)
           \/ \E p : Reevaluation(i, p)
<1>0. /\ log \in Seq(EventType) /\ planned \in Seq(EventType)
      /\ stamp \in [Raws -> 0..Horizon \cup {NotYet}]
  BY DEF TypeOK, QualityLogTypeOK, ReevaluationTypeOK
<1>1. ASSUME NEW r \in Raws, NEW t \in Nat, LandAt(r, t), UNCHANGED <<runVars, jobVars>>
      PROVE  Judgement(i, r)
  <2>1. \E e : /\ log' = Append(log, e) /\ e.raw = r /\ e.from = None /\ e.rank = 2 * Len(log) + 2
              /\ e.to = IF Fails(r, rules) THEN "quarantined" ELSE "clean"
    BY <1>1 DEF LandAt, NowRank
  <2>2. i = Len(log) + 1
    BY <1>0, <2>1 DEF events
  <2>3. /\ log'[i].raw = r /\ log'[i].from = None /\ log'[i].rank = 2 * Len(log) + 2
        /\ log'[i].to = IF Fails(r, rules) THEN "quarantined" ELSE "clean"
    BY <1>0, <2>1, <2>2
  <2>4. stamp[r] = NotYet /\ stamp'[r] # NotYet
    BY <1>0, <1>1 DEF LandAt, NotYet
  <2>5. QED
    BY <1>1, <2>2, <2>3, <2>4 DEF Judgement
<1>2. ASSUME NEW r \in Raws, RejectNow(r), UNCHANGED <<runVars, jobVars>>
      PROVE  Rejection(i, r)
  <2>1. \E e : /\ log' = Append(log, e) /\ e.raw = r /\ e.from = StateOf(r)
              /\ e.to = "permanently_rejected" /\ e.rank = 2 * Len(log) + 2
    BY <1>2 DEF RejectNow, Reject, NowRank
  <2>2. i = Len(log) + 1
    BY <1>0, <2>1 DEF events
  <2>3. /\ log'[i].raw = r /\ log'[i].from = StateOf(r) /\ log'[i].to = "permanently_rejected"
        /\ log'[i].rank = 2 * Len(log) + 2
    BY <1>0, <2>1, <2>2
  <2>4. QED
    BY <1>2, <2>2, <2>3 DEF Rejection, RejectNow, Reject
<1>3. CASE AppendEvents
  <2>1. log' = log \o planned
    BY <1>3 DEF AppendEvents
  <2>2. i - Len(log) \in DOMAIN planned /\ log'[i] = planned[i - Len(log)] /\ i = Len(log) + (i - Len(log))
    BY <1>0, <2>1 DEF events
  <2>3. QED
    BY <1>3, <2>2 DEF Reevaluation
<1>4. log' # log
  BY DEF events
<1>5. QED
  <2>1. RunNext \/ UNCHANGED vars => UNCHANGED log
    BY DEF RunNext, RunFails, vars, pgVars
  <2>2. JobNext /\ ~AppendEvents => UNCHANGED log
    BY DEF JobNext, ReadNow, ReadCandidates, JobStep, FetchStates, Plan, JobFails, pgVars
  <2>3. PgNext => \/ UNCHANGED log
                  \/ \E r \in Raws : LandAt(r, tick) /\ UNCHANGED <<runVars, jobVars>>
                  \/ \E r \in Raws : LandAt(r, tick - 1) /\ tick > 0 /\ UNCHANGED <<runVars, jobVars>>
                  \/ \E r \in Raws : RejectNow(r) /\ UNCHANGED <<runVars, jobVars>>
    BY DEF PgNext, TickNow, Tick, Deploy, Land, LandLate
  <2>4. tick \in Nat /\ (tick > 0 => tick - 1 \in Nat)
    BY Calendar DEF TypeOK, QualityLogTypeOK
  <2>5. QED
    BY <1>1, <1>2, <1>3, <1>4, <2>1, <2>2, <2>3, <2>4 DEF Next

\* The log before a step is a prefix of the log after it.
LEMMA LogGrows ==
    ASSUME TypeOK, [Next]_vars
    PROVE  /\ events \subseteq events' /\ \A i \in events : log'[i] = log[i]
           /\ ods \subseteq ods'
           /\ events = 1..Len(log) /\ Len(log) \in Nat
<1>1. CASE Next
  BY <1>1, StepForward DEF Forward, events, TypeOK, QualityLogTypeOK
<1>2. CASE UNCHANGED vars
  BY <1>2 DEF vars, pgVars, events, ods, TypeOK, QualityLogTypeOK
<1>3. QED
  BY <1>1, <1>2

\* The state before and after a step, by the log.
LEMMA StateByLog ==
    ASSUME NEW r
    PROVE  /\ StateOf(r) = StateInLog(log, r, DOMAIN log)
           /\ StateOf(r)' = StateInLog(log', r, DOMAIN log')
BY DEF StateOf, StateIn, EventsOf, NoLater, events, StateInLog, OfRow, NoLaterIn

\* The state of a row changes by an event of its own.
LEMMA StateStays ==
    ASSUME Types, Types', [Next]_vars, NEW r,
           \A i \in events' : i \notin events => log'[i].raw # r
    PROVE  StateOf(r)' = StateOf(r)
<1>0. log \in Seq(EventType) /\ log' \in Seq(EventType) /\ events = DOMAIN log /\ events' = DOMAIN log'
  BY DEF Types, TypeOK, QualityLogTypeOK, events
<1>1. /\ events \subseteq events' /\ \A i \in events : log'[i] = log[i]
  BY LogGrows DEF Types
<1>2. OfRow(log, r, DOMAIN log) = OfRow(log', r, DOMAIN log')
  BY <1>0, <1>1 DEF OfRow
<1>3. \A i \in OfRow(log, r, DOMAIN log) : log[i] = log'[i]
  BY <1>0, <1>1 DEF OfRow
<1>4. DOMAIN log \in SUBSET DOMAIN log /\ DOMAIN log' \in SUBSET DOMAIN log'
  OBVIOUS
<1>5. StateInLog(log, r, DOMAIN log) = StateInLog(log', r, DOMAIN log')
  BY <1>0, <1>2, <1>3, <1>4, SameEventsSameState
<1>6. QED
  BY <1>5, StateByLog

\* The snapshot of a row is taken once.
LEMMA DirtyStays ==
    ASSUME LogInv, [Next]_vars, NEW r
    PROVE  /\ IsDirty(r) => IsDirty(r)'
           /\ r \in ods /\ IsDirty(r)' => IsDirty(r)
<1>0. TypeOK /\ events \subseteq events' /\ \A i \in events : log'[i] = log[i]
  BY LogGrows DEF LogInv, Types
<1>1. IsDirty(r) => IsDirty(r)'
  BY <1>0 DEF IsDirty
<1>2. ASSUME r \in ods, NEW i \in events', log'[i].raw = r, log'[i].from = None,
             log'[i].to = "quarantined", i \notin events
      PROVE  FALSE
  <2>1. CASE \E q : Judgement(i, q)
    BY <1>2, <2>1 DEF Judgement, ods
  <2>2. CASE \E q : Rejection(i, q)
    BY <1>2, <2>2 DEF Rejection
  <2>3. CASE \E p : Reevaluation(i, p)
    BY <1>2, <2>3 DEF Reevaluation, LogInv, JobLocals
  <2>4. QED
    BY <1>0, <1>2, <2>1, <2>2, <2>3, NewEvent
<1>3. QED
  BY <1>0, <1>1, <1>2 DEF IsDirty

\* A row with an event has a state, and the other way round.
LEMMA StateOfRow ==
    ASSUME Types, NEW r
    PROVE  /\ (\E i \in events : log[i].raw = r) <=> StateOf(r) # None
           /\ StateOf(r) # None => StateOf(r) \in States
<1>0. log \in Seq(EventType) /\ events = DOMAIN log /\ DOMAIN log \in SUBSET DOMAIN log
  BY DEF Types, TypeOK, QualityLogTypeOK, events
<1>1. CASE OfRow(log, r, DOMAIN log) = {}
  BY <1>0, <1>1, StateByLog DEF StateInLog, OfRow
<1>2. CASE OfRow(log, r, DOMAIN log) # {}
  <2>1. OfRow(log, r, DOMAIN log) \in SUBSET DOMAIN log
    BY DEF OfRow
  <2>2. PICK i \in OfRow(log, r, DOMAIN log) : IsLatest(log, OfRow(log, r, DOMAIN log), i)
    BY <1>0, <1>2, <2>1, LatestExists
  <2>3. StateOf(r) = log[i].to
    BY <1>0, <2>2, LatestDecides, StateByLog
  <2>4. i \in events /\ log[i].raw = r
    BY <1>0, <2>2 DEF OfRow
  <2>5. log[i].to \in States
    BY <1>0, <2>4, RankType DEF EventType
  <2>6. log[i].to # None
    BY <2>5 DEF States, None
  <2>7. QED
    BY <2>3, <2>4, <2>5, <2>6
<1>3. QED
  BY <1>1, <1>2

\* A row with an event is in ods.
LEMMA RowInOds ==
    ASSUME Types, LogOrder, NEW r, IsDirty(r) \/ StateOf(r) # None
    PROVE  r \in ods
BY StateOfRow DEF IsDirty, LogOrder

\* Whoever writes, the new event is of a row of ods and takes the next rank: the
\* job's events carry the time of the plan, which is not later.
LEMMA LogOrderStep ==
    ASSUME LogInv, [Next]_vars
    PROVE  LogOrder'
<1> SUFFICES ASSUME NEW i \in events'
             PROVE  log'[i].raw \in ods' /\ log'[i].rank <= 2 * i
  BY DEF LogOrder
<1>0. /\ Types /\ TypeOK /\ events \subseteq events' /\ ods \subseteq ods'
      /\ \A j \in events : log'[j] = log[j]
      /\ events = 1..Len(log) /\ Len(log) \in Nat
  BY LogGrows DEF LogInv, Types
<1>1. CASE i \in events
  BY <1>0, <1>1 DEF LogInv, LogOrder
<1>2. ASSUME NEW r, Judgement(i, r)
      PROVE  log'[i].raw \in ods' /\ log'[i].rank <= 2 * i
  BY <1>0, <1>2 DEF Judgement, ods
<1>3. ASSUME NEW r, Rejection(i, r)
      PROVE  log'[i].raw \in ods' /\ log'[i].rank <= 2 * i
  <2>1. r \in ods
    BY <1>0, <1>3, RowInOds DEF Rejection, LogInv, None
  <2>2. QED
    BY <1>0, <1>3, <2>1 DEF Rejection
<1>4. ASSUME NEW p, Reevaluation(i, p)
      PROVE  log'[i].raw \in ods' /\ log'[i].rank <= 2 * i
  <2>1. /\ log'[i] = planned[p] /\ IsDirty(planned[p].raw) /\ planned[p].rank <= 2 * Len(log) + 1
        /\ i = Len(log) + p /\ p \in DOMAIN planned /\ planned \in Seq(EventType)
    BY <1>0, <1>4 DEF Reevaluation, LogInv, JobLocals, TypeOK, ReevaluationTypeOK
  <2>2. log'[i].raw \in ods
    BY <1>0, <2>1, RowInOds DEF LogInv
  <2>3. p \in Nat /\ p >= 1 /\ planned[p].rank \in Nat
    BY <2>1, RankType
  <2>4. planned[p].rank <= 2 * i
    BY <1>0, <2>1, <2>3
  <2>5. QED
    BY <1>0, <2>1, <2>2, <2>4
<1>5. QED
  BY <1>0, <1>1, <1>2, <1>3, <1>4, NewEvent

\* One transaction writes a row with its first event; the others start from a
\* state, and none of them ends in clean.
LEMMA JudgedOnceStep ==
    ASSUME LogInv, [Next]_vars
    PROVE  JudgedOnce'
<1>0. /\ Types /\ TypeOK /\ events \subseteq events' /\ \A j \in events : log'[j] = log[j]
  BY LogGrows DEF LogInv, Types
<1>1. ASSUME NEW i \in events', i \notin events
      PROVE  /\ log'[i].from = None => \E r : Judgement(i, r)
             /\ log'[i].to = "clean" => log'[i].from = None
  <2>1. CASE \E r : Judgement(i, r)
    BY <2>1 DEF Judgement
  <2>2. CASE \E r : Rejection(i, r)
    BY <2>2 DEF Rejection, None
  <2>3. CASE \E p : Reevaluation(i, p)
    BY <2>3 DEF Reevaluation, LogInv, JobLocals
  <2>4. QED
    BY <1>0, <1>1, <2>1, <2>2, <2>3, NewEvent
<1>2. ASSUME NEW i \in events', NEW j \in events', log'[i].raw = log'[j].raw,
             log'[i].from = None, log'[j].from = None
      PROVE  i = j
  <2>1. CASE i \in events /\ j \in events
    BY <1>0, <1>2, <2>1 DEF LogInv, JudgedOnce
  <2>2. \A k, l \in events' : /\ k \in events /\ l \notin events /\ log'[l].from = None
                             => log'[k].raw # log'[l].raw
    BY <1>0, <1>1 DEF Judgement, LogInv, LogOrder, ods
  <2>3. CASE i \notin events /\ j \notin events
    BY <1>1, <1>2, <2>3 DEF Judgement
  <2>4. QED
    BY <1>2, <2>1, <2>2, <2>3
<1>3. QED
  BY <1>0, <1>1, <1>2 DEF JudgedOnce, LogInv

\* Each planned event is the transition of a listed row.
LEMMA PlannedAreChanging ==
    ASSUME TypeOK, Plan
    PROVE  \A p \in DOMAIN planned' : \E r \in Raws :
              /\ listed[r] > 0 /\ Decide(r, known[r]) # None
              /\ planned'[p].raw = r /\ planned'[p].from = known[r]
              /\ planned'[p].to = Decide(r, known[r])
              /\ planned'[p].rank = 2 * Len(log) + 1
<1>1. PICK rows \in [1..Cardinality(Changing) -> Changing] :
         planned' = [i \in DOMAIN rows |-> EventFor(rows[i][1])]
  BY DEF Plan
<1>2. ASSUME NEW x \in Changing
      PROVE  x[1] \in Raws /\ listed[x[1]] > 0 /\ Decide(x[1], known[x[1]]) # None
  <2>1. x[1] \in Raws /\ x[2] \in 1..2 /\ x[2] <= listed[x[1]] /\ Decide(x[1], known[x[1]]) # None
    BY DEF Changing
  <2>2. listed[x[1]] \in 0..2
    BY <2>1 DEF TypeOK, ReevaluationTypeOK
  <2>3. QED
    BY <2>1, <2>2
<1>3. ASSUME NEW p \in DOMAIN planned'
      PROVE  planned'[p] = EventFor(rows[p][1]) /\ rows[p] \in Changing
  BY <1>1
<1>4. QED
  BY <1>2, <1>3 DEF EventFor, PlannedRank

\* The snapshot of a row, in a log that is given.
DirtyIn(lg, r) ==
    \E i \in DOMAIN lg : lg[i].raw = r /\ lg[i].from = None /\ lg[i].to = "quarantined"

\* The job lists quarantined rows, reads the states of those and plans from both.
LEMMA JobLocalsStep ==
    ASSUME LogInv, [Next]_vars
    PROVE  JobLocals'
<1> SUFFICES /\ step' # "append" => planned' = << >>
             /\ \A r \in Raws : /\ step' = "idle" => listed'[r] = 0
                                /\ listed'[r] > 0 => DirtyIn(log', r)
                                /\ listed'[r] > 0 /\ step' = "plan" => known'[r] # None
             /\ \A p \in DOMAIN planned' :
                   /\ DirtyIn(log', planned'[p].raw)
                   /\ planned'[p].from # None
                   /\ planned'[p].to \in {"promoted", "re_quarantined"}
                   /\ planned'[p].rank <= 2 * Len(log') + 1
  BY DEF JobLocals, IsDirty, events, DirtyIn
<1>0. /\ Types /\ TypeOK /\ JobLocals /\ planned \in Seq(EventType)
      /\ listed \in [Raws -> 0..2]
      /\ \A q : IsDirty(q) => DirtyIn(log', q)
  <2>1. \A q : IsDirty(q) => DirtyIn(log', q)
    BY DirtyStays DEF IsDirty, events, DirtyIn
  <2>2. QED
    BY <2>1 DEF LogInv, Types, TypeOK, ReevaluationTypeOK
<1>1. Len(log) \in Nat /\ Len(log') \in Nat /\ Len(log) <= Len(log')
  <2>1. log' \in Seq(EventType)
    BY <1>0, TypesStep DEF Types, TypeOK, QualityLogTypeOK
  <2>2. /\ events' = 1..Len(log') /\ Len(log') \in Nat
        /\ events = 1..Len(log) /\ Len(log) \in Nat
        /\ events \subseteq events'
    BY <1>0, <2>1, LogGrows DEF events
  <2>3. \A i \in 1..Len(log) : i \in 1..Len(log')
    BY <2>2
  <2>4. CASE Len(log) > 0
    BY <2>2, <2>3, <2>4
  <2>5. QED
    BY <2>2, <2>4
<1>2. \A p \in DOMAIN planned : planned[p].rank \in Nat
  BY <1>0, RankType
<1>3. CASE UNCHANGED jobVars
  <2>1. UNCHANGED <<step, listed, known, planned>>
    BY <1>3 DEF jobVars
  <2>2. \A p \in DOMAIN planned' : planned'[p].rank <= 2 * Len(log') + 1
    BY <1>0, <1>1, <1>2, <2>1 DEF JobLocals
  <2>3. \A p \in DOMAIN planned' : DirtyIn(log', planned'[p].raw)
    BY <1>0, <2>1 DEF JobLocals
  <2>4. \A r \in Raws : listed'[r] > 0 => DirtyIn(log', r)
    BY <1>0, <2>1 DEF JobLocals
  <2>5. QED
    BY <1>0, <2>1, <2>2, <2>3, <2>4 DEF JobLocals
<1>4. CASE ReadNow
  <2>1. planned' = << >> /\ step' = "fetch"
    BY <1>0, <1>4 DEF ReadNow, ReadCandidates, JobLocals
  <2>2. PICK last \in Raws : listed' = [r \in Raws |-> IF r <= last THEN Listed(r) ELSE 0]
    BY <1>4 DEF ReadNow, ReadCandidates
  <2>3. \A r \in Raws : listed'[r] > 0 => DirtyIn(log', r)
    BY <1>0, <2>2 DEF Listed
  <2>4. QED
    BY <2>1, <2>3 DEF JobLocals
<1>5. CASE FetchStates
  <2>1. \A r \in Raws : listed[r] > 0 => StateOf(r) # None
    BY <1>0, StateOfRow DEF JobLocals, IsDirty
  <2>2. /\ step' = "plan" /\ planned' = << >> /\ listed' = listed
        /\ known' = [r \in Raws |-> IF listed[r] > 0 THEN StateOf(r) ELSE None]
    BY <1>0, <1>5 DEF FetchStates, JobLocals, CurrentState
  <2>3. \A r \in Raws : listed'[r] > 0 => known'[r] # None /\ DirtyIn(log', r)
    BY <1>0, <2>1, <2>2 DEF JobLocals
  <2>4. QED
    BY <2>2, <2>3 DEF JobLocals
<1>6. CASE Plan
  <2>1. step' = "append" /\ listed' = listed /\ log' = log /\ step = "plan"
    BY <1>6 DEF Plan, pgVars
  <2>2. ASSUME NEW p \in DOMAIN planned'
        PROVE  /\ DirtyIn(log', planned'[p].raw) /\ planned'[p].from # None
               /\ planned'[p].to \in {"promoted", "re_quarantined"}
               /\ planned'[p].rank <= 2 * Len(log') + 1
    <3>1. PICK r \in Raws : /\ listed[r] > 0 /\ Decide(r, known[r]) # None
                           /\ planned'[p].raw = r /\ planned'[p].from = known[r]
                           /\ planned'[p].to = Decide(r, known[r])
                           /\ planned'[p].rank = 2 * Len(log) + 1
      BY <1>0, <1>6, PlannedAreChanging
    <3>2. IsDirty(r) /\ known[r] # None
      BY <1>0, <2>1, <3>1 DEF JobLocals
    <3>3. Decide(r, known[r]) \in {"promoted", "re_quarantined"}
      BY <3>1 DEF Decide
    <3>4. DirtyIn(log', planned'[p].raw)
      BY <1>0, <3>1, <3>2
    <3>5. planned'[p].rank <= 2 * Len(log') + 1
      BY <1>1, <2>1, <3>1
    <3>6. QED
      BY <3>1, <3>2, <3>3, <3>4, <3>5
  <2>3. \A r \in Raws : listed'[r] > 0 => DirtyIn(log', r)
    BY <1>0, <2>1 DEF JobLocals
  <2>4. QED
    BY <2>1, <2>2, <2>3 DEF JobLocals
<1>7. CASE AppendEvents \/ JobFails
  BY <1>7 DEF AppendEvents, JobFails, Ended, JobLocals
<1>8. QED
  BY <1>3, <1>4, <1>5, <1>6, <1>7 DEF Next, PgNext, RunNext, JobNext, JobStep, vars

\* The log is empty and no job has started.
LEMMA LogInit ==
    ASSUME Init
    PROVE  LogInv
<1>1. Types
  BY TypesInit
<1>2. events = {} /\ planned = << >> /\ listed = [r \in Raws |-> 0] /\ step = "idle"
  BY DEF Init, QualityLogInit, ReevaluationInit, events
<1>3. QED
  BY <1>1, <1>2 DEF LogInv, LogOrder, JudgedOnce, JobLocals

\* The shape of the log and of the job's locals, in every state: first events are
\* those of ingestion, one per row, and no other event makes a row clean.
THEOREM LogAlways == Spec => []LogInv
<1>1. Init => LogInv
  BY LogInit
<1>2. LogInv /\ [Next]_vars => LogInv'
  BY TypesStep, LogOrderStep, JudgedOnceStep, JobLocalsStep DEF LogInv
<1>3. QED
  BY <1>1, <1>2, PTL DEF Spec

-----------------------------------------------------------------------------
(* Gold. *)

\* What is built is a part of Silver that is complete.
SplitInv ==
    LET Clean == int.clean = {r \in silver.orders : EffectivelyClean(r)}
        Rest == int.held = Held
    IN /\ layer = "intermediate" /\ "clean" \notin todo => Clean
       /\ layer = "intermediate" /\ "held" \notin todo => Rest
       /\ layer = "marts" => Clean /\ Rest

\* A value that was normalised away is remembered: the row is dirty, and no event
\* promotes it.
ValuesInv ==
    /\ \A r \in ods : Kind[r] = "normalised" => IsDirty(r)
    /\ \A i \in events : Kind[log[i].raw] = "normalised" => log[i].to # "promoted"
    /\ \A p \in DOMAIN planned : Kind[planned[p].raw] = "normalised" => planned[p].to # "promoted"
    /\ \A r \in int.clean \cup gold : Kind[r] # "normalised"

\* What the mirror says of a row of Silver stays while Silver stays.
LEMMA MirrorStays ==
    ASSUME LogInv, [Next]_vars, UNCHANGED silver, NEW r \in silver.orders
    PROVE  /\ StateIn(r, silver.events)' = StateIn(r, silver.events)
           /\ EffectivelyClean(r)' <=> EffectivelyClean(r)
<1>0. /\ Types /\ TypeOK /\ Types' /\ events \subseteq events'
      /\ \A i \in events : log'[i] = log[i]
  BY LogGrows, TypesStep DEF LogInv, Types
<1>1. /\ log \in Seq(EventType) /\ log' \in Seq(EventType)
      /\ silver.events \in SUBSET DOMAIN log /\ silver.events \in SUBSET DOMAIN log'
      /\ r \in ods
  BY <1>0 DEF Types, TypeOK, QualityLogTypeOK, DailyRunTypeOK, Tables, Source, events
<1>2. /\ OfRow(log, r, silver.events) = OfRow(log', r, silver.events)
      /\ \A i \in OfRow(log, r, silver.events) : log[i] = log'[i]
  BY <1>0, <1>1 DEF OfRow, events
<1>3. StateInLog(log, r, silver.events) = StateInLog(log', r, silver.events)
  BY <1>1, <1>2, SameEventsSameState
<1>4. StateIn(r, silver.events)' = StateIn(r, silver.events)
  BY <1>3 DEF StateIn, EventsOf, NoLater, StateInLog, OfRow, NoLaterIn
<1>5. IsDirty(r)' <=> IsDirty(r)
  BY <1>1, DirtyStays
<1>6. QED
  BY <1>4, <1>5 DEF EffectivelyClean

\* Building one of the two int_ tables opens the gap between them, building the
\* other closes it; nothing writes them when the gate or the marts read them.
LEMMA SplitStep ==
    ASSUME LogInv, SplitInv, [Next]_vars
    PROVE  SplitInv'
<1>1. CASE UNCHANGED <<layer, todo, silver, int>>
  <2>1. \A r \in silver.orders : EffectivelyClean(r)' <=> EffectivelyClean(r)
    BY <1>1, MirrorStays
  <2>2. {r \in silver.orders : EffectivelyClean(r)}' = {r \in silver.orders : EffectivelyClean(r)}
    BY <1>1, <2>1
  <2>3. Held' = Held
    BY <1>1, <2>1 DEF Held
  <2>4. QED
    BY <1>1, <2>2, <2>3 DEF SplitInv
<1>2. CASE layer' \notin {"intermediate", "marts"}
  BY <1>2 DEF SplitInv
<1>3. CASE layer' = "intermediate" /\ todo' = {"clean", "held"}
  BY <1>3 DEF SplitInv
<1>4. ASSUME NEW m \in {"clean", "held"}, BuildInt(m), UNCHANGED pgVars
      PROVE  SplitInv'
  <2>1. UNCHANGED <<silver, log>>
    BY <1>4 DEF BuildInt, pgVars
  <2>2. {r \in silver.orders : EffectivelyClean(r)}' = {r \in silver.orders : EffectivelyClean(r)}
    BY <2>1 DEF EffectivelyClean, IsDirty, events, StateIn, EventsOf, NoLater
  <2>3. Held' = Held
    BY <2>1 DEF Held, EffectivelyClean, IsDirty, events, StateIn, EventsOf, NoLater
  <2>4. int \in [{"clean", "held", "rejected"} -> SUBSET Raws] /\ todo \subseteq {"clean", "held"}
    BY <1>4 DEF BuildInt, LogInv, Types, TypeOK, DailyRunTypeOK, Work
  <2>5. CASE m = "clean"
    <3>1. int'.clean = {r \in silver.orders : EffectivelyClean(r)} /\ int'.held = int.held
      BY <1>4, <2>4, <2>5 DEF BuildInt
    <3>2. /\ layer' = "intermediate" => todo' = todo \ {"clean"}
          /\ layer' = "marts" => todo = {"clean"}
      BY <1>4, <2>5 DEF BuildInt, Done
    <3>3. QED
      BY <1>4, <2>2, <2>3, <3>1, <3>2 DEF SplitInv, BuildInt
  <2>6. CASE m = "held"
    <3>1. int'.held = Held /\ int'.clean = int.clean
      BY <1>4, <2>4, <2>6 DEF BuildInt
    <3>2. /\ layer' = "intermediate" => todo' = todo \ {"held"}
          /\ layer' = "marts" => todo = {"held"}
      BY <1>4, <2>6 DEF BuildInt, Done
    <3>3. QED
      BY <1>4, <2>2, <2>3, <3>1, <3>2 DEF SplitInv, BuildInt
  <2>7. QED
    BY <2>5, <2>6
<1>5. QED
  <2>1. PgNext \/ JobNext \/ UNCHANGED vars => UNCHANGED <<layer, todo, silver, int>>
    BY DEF PgNext, JobNext, ReadNow, ReadCandidates, JobStep, FetchStates, Plan, AppendEvents,
       JobFails, vars, runVars, warehouse
  <2>2. StartRun \/ RunFails \/ BuildMarts \/ BuildReport => layer' \notin {"intermediate", "marts"}
    BY DEF StartRun, RunFails, BuildMarts, BuildReport, GoTo
  <2>3. \A t \in Tables : Extract(t) \/ BuildStg(t) => layer' \notin {"intermediate", "marts"}
    BY DEF Extract, BuildStg, Done
  <2>4. Gate => \/ layer' = "intermediate" /\ todo' = {"clean", "held"}
                \/ layer' \notin {"intermediate", "marts"}
    BY DEF Gate, GoTo, Work
  <2>5. QED
    BY <1>1, <1>2, <1>3, <1>4, <2>1, <2>2, <2>3, <2>4 DEF Next, RunNext, RunStep

\* What the marts are built from is a partition of Silver: no row of it is
\* missing and none is there twice, although either table is built alone.
THEOREM MartsReadAPartition == Spec => []SplitIsPartition
<1>1. Init => SplitInv
  BY DEF Init, DailyRunInit, SplitInv
<1>2. LogInv /\ SplitInv /\ [Next]_vars => SplitInv'
  BY SplitStep
<1>3. SplitInv => SplitIsPartition
  BY DEF SplitInv, SplitIsPartition, Held
<1>4. QED
  BY <1>1, <1>2, <1>3, LogAlways, PTL DEF Spec

\* A row that enters ods is judged in the same step.
LEMMA NewRow ==
    ASSUME TypeOK, [Next]_vars, NEW r \in ods', r \notin ods
    PROVE  \E i \in events' : i \notin events /\ Judgement(i, r)
<1>0. /\ log \in Seq(EventType) /\ stamp \in [Raws -> 0..Horizon \cup {NotYet}]
      /\ r \in Raws /\ stamp[r] = NotYet /\ stamp'[r] # NotYet
  BY DEF TypeOK, QualityLogTypeOK, ods
<1>1. ASSUME NEW q \in Raws, NEW t, LandAt(q, t)
      PROVE  q = r /\ Len(log) + 1 \in events' /\ Len(log) + 1 \notin events
  <2>1. q = r
    BY <1>0, <1>1 DEF LandAt
  <2>2. \E e : log' = Append(log, e)
    BY <1>1 DEF LandAt
  <2>3. QED
    BY <1>0, <2>1, <2>2 DEF events
<1>2. \E q \in Raws : \E t : LandAt(q, t)
  BY <1>0 DEF Next, PgNext, TickNow, Tick, Deploy, Land, LandLate, RejectNow, Reject, RunNext,
     RunFails, JobNext, ReadNow, ReadCandidates, JobStep, FetchStates, Plan, AppendEvents, JobFails,
     vars, pgVars
<1>3. PICK i \in events' : i \notin events
  BY <1>1, <1>2
<1>4. CASE \E q : Judgement(i, q)
  <2>1. PICK q : Judgement(i, q)
    BY <1>4
  <2>2. q \in Raws /\ stamp[q] = NotYet /\ stamp'[q] # NotYet
    BY <2>1 DEF Judgement
  <2>3. PICK l \in Raws : \E t : LandAt(l, t)
    BY <1>2
  <2>4. l = r
    BY <1>1, <2>3
  <2>5. q = l
    BY <1>0, <2>2, <2>3 DEF LandAt
  <2>6. QED
    BY <1>3, <2>1, <2>4, <2>5
<1>5. ~\E q : Rejection(i, q)
  BY <1>0 DEF Rejection, RejectNow, Reject
<1>6. ~\E p : Reevaluation(i, p)
  BY <1>0 DEF Reevaluation, AppendEvents
<1>7. QED
  BY <1>3, <1>4, <1>5, <1>6, NewEvent

\* A state that is not None is that of one of the events.
LEMMA StateHasEvent ==
    ASSUME Types, NEW r, NEW ids \in SUBSET events, StateIn(r, ids) # None
    PROVE  \E i \in ids : log[i].raw = r /\ log[i].to = StateIn(r, ids)
<1>0. log \in Seq(EventType) /\ ids \in SUBSET DOMAIN log
  BY DEF Types, TypeOK, QualityLogTypeOK, events
<1>1. OfRow(log, r, ids) # {} /\ OfRow(log, r, ids) \in SUBSET DOMAIN log
  BY <1>0, StateInIsStateInLog DEF StateInLog, OfRow
<1>2. PICK i \in OfRow(log, r, ids) : IsLatest(log, OfRow(log, r, ids), i)
  BY <1>0, <1>1, LatestExists
<1>3. StateIn(r, ids) = log[i].to
  BY <1>0, <1>2, LatestDecides, StateInIsStateInLog
<1>4. QED
  BY <1>2, <1>3 DEF OfRow

\* What the job plans comes from Plan alone.
LEMMA PlannedStays ==
    ASSUME LogInv, [Next]_vars
    PROVE  planned' = planned \/ planned' = << >> \/ Plan
BY DEF Next, PgNext, RunNext, RunFails, JobNext, ReadNow, ReadCandidates, JobStep, FetchStates,
   AppendEvents, JobFails, Ended, vars, jobVars

\* What is built stays clear of the values that are gone.
LEMMA BuiltWithValues ==
    ASSUME LogInv, ValuesInv, [Next]_vars, NEW r \in int'.clean \cup gold'
    PROVE  Kind[r] # "normalised"
<1>1. CASE int'.clean \subseteq int.clean /\ gold' \subseteq int.clean \cup gold
  BY <1>1 DEF ValuesInv
<1>2. ASSUME BuildInt("clean")
      PROVE  Kind[r] # "normalised"
  <2>1. int'.clean = {q \in silver.orders : EffectivelyClean(q)} /\ gold' = gold
    BY <1>2 DEF BuildInt, LogInv, Types, TypeOK, DailyRunTypeOK
  <2>2. CASE r \in gold
    BY <2>2 DEF ValuesInv
  <2>3. CASE r \in silver.orders /\ EffectivelyClean(r)
    <3>1. r \in ods /\ silver.events \in SUBSET events /\ Types
      BY <2>3 DEF LogInv, Types, TypeOK, DailyRunTypeOK, Tables, Source
    <3>2. CASE ~IsDirty(r)
      BY <3>1, <3>2 DEF ValuesInv
    <3>3. CASE StateIn(r, silver.events) = "promoted"
      <4>1. StateIn(r, silver.events) # None
        BY <3>3 DEF None
      <4>2. \E i \in events : log[i].raw = r /\ log[i].to = "promoted"
        BY <3>1, <3>3, <4>1, StateHasEvent
      <4>3. QED
        BY <4>2 DEF ValuesInv
    <3>4. QED
      BY <2>3, <3>2, <3>3 DEF EffectivelyClean
  <2>4. QED
    BY <2>1, <2>2, <2>3
<1>3. ASSUME BuildInt("held")
      PROVE  int'.clean = int.clean /\ gold' = gold
  BY <1>3 DEF BuildInt, LogInv, Types, TypeOK, DailyRunTypeOK
<1>4. BuildMarts => int' = int /\ gold' = int.clean
  BY DEF BuildMarts
<1>5. \/ int' = int /\ gold' = gold
      \/ BuildMarts \/ BuildInt("clean") \/ BuildInt("held")
  BY DEF Next, PgNext, RunNext, RunStep, RunFails, StartRun, Gate, BuildReport, Extract, BuildStg,
     JobNext, ReadNow, ReadCandidates, JobStep, FetchStates, Plan, AppendEvents, JobFails, vars,
     runVars, warehouse
<1>6. QED
  BY <1>1, <1>2, <1>3, <1>4, <1>5

\* No step gives back a value that was normalised away.
LEMMA ValuesStep ==
    ASSUME LogInv, ValuesInv, [Next]_vars
    PROVE  ValuesInv'
<1>0. TypeOK /\ events \subseteq events' /\ \A i \in events : log'[i] = log[i]
  BY LogGrows DEF LogInv, Types
<1>1. ASSUME NEW r \in ods', Kind[r] = "normalised"
      PROVE  IsDirty(r)'
  <2>1. CASE r \in ods
    BY <1>1, <2>1, DirtyStays DEF ValuesInv
  <2>2. CASE r \notin ods
    <3>1. PICK i \in events' : Judgement(i, r)
      BY <1>0, <2>2, NewRow
    <3>2. log'[i].raw = r /\ log'[i].from = None /\ log'[i].to = "quarantined"
      BY <1>1, <3>1 DEF Judgement, Fails
    <3>3. QED
      BY <3>1, <3>2 DEF IsDirty
  <2>3. QED
    BY <2>1, <2>2
<1>2. ASSUME NEW i \in events', Kind[log'[i].raw] = "normalised"
      PROVE  log'[i].to # "promoted"
  <2>1. CASE i \in events
    BY <1>0, <1>2, <2>1 DEF ValuesInv
  <2>2. CASE \E r : Judgement(i, r)
    BY <2>2 DEF Judgement
  <2>3. CASE \E r : Rejection(i, r)
    BY <2>3 DEF Rejection
  <2>4. CASE \E p : Reevaluation(i, p)
    BY <1>2, <2>4 DEF Reevaluation, ValuesInv
  <2>5. QED
    BY <1>0, <2>1, <2>2, <2>3, <2>4, NewEvent
<1>3. ASSUME NEW p \in DOMAIN planned', Kind[planned'[p].raw] = "normalised"
      PROVE  planned'[p].to # "promoted"
  <2>1. CASE planned' = planned \/ planned' = << >>
    BY <1>3, <2>1 DEF ValuesInv
  <2>2. CASE Plan
    <3>1. PICK r \in Raws : planned'[p].raw = r /\ planned'[p].to = Decide(r, known[r])
      BY <1>0, <2>2, PlannedAreChanging
    <3>2. IsBlocked(r)
      BY <1>3, <3>1 DEF IsBlocked
    <3>3. QED
      BY <3>1, <3>2 DEF Decide, None
  <2>3. QED
    BY <2>1, <2>2, PlannedStays
<1>4. QED
  BY <1>1, <1>2, <1>3, BuiltWithValues DEF ValuesInv

\* A row whose bad value ingestion has normalised away is in no table that Gold
\* is built from, under whatever rules it was judged again: that an error can no
\* longer be found is not taken for a repair.
THEOREM GoldKeepsItsValues == Spec => []GoldHasItsValues
<1>1. Init => ValuesInv
  BY DEF Init, QualityLogInit, DailyRunInit, ReevaluationInit, ValuesInv, ods, events
<1>2. LogInv /\ ValuesInv /\ [Next]_vars => ValuesInv'
  BY ValuesStep
<1>3. ValuesInv => GoldHasItsValues
  BY DEF ValuesInv, GoldHasItsValues
<1>4. QED
  BY <1>1, <1>2, <1>3, LogAlways, PTL DEF Spec
\* A dirty row is in a state of quarantine or promotion, or rejected: not clean.
LEMMA DirtyIsNotClean ==
    ASSUME LogInv, NEW r, IsDirty(r)
    PROVE  StateOf(r) \in States /\ StateOf(r) # "clean"
<1>0. Types /\ JudgedOnce
  BY DEF LogInv
<1>1. StateOf(r) # None /\ StateOf(r) \in States
  BY <1>0, StateOfRow DEF IsDirty
<1>2. PICK i \in events : log[i].raw = r /\ log[i].to = StateOf(r)
  BY <1>0, <1>1, StateHasEvent DEF StateOf
<1>3. QED
  BY <1>0, <1>1, <1>2 DEF IsDirty, JudgedOnce

\* A row has a verdict from its first transaction on; one that is not dirty has no
\* event but "clean".
VerdictInv ==
    /\ \A r \in ods : \E i \in events : log[i].raw = r
    /\ \A i \in events : IsDirty(log[i].raw) \/ log[i].to = "clean"

\* An operator rejects, and the job moves, dirty rows only.
LEMMA VerdictStep ==
    ASSUME LogInv, VerdictInv, [Next]_vars
    PROVE  VerdictInv'
<1>0. Types /\ TypeOK /\ events \subseteq events' /\ \A i \in events : log'[i] = log[i]
  BY LogGrows DEF LogInv, Types
<1>1. ASSUME NEW r \in ods'
      PROVE  \E i \in events' : log'[i].raw = r
  <2>1. CASE r \in ods
    BY <1>0, <2>1 DEF VerdictInv
  <2>2. CASE r \notin ods
    <3>1. PICK i \in events' : Judgement(i, r)
      BY <1>0, <2>2, NewRow
    <3>2. QED
      BY <3>1 DEF Judgement
  <2>3. QED
    BY <2>1, <2>2
<1>2. ASSUME NEW i \in events', NEW r, log'[i].raw = r, log'[i].to # "clean"
      PROVE  IsDirty(r)'
  <2>1. CASE i \in events
    BY <1>0, <1>2, <2>1, DirtyStays DEF VerdictInv
  <2>2. CASE \E q : Judgement(i, q)
    BY <1>2, <2>2 DEF Judgement, IsDirty
  <2>3. CASE \E q : Rejection(i, q)
    <3>1. StateOf(r) # None /\ StateOf(r) # "clean"
      BY <1>2, <2>3 DEF Rejection, None
    <3>2. \E e \in events : log[e].raw = r /\ log[e].to = StateOf(r)
      BY <1>0, <3>1, StateHasEvent DEF StateOf
    <3>3. IsDirty(r)
      BY <3>1, <3>2 DEF VerdictInv
    <3>4. QED
      BY <3>3, DirtyStays
  <2>4. CASE \E p : Reevaluation(i, p)
    <3>1. IsDirty(r)
      BY <1>2, <2>4 DEF Reevaluation, LogInv, JobLocals
    <3>2. QED
      BY <3>1, DirtyStays
  <2>5. QED
    BY <1>0, <1>2, <2>1, <2>2, <2>3, <2>4, NewEvent
<1>3. \A i \in events' : IsDirty(log[i].raw)' \/ log'[i].to = "clean"
  BY <1>2 DEF IsDirty
<1>4. QED
  BY <1>1, <1>3 DEF VerdictInv

\* Where Silver has all the events of a row, the snapshot and the mirror say what
\* the log says.
LEMMA MirrorSaysState ==
    ASSUME LogInv, VerdictInv, NEW r \in silver.orders,
           EventsOf(r, events) \subseteq silver.events
    PROVE  EffectivelyClean(r) <=> StateOf(r) \in {"clean", "promoted"}
<1>0. Types /\ r \in ods /\ silver.events \subseteq events
  BY DEF LogInv, Types, TypeOK, DailyRunTypeOK, Tables, Source
<1>1. EventsOf(r, silver.events) = EventsOf(r, events)
  BY <1>0 DEF EventsOf
<1>2. StateIn(r, silver.events) = StateOf(r)
  BY <1>1 DEF StateOf, StateIn
<1>3. CASE IsDirty(r)
  BY <1>2, <1>3, DirtyIsNotClean DEF EffectivelyClean
<1>4. CASE ~IsDirty(r)
  <2>1. StateOf(r) # None
    BY <1>0, StateOfRow DEF VerdictInv
  <2>2. \E i \in events : log[i].raw = r /\ log[i].to = StateOf(r)
    BY <1>0, <2>1, StateHasEvent DEF StateOf
  <2>3. StateOf(r) = "clean"
    BY <1>4, <2>2 DEF VerdictInv
  <2>4. QED
    BY <1>4, <2>3 DEF EffectivelyClean
<1>5. QED
  BY <1>3, <1>4

\* Gold is what the authority says it should be, for every row that Silver knows
\* all about, however old it is: whatever the windows, the gate and the failures
\* have kept back until this run.
THEOREM GoldFollows == Spec => GoldFollowsStates
<1>1. Init => SplitInv /\ VerdictInv
  BY DEF Init, QualityLogInit, DailyRunInit, SplitInv, VerdictInv, ods, events
<1>2. LogInv /\ SplitInv /\ [Next]_vars => SplitInv'
  BY SplitStep
<1>3. LogInv /\ VerdictInv /\ [Next]_vars => VerdictInv'
  BY VerdictStep
<1>4. ASSUME LogInv, SplitInv, VerdictInv, BuildMarts, NEW r \in Raws,
             EventsOf(r, events) \subseteq silver.events
      PROVE  r \in gold' <=> r \in silver.orders /\ StateOf(r) \in {"clean", "promoted"}
  <2>1. gold' = {q \in silver.orders : EffectivelyClean(q)}
    BY <1>4 DEF BuildMarts, SplitInv
  <2>2. QED
    BY <1>4, <2>1, MirrorSaysState
<1>5. LogInv /\ SplitInv /\ VerdictInv =>
        [BuildMarts => \A r \in Raws : EventsOf(r, events) \subseteq silver.events =>
           (r \in gold' <=> r \in silver.orders /\ StateOf(r) \in {"clean", "promoted"})]_vars
  BY <1>4
<1>6. QED
  BY <1>1, <1>2, <1>3, <1>5, LogAlways, PTL DEF Spec, GoldFollowsStates

-----------------------------------------------------------------------------
(* The state machine of the rows, which is written nowhere in the code: it *)
(* is what the log adds up to.  The job reads the states in one            *)
(* transaction and writes its events in another, so the theorems name what *)
(* must not fall between them; the runs rejection and double show that     *)
(* each of these hypotheses is needed.                                     *)

\* What the job knows is still so: nobody else moves a dirty row.
JobIsCurrent ==
    /\ step = "plan" => \A r \in Raws : listed[r] > 0 => known[r] = StateOf(r)
    /\ \A p \in DOMAIN planned :
          /\ planned[p].from = StateOf(planned[p].raw)
          /\ <<planned[p].from, planned[p].to>> \in
                {<<"quarantined", "promoted">>, <<"re_quarantined", "promoted">>,
                 <<"promoted", "re_quarantined">>}
          /\ \A i \in events : log[i].raw = planned[p].raw => log[i].rank < planned[p].rank

\* Each row is listed, and planned, at most once.
JobListsOnce ==
    /\ \A r \in Raws : listed[r] <= 1
    /\ \A p, q \in DOMAIN planned : planned[p].raw = planned[q].raw => p = q

-----------------------------------------------------------------------------
(* What the job has read stays true until it writes. *)

\* Nobody but the job writes an event of a dirty row while the job is at work,
\* unless an operator may reject meanwhile.
LEMMA DirtyAlone ==
    ASSUME "reject" \notin Overlaps, LogInv, [Next]_vars, UNCHANGED step, step # "idle",
           NEW r, IsDirty(r)
    PROVE  /\ \A i \in events' : i \notin events => log'[i].raw # r
           /\ StateOf(r)' = StateOf(r)
<1>0. TypeOK /\ Types /\ Types' /\ r \in ods
  BY TypesStep, RowInOds DEF LogInv, Types
<1>1. ASSUME NEW i \in events', i \notin events
      PROVE  log'[i].raw # r
  <2>1. \A q : Judgement(i, q) => log'[i].raw # r
    BY <1>0 DEF Judgement, ods
  <2>2. \A q : ~Rejection(i, q)
    BY DEF Rejection, RejectNow
  <2>3. \A p : ~Reevaluation(i, p)
    BY DEF Reevaluation, AppendEvents, Ended
  <2>4. QED
    BY <1>0, <1>1, <2>1, <2>2, <2>3, NewEvent
<1>2. QED
  BY <1>0, <1>1, StateStays

\* The events that the job writes about a row move it along an edge that is the
\* job's own, from the state the job has read.
LEMMA DecidedEdge ==
    ASSUME NEW r, NEW s \in States, s # "clean", Decide(r, s) # None
    PROVE  <<s, Decide(r, s)>> \in {<<"quarantined", "promoted">>, <<"re_quarantined", "promoted">>,
                                    <<"promoted", "re_quarantined">>}
<1>1. s # "permanently_rejected" /\ Decide(r, s) \in {"promoted", "re_quarantined"}
  BY DEF Decide, IsFinal
<1>2. CASE Decide(r, s) = "promoted"
  BY <1>1, <1>2 DEF Decide, IsFinal, States
<1>3. CASE Decide(r, s) = "re_quarantined"
  BY <1>1, <1>3 DEF Decide, IsFinal, States
<1>4. QED
  BY <1>1, <1>2, <1>3

\* Every step leaves the job with what is still so.
LEMMA JobIsCurrentStep ==
    ASSUME "reject" \notin Overlaps, LogInv, JobIsCurrent, [Next]_vars
    PROVE  JobIsCurrent'
<1>0. /\ Types /\ TypeOK /\ JobLocals /\ planned \in Seq(EventType)
      /\ events = 1..Len(log) /\ Len(log) \in Nat
      /\ \A i \in events : log'[i] = log[i]
  BY LogGrows DEF LogInv, Types, TypeOK, ReevaluationTypeOK
<1>1. CASE UNCHANGED jobVars /\ step = "idle"
  BY <1>0, <1>1 DEF jobVars, JobIsCurrent, JobLocals
<1>2. CASE UNCHANGED jobVars /\ step # "idle"
  <2>1. UNCHANGED <<step, listed, known, planned>>
    BY <1>2 DEF jobVars
  <2>2. \A r : IsDirty(r) => /\ \A i \in events' : i \notin events => log'[i].raw # r
                             /\ StateOf(r)' = StateOf(r)
    BY <1>2, <2>1, DirtyAlone
  <2>3. step' = "plan" => \A r \in Raws : listed'[r] > 0 => known'[r] = StateOf(r)'
    BY <1>0, <2>1, <2>2 DEF JobIsCurrent, JobLocals
  <2>4. ASSUME NEW p \in DOMAIN planned'
        PROVE  /\ planned[p].from = StateOf(planned[p].raw)'
               /\ \A i \in events' : log'[i].raw = planned[p].raw => log'[i].rank < planned[p].rank
    <3>1. p \in DOMAIN planned /\ IsDirty(planned[p].raw)
      BY <1>0, <2>1, <2>4 DEF JobLocals
    <3>2. ASSUME NEW i \in events', log'[i].raw = planned[p].raw
          PROVE  log'[i].rank < planned[p].rank
      <4>1. i \in events
        BY <2>2, <3>1, <3>2
      <4>2. QED
        BY <1>0, <3>1, <3>2, <4>1 DEF JobIsCurrent
    <3>3. planned[p].from = StateOf(planned[p].raw)
      BY <3>1 DEF JobIsCurrent
    <3>4. StateInLog(log', planned[p].raw, DOMAIN log') = StateInLog(log, planned[p].raw, DOMAIN log)
      <4>1. \A r : IsDirty(r) => StateInLog(log', r, DOMAIN log') = StateInLog(log, r, DOMAIN log)
        BY <2>2, StateByLog
      <4>2. QED
        BY <3>1, <4>1
    <3>5. StateOf(planned[p].raw)' = StateInLog(log', planned[p].raw, DOMAIN log')
      BY <2>1 DEF StateOf, StateIn, EventsOf, NoLater, events, StateInLog, OfRow, NoLaterIn
    <3>6. QED
      BY <3>2, <3>3, <3>4, <3>5, StateByLog
  <2>5. \A p \in DOMAIN planned' : planned'[p] = planned[p] /\ p \in DOMAIN planned
    BY <2>1
  <2>6. \A p \in DOMAIN planned' :
           /\ planned'[p].from = StateOf(planned[p].raw)'
           /\ \A i \in events' : log'[i].raw = planned'[p].raw => log'[i].rank < planned'[p].rank
           /\ <<planned'[p].from, planned'[p].to>> \in
                {<<"quarantined", "promoted">>, <<"re_quarantined", "promoted">>,
                 <<"promoted", "re_quarantined">>}
    BY <2>4, <2>5 DEF JobIsCurrent
  <2>7. QED
    BY <2>3, <2>6 DEF JobIsCurrent
<1>3. CASE FetchStates
  <2>1. /\ step' = "plan" /\ planned' = << >> /\ listed' = listed /\ log' = log
        /\ known' = [r \in Raws |-> IF listed[r] > 0 THEN StateOf(r) ELSE None]
    BY <1>0, <1>3 DEF FetchStates, JobLocals, CurrentState, pgVars
  <2>2. \A r \in Raws : listed'[r] > 0 => known'[r] = StateOf(r)'
    BY <2>1, StateByLog
  <2>3. QED
    BY <2>1, <2>2 DEF JobIsCurrent
<1>4. CASE Plan
  <2>1. step' = "append" /\ log' = log /\ step = "plan"
    BY <1>4 DEF Plan, pgVars
  <2>2. ASSUME NEW p \in DOMAIN planned'
        PROVE  /\ planned'[p].from = StateInLog(log', planned'[p].raw, DOMAIN log')
               /\ \A i \in events' : log'[i].raw = planned'[p].raw => log'[i].rank < planned'[p].rank
               /\ <<planned'[p].from, planned'[p].to>> \in
                    {<<"quarantined", "promoted">>, <<"re_quarantined", "promoted">>,
                     <<"promoted", "re_quarantined">>}
    <3>1. PICK r \in Raws : /\ listed[r] > 0 /\ Decide(r, known[r]) # None
                           /\ planned'[p].raw = r /\ planned'[p].from = known[r]
                           /\ planned'[p].to = Decide(r, known[r])
                           /\ planned'[p].rank = 2 * Len(log) + 1
      BY <1>0, <1>4, PlannedAreChanging
    <3>2. IsDirty(r) /\ known[r] = StateOf(r)
      BY <1>0, <2>1, <3>1 DEF JobLocals, JobIsCurrent
    <3>3. known[r] \in States /\ known[r] # "clean"
      BY <3>2, DirtyIsNotClean
    <3>4. StateInLog(log', planned'[p].raw, DOMAIN log') = StateOf(r)
      BY <2>1, <3>1, StateByLog
    <3>5. ASSUME NEW i \in events
          PROVE  log[i].rank < 2 * Len(log) + 1
      <4>1. log[i].rank <= 2 * i /\ log[i].rank \in Nat /\ i \in 1..Len(log)
        BY <1>0, <3>5, RankType DEF LogInv, LogOrder, TypeOK, QualityLogTypeOK, events
      <4>2. QED
        BY <1>0, <4>1
    <3>6. \A i \in events' : log'[i].rank < planned'[p].rank
      BY <2>1, <3>1, <3>5 DEF events
    <3>7. QED
      BY <3>1, <3>2, <3>3, <3>4, <3>6, DecidedEdge
  <2>3. \A p \in DOMAIN planned' :
           StateOf(planned[p].raw)' = StateInLog(log', planned'[p].raw, DOMAIN log')
    BY DEF StateOf, StateIn, EventsOf, NoLater, events, StateInLog, OfRow, NoLaterIn
  <2>4. QED
    BY <2>1, <2>2, <2>3 DEF JobIsCurrent
<1>5. CASE step' \notin {"plan", "append"} /\ planned' = << >>
  BY <1>5 DEF JobIsCurrent
<1>6. ReadNow \/ AppendEvents \/ JobFails => step' \notin {"plan", "append"} /\ planned' = << >>
  BY <1>0 DEF ReadNow, ReadCandidates, AppendEvents, JobFails, Ended, JobLocals
<1>7. QED
  BY <1>1, <1>2, <1>3, <1>4, <1>5, <1>6 DEF Next, PgNext, RunNext, JobNext, JobStep, vars

\* While no rejection falls between its read and its write, the job never writes
\* an event from a state that the row has left.
THEOREM JobNeverOutdated ==
    ASSUME "reject" \notin Overlaps
    PROVE  Spec => []JobIsCurrent
<1>1. Init => JobIsCurrent
  BY DEF Init, QualityLogInit, ReevaluationInit, JobIsCurrent
<1>2. LogInv /\ JobIsCurrent /\ [Next]_vars => JobIsCurrent'
  BY JobIsCurrentStep
<1>3. QED
  BY <1>1, <1>2, LogAlways, PTL DEF Spec
-----------------------------------------------------------------------------
(* The state machine. *)

\* The arrows of the diagram.
Arrows == {<<None, "clean">>, <<None, "quarantined">>, <<"quarantined", "promoted">>,
           <<"promoted", "re_quarantined">>, <<"re_quarantined", "promoted">>,
           <<"quarantined", "permanently_rejected">>, <<"re_quarantined", "permanently_rejected">>}

\* Whoever writes it, an event says where the row comes from, follows an arrow,
\* and is later than every event that the row has.
LEMMA NewEventFollows ==
    ASSUME LogInv, JobIsCurrent, [Next]_vars, NEW i \in events', i \notin events
    PROVE  /\ log'[i].from = StateInLog(log, log'[i].raw, DOMAIN log)
           /\ <<log'[i].from, log'[i].to>> \in Arrows
           /\ \A j \in events : log[j].raw = log'[i].raw => log[j].rank < log'[i].rank
<1>0. /\ Types /\ TypeOK /\ log \in Seq(EventType)
      /\ events = 1..Len(log) /\ Len(log) \in Nat
  BY LogGrows DEF LogInv, Types, TypeOK, QualityLogTypeOK
<1>1. \A j \in events : log[j].rank < 2 * Len(log) + 2
  <2>1. SUFFICES ASSUME NEW j \in events
                 PROVE  log[j].rank < 2 * Len(log) + 2
    OBVIOUS
  <2>2. log[j].rank <= 2 * j /\ log[j].rank \in Nat /\ j \in 1..Len(log)
    BY <1>0, RankType DEF LogInv, LogOrder, events
  <2>3. QED
    BY <1>0, <2>2
<1>2. ASSUME NEW r, Judgement(i, r)
      PROVE  /\ log'[i].from = StateInLog(log, log'[i].raw, DOMAIN log)
             /\ <<log'[i].from, log'[i].to>> \in Arrows
             /\ \A j \in events : log[j].raw # log'[i].raw
  <2>1. \A j \in events : log[j].raw # r
    BY <1>2 DEF Judgement, LogInv, LogOrder, ods
  <2>2. StateOf(r) = None
    BY <1>0, <2>1, StateOfRow
  <2>3. QED
    BY <1>2, <2>1, <2>2, StateByLog DEF Judgement, Arrows
<1>3. ASSUME NEW r, Rejection(i, r)
      PROVE  /\ log'[i].from = StateInLog(log, log'[i].raw, DOMAIN log)
             /\ <<log'[i].from, log'[i].to>> \in Arrows
             /\ log'[i].rank = 2 * Len(log) + 2
  BY <1>3, StateByLog DEF Rejection, Arrows
<1>4. ASSUME NEW p, Reevaluation(i, p)
      PROVE  /\ log'[i].from = StateInLog(log, log'[i].raw, DOMAIN log)
             /\ <<log'[i].from, log'[i].to>> \in Arrows
             /\ \A j \in events : log[j].raw = log'[i].raw => log[j].rank < log'[i].rank
  <2>1. p \in DOMAIN planned /\ log'[i] = planned[p]
    BY <1>4 DEF Reevaluation
  <2>2. QED
    BY <2>1, StateByLog DEF JobIsCurrent, Arrows
<1>5. CASE \E r : Judgement(i, r)
  BY <1>2, <1>5
<1>6. CASE \E r : Rejection(i, r)
  <2>1. log'[i].rank = 2 * Len(log) + 2
    BY <1>3, <1>6
  <2>2. \A j \in events : log[j].rank < log'[i].rank
    BY <1>1, <2>1
  <2>3. QED
    BY <1>3, <1>6, <2>2
<1>7. CASE \E p : Reevaluation(i, p)
  BY <1>4, <1>7
<1>8. QED
  BY <1>0, <1>5, <1>6, <1>7, NewEvent

\* A step leaves the state of a row, or moves it along an arrow.
LEMMA StateFollows ==
    ASSUME LogInv, JobIsCurrent, [Next]_vars, NEW r
    PROVE  \/ StateInLog(log', r, DOMAIN log') = StateInLog(log, r, DOMAIN log)
           \/ <<StateInLog(log, r, DOMAIN log), StateInLog(log', r, DOMAIN log')>> \in Arrows
<1>0. /\ Types /\ Types' /\ events \subseteq events' /\ \A j \in events : log'[j] = log[j]
      /\ log \in Seq(EventType) /\ log' \in Seq(EventType)
      /\ events = DOMAIN log /\ events' = DOMAIN log'
  BY LogGrows, TypesStep DEF LogInv, Types, TypeOK, QualityLogTypeOK, events
<1>1. CASE \A i \in events' : i \notin events => log'[i].raw # r
  BY <1>0, <1>1, StateStays, StateByLog
<1>2. ASSUME NEW n \in events', n \notin events, log'[n].raw = r
      PROVE  <<StateInLog(log, r, DOMAIN log), StateInLog(log', r, DOMAIN log')>> \in Arrows
  <2> DEFINE S == OfRow(log', r, DOMAIN log')
  <2>1. n \in S /\ S \in SUBSET DOMAIN log'
    BY <1>0, <1>2 DEF OfRow
  <2>2. PICK i \in S : IsLatest(log', S, i)
    BY <1>0, <2>1, LatestExists
  <2>3. StateInLog(log', r, DOMAIN log') = log'[i].to
    BY <1>0, <2>2, LatestDecides
  <2>4. i \in events' /\ log'[i].raw = r /\ NoLaterIn(log', n, i)
    BY <1>0, <2>1, <2>2 DEF OfRow, IsLatest
  <2>5. i \notin events
    <3>1. SUFFICES ASSUME i \in events
                   PROVE  FALSE
      OBVIOUS
    <3>2. log'[i].rank < log'[n].rank
      BY <1>0, <1>2, <2>4, <3>1, NewEventFollows
    <3>3. log'[i].rank \in Nat /\ log'[n].rank \in Nat
      BY <1>0, <1>2, <2>4, RankType
    <3>4. QED
      BY <2>4, <3>2, <3>3 DEF NoLaterIn
  <2>6. QED
    BY <2>3, <2>4, <2>5, NewEventFollows
<1>3. QED
  BY <1>1, <1>2

\* A step of the system is a step of the state machine, or none.
LEMMA LifecycleStep ==
    ASSUME LogInv, JobIsCurrent, [Next]_vars
    PROVE  [Lifecycle!Next]_([r \in Raws |-> StateOf(r)])
<1> DEFINE before == [r \in Raws |-> StateInLog(log, r, DOMAIN log)]
           after == [r \in Raws |-> StateInLog(log', r, DOMAIN log')]
<1>1. [r \in Raws |-> StateOf(r)] = before /\ [r \in Raws |-> StateOf(r)]' = after
  BY StateByLog
<1>2. \A r \in Raws : after[r] = before[r] \/ <<before[r], after[r]>> \in Arrows
  BY StateFollows
<1>3. Lifecycle!Edges = Arrows
  BY DEF Lifecycle!Edges, Arrows, None
<1>4. QED
  BY <1>1, <1>2, <1>3 DEF Lifecycle!Next

\* The log refines the state machine of data-quality.md.
THEOREM LogRefinesLifecycle ==
    ASSUME "reject" \notin Overlaps
    PROVE  Spec => LifecycleSpec
<1>1. Init => Lifecycle!Init
  BY DEF Init, QualityLogInit, Lifecycle!Init, StateOf, StateIn, EventsOf, events, None
<1>2. LogInv /\ JobIsCurrent /\ [Next]_vars => [Lifecycle!Next]_([r \in Raws |-> StateOf(r)])
  BY LifecycleStep
<1>3. QED
  BY <1>1, <1>2, LogAlways, JobNeverOutdated, PTL DEF Spec, LifecycleSpec, Lifecycle!Spec

\* Nothing brings a rejected row back while no rejection falls between the job's
\* read and its write; the run rejection shows that this one interleaving does.
THEOREM RejectionStays ==
    ASSUME "reject" \notin Overlaps
    PROVE  Spec => RejectionIsFinal
<1> DEFINE Kept == \A r \in Raws : StateOf(r) = "permanently_rejected"
                                    => StateOf(r)' = "permanently_rejected"
<1>1. LogInv /\ JobIsCurrent /\ [Next]_vars => Kept
  <2>1. SUFFICES ASSUME LogInv, JobIsCurrent, [Next]_vars, NEW r \in Raws,
                        StateInLog(log, r, DOMAIN log) = "permanently_rejected"
                 PROVE  StateInLog(log', r, DOMAIN log') = "permanently_rejected"
    BY StateByLog
  <2>2. \A s : <<"permanently_rejected", s>> \notin Arrows
    BY DEF Arrows, None
  <2>3. QED
    BY <2>1, <2>2, StateFollows
<1>2. LogInv /\ JobIsCurrent /\ [Next]_vars => [Kept]_vars
  BY <1>1
<1>3. QED
  BY <1>2, LogAlways, JobNeverOutdated, PTL DEF Spec, RejectionIsFinal

-----------------------------------------------------------------------------
(* Every event is a transition. *)

\* What Plan writes down, it has from rows listed in ascending order.
LEMMA PlannedOnce ==
    ASSUME TypeOK, \A r \in Raws : listed[r] <= 1, Plan,
           NEW p \in DOMAIN planned', NEW q \in DOMAIN planned',
           planned'[p].raw = planned'[q].raw
    PROVE  p = q
<1>1. PICK rows \in [1..Cardinality(Changing) -> Changing] :
         /\ \A i, j \in DOMAIN rows : i < j => Before(rows[i], rows[j])
         /\ planned' = [i \in DOMAIN rows |-> EventFor(rows[i][1])]
  BY DEF Plan
<1>2. ASSUME NEW x \in Changing
      PROVE  x[1] \in Nat /\ x[2] = 1
  <2>1. x[1] \in Raws /\ x[2] \in 1..2 /\ x[2] <= listed[x[1]]
    BY DEF Changing
  <2>2. listed[x[1]] \in 0..2 /\ listed[x[1]] <= 1
    BY <2>1 DEF TypeOK, ReevaluationTypeOK
  <2>3. x[1] \in Nat
    BY <2>1, Rows
  <2>4. x[2] = 1
    <3> DEFINE n == x[2]
               m == listed[x[1]]
    <3>1. n \in 1..2 /\ n <= m /\ m \in 0..2 /\ m <= 1
      BY <2>1, <2>2
    <3> HIDE DEF n, m
    <3>2. n = 1
      BY <3>1
    <3>3. QED
      BY <3>2 DEF n
  <2>5. QED
    BY <2>3, <2>4
<1>3. p \in DOMAIN rows /\ q \in DOMAIN rows /\ DOMAIN rows = 1..Cardinality(Changing)
  BY <1>1
<1>4. rows[p] \in Changing /\ rows[q] \in Changing /\ rows[p][1] = rows[q][1]
  BY <1>1, <1>3 DEF EventFor
<1>5. ~Before(rows[p], rows[q]) /\ ~Before(rows[q], rows[p])
  <2>1. /\ rows[p][1] \in Nat /\ rows[p][2] = 1
        /\ rows[q][1] \in Nat /\ rows[q][2] = 1
    BY <1>2, <1>4
  <2>2. 2 * rows[p][1] + rows[p][2] = 2 * rows[q][1] + rows[q][2]
    BY <1>4, <2>1
  <2>3. 2 * rows[p][1] + rows[p][2] \in Int
    BY <2>1
  <2>4. QED
    BY <2>2, <2>3 DEF Before
<1>6. ~(p < q) /\ ~(q < p) /\ p \in Int /\ q \in Int
  BY <1>1, <1>3, <1>5
<1>7. QED
  BY <1>6

\* The job lists and plans a row once, unless it may read int_ half built.
LEMMA JobListsOnceStep ==
    ASSUME "torn" \notin Overlaps, LogInv, JobListsOnce, [Next]_vars
    PROVE  JobListsOnce'
<1>0. TypeOK /\ JobLocals
  BY DEF LogInv, Types
<1>1. CASE UNCHANGED <<listed, planned>>
  BY <1>1 DEF JobListsOnce
<1>2. CASE ReadNow
  <2>1. PICK last \in Raws : listed' = [r \in Raws |-> IF r <= last THEN Listed(r) ELSE 0]
    BY <1>2 DEF ReadNow, ReadCandidates
  <2>2. int.clean \cap int.held = {} /\ planned' = << >>
    BY <1>0, <1>2 DEF ReadNow, ReadCandidates, JobLocals
  <2>3. \A r : Listed(r) <= 1
    BY <2>2 DEF Listed
  <2>4. QED
    BY <2>1, <2>2, <2>3 DEF JobListsOnce
<1>3. CASE Plan
  <2>1. listed' = listed
    BY <1>3 DEF Plan
  <2>2. \A p, q \in DOMAIN planned' : planned'[p].raw = planned'[q].raw => p = q
    BY <1>0, <1>3, PlannedOnce DEF JobListsOnce
  <2>3. QED
    BY <2>1, <2>2 DEF JobListsOnce
<1>4. CASE listed' = [r \in Raws |-> 0] /\ planned' = << >>
  BY <1>4 DEF JobListsOnce
<1>5. QED
  BY <1>1, <1>2, <1>3, <1>4 DEF Next, PgNext, RunNext, RunFails, JobNext, JobStep, FetchStates,
     AppendEvents, JobFails, Ended, vars, jobVars

\* No transaction writes two events of one row.
LEMMA OneEventPerRow ==
    ASSUME LogInv, JobListsOnce, [Next]_vars, NEW i \in events', i \notin events,
           NEW j \in events', j \notin events, log'[i].raw = log'[j].raw
    PROVE  i = j
<1>0. TypeOK
  BY DEF LogInv, Types
<1>1. \A k : (\E r : Judgement(k, r) \/ Rejection(k, r)) => k = Len(log) + 1 /\ UNCHANGED step
  BY DEF Judgement, Rejection, jobVars
<1>2. \A k : (\E p : Reevaluation(k, p)) => step' # step
  BY DEF Reevaluation, AppendEvents, Ended
<1>3. \A p, q : Reevaluation(i, p) /\ Reevaluation(j, q) => i = j
  BY DEF Reevaluation, JobListsOnce
<1>4. QED
  BY <1>0, <1>1, <1>2, <1>3, NewEvent

\* The events before the i-th one of a log, of its row.
EventsBefore(lg, i) ==
    {j \in DOMAIN lg : lg[j].raw = lg[i].raw /\ NoLaterIn(lg, j, i)} \ {i}

\* The i-th event of a log is a transition.
IsTransition(lg, i) ==
    lg[i].from = StateInLog(lg, lg[i].raw, EventsBefore(lg, i)) /\ lg[i].to # lg[i].from

\* EventsAreTransitions, by the log.
LEMMA TransitionsByLog ==
    /\ EventsAreTransitions <=> \A i \in DOMAIN log : IsTransition(log, i)
    /\ EventsAreTransitions' <=> \A i \in DOMAIN log' : IsTransition(log', i)
BY DEF EventsAreTransitions, IsTransition, EventsBefore, events, StateIn, EventsOf, NoLater,
   StateInLog, OfRow, NoLaterIn

\* What is a transition stays one, and what is written is one.
LEMMA TransitionsStep ==
    ASSUME LogInv, JobIsCurrent, JobListsOnce, EventsAreTransitions, [Next]_vars
    PROVE  EventsAreTransitions'
<1>0. /\ Types /\ Types' /\ events \subseteq events' /\ \A j \in events : log'[j] = log[j]
      /\ log \in Seq(EventType) /\ log' \in Seq(EventType)
      /\ events = DOMAIN log /\ events' = DOMAIN log'
  BY LogGrows, TypesStep DEF LogInv, Types, TypeOK, QualityLogTypeOK, events
<1>1. SUFFICES ASSUME NEW i \in DOMAIN log'
               PROVE  IsTransition(log', i)
  BY TransitionsByLog
<1>2. \A j \in DOMAIN log' : log'[j].rank \in Nat
  BY <1>0, RankType
<1>3. \A j, n \in DOMAIN log' : /\ j \in DOMAIN log /\ n \notin DOMAIN log
                               /\ log'[j].raw = log'[n].raw
                               => NoLaterIn(log', j, n) /\ ~NoLaterIn(log', n, j)
  <2>1. SUFFICES ASSUME NEW j \in DOMAIN log, NEW n \in DOMAIN log', n \notin DOMAIN log,
                        log'[j].raw = log'[n].raw
                 PROVE  NoLaterIn(log', j, n) /\ ~NoLaterIn(log', n, j)
    OBVIOUS
  <2>2. log'[j].rank < log'[n].rank
    BY <1>0, <2>1, NewEventFollows
  <2>3. log'[j].rank \in Nat /\ log'[n].rank \in Nat
    BY <1>0, <1>2, <2>1
  <2>4. QED
    BY <2>2, <2>3 DEF NoLaterIn
<1>4. CASE i \in DOMAIN log
  <2>1. EventsBefore(log', i) = EventsBefore(log, i)
    <3>1. \A j \in DOMAIN log : NoLaterIn(log', j, i) <=> NoLaterIn(log, j, i)
      BY <1>0, <1>4 DEF NoLaterIn
    <3>2. \A j \in DOMAIN log' : j \notin DOMAIN log => j \notin EventsBefore(log', i)
      BY <1>3, <1>4 DEF EventsBefore
    <3>3. QED
      BY <1>0, <1>4, <3>1, <3>2 DEF EventsBefore
  <2> DEFINE B == EventsBefore(log, i)
             r == log[i].raw
  <2>2. B \in SUBSET DOMAIN log /\ B \in SUBSET DOMAIN log'
    BY <1>0 DEF EventsBefore
  <2>3. OfRow(log, r, B) = OfRow(log', r, B) /\ \A j \in OfRow(log, r, B) : log[j] = log'[j]
    BY <1>0, <2>2 DEF OfRow
  <2>4. StateInLog(log, r, B) = StateInLog(log', r, B)
    BY <1>0, <2>2, <2>3, SameEventsSameState
  <2>5. IsTransition(log, i) /\ log'[i] = log[i]
    BY <1>0, <1>4, TransitionsByLog
  <2>6. QED
    BY <2>1, <2>4, <2>5 DEF IsTransition
<1>5. CASE i \notin DOMAIN log
  <2> DEFINE r == log'[i].raw
             B == EventsBefore(log', i)
  <2>1. /\ log'[i].from = StateInLog(log, r, DOMAIN log)
        /\ <<log'[i].from, log'[i].to>> \in Arrows
    BY <1>0, <1>5, NewEventFollows
  <2>2. \A j \in B : j \in DOMAIN log
    BY <1>0, <1>5, OneEventPerRow DEF EventsBefore
  <2>3. OfRow(log, r, DOMAIN log) = OfRow(log', r, B)
    BY <1>0, <1>3, <1>5, <2>2 DEF OfRow, EventsBefore
  <2>4. B \in SUBSET DOMAIN log' /\ DOMAIN log \in SUBSET DOMAIN log
    BY DEF EventsBefore
  <2>5. \A j \in OfRow(log, r, DOMAIN log) : log[j] = log'[j]
    BY <1>0 DEF OfRow
  <2>6. StateInLog(log, r, DOMAIN log) = StateInLog(log', r, B)
    BY <1>0, <2>3, <2>4, <2>5, SameEventsSameState
  <2>7. log'[i].to # log'[i].from
    BY <2>1 DEF Arrows, None
  <2>8. QED
    BY <2>1, <2>6, <2>7 DEF IsTransition
<1>6. QED
  BY <1>4, <1>5

\* The log tells the whole story of a row, event after event, while the job
\* reads int_ whole and no rejection falls between its read and its write.
THEOREM LogIsAHistory ==
    ASSUME Overlaps = {}
    PROVE  Spec => []EventsAreTransitions
<1>1. "reject" \notin Overlaps /\ "torn" \notin Overlaps
  OBVIOUS
<1>2. Spec => []JobIsCurrent
  BY <1>1, JobNeverOutdated
<1>3. Init => JobListsOnce /\ EventsAreTransitions
  BY DEF Init, QualityLogInit, ReevaluationInit, JobListsOnce, EventsAreTransitions, events
<1>4. /\ LogInv /\ JobIsCurrent /\ JobListsOnce /\ EventsAreTransitions /\ [Next]_vars
      => JobListsOnce' /\ EventsAreTransitions'
  BY <1>1, JobListsOnceStep, TransitionsStep
<1>5. QED
  BY <1>2, <1>3, <1>4, LogAlways, PTL DEF Spec
=============================================================================
