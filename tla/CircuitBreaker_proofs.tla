------------------------ MODULE CircuitBreaker_proofs ------------------------
(***************************************************************************)
(* Proofs about CircuitBreaker for any number of threads, any threshold    *)
(* and any cooldown.                                                       *)
(***************************************************************************)
EXTENDS CircuitBreaker, TLAPS

\* Every variable keeps its type.
THEOREM TypeCorrect == Spec => []TypeOK
<1>1. Init => TypeOK
  <2> SUFFICES ASSUME Init PROVE TypeOK
    OBVIOUS
  <2>1. overran \in BOOLEAN /\ brokerUp \in BOOLEAN
    BY DEF Init
  <2>2. /\ state \in {CLOSED, OPEN, HALF_OPEN}
        /\ failures \in Nat /\ outages \in Nat
        /\ elapsed \in 0..ResetTimeout /\ sinceProbe \in 0..ResetTimeout
        /\ call \in [Threads -> {"none", "ordinary", "probe"}]
    BY BreakerAssumption DEF Init, BreakerAssumption
  <2>3. QED
    BY <2>1, <2>2 DEF TypeOK
<1>2. TypeOK /\ [Next]_vars => TypeOK'
  <2> SUFFICES ASSUME TypeOK, [Next]_vars PROVE TypeOK'
    OBVIOUS
  <2> USE BreakerAssumption DEF BreakerAssumption, CLOSED, OPEN, HALF_OPEN
  <2>1. ASSUME NEW t \in Threads, CallClosed(t) \/ CallProbe(t)
        PROVE  TypeOK'
    BY <2>1 DEF CallClosed, CallProbe, Begin, TypeOK, history, broker
  <2>2. ASSUME NEW t \in Threads, OnFailure(t) \/ OnSuccess(t)
        PROVE  TypeOK'
    BY <2>2 DEF OnFailure, OnSuccess, End, Trip, TypeOK, history, broker
  <2>3. CASE Reset
    BY <2>3 DEF Reset, TypeOK, history, broker
  <2>4. CASE Tick
    <3>1. elapsed' \in 0..ResetTimeout /\ sinceProbe' \in 0..ResetTimeout
      BY <2>4 DEF Tick, Later, TypeOK
    <3>2. overran' \in BOOLEAN
      BY <2>4 DEF Tick, TypeOK
    <3>3. UNCHANGED <<state, failures, call, brokerUp, outages>>
      BY <2>4 DEF Tick, broker
    <3>4. QED
      BY <3>1, <3>2, <3>3 DEF TypeOK
  <2>5. CASE BrokerDown \/ BrokerUp
    <3>1. outages' \in Nat
      BY <2>5 DEF BrokerDown, BrokerUp, TypeOK
    <3>2. brokerUp' \in BOOLEAN
      BY <2>5 DEF BrokerDown, BrokerUp
    <3>3. UNCHANGED <<state, failures, elapsed, call, sinceProbe, overran>>
      BY <2>5 DEF BrokerDown, BrokerUp, history
    <3>4. QED
      BY <3>1, <3>2, <3>3 DEF TypeOK
  <2>6. CASE UNCHANGED vars
    BY <2>6 DEF vars, TypeOK
  <2>7. QED
    BY <2>1, <2>2, <2>3, <2>4, <2>5, <2>6 DEF Next
<1>3. QED
  BY <1>1, <1>2, PTL DEF Spec

\* The circuit is closed if and only if fewer than failure_threshold failures
\* are counted, whatever outcomes arrive late.
THEOREM ThresholdTheorem == Spec => []ThresholdDecides
<1> USE BreakerAssumption DEF BreakerAssumption, CLOSED, OPEN, HALF_OPEN
<1>1. Init => ThresholdDecides
  BY DEF Init, ThresholdDecides
<1>2. TypeOK /\ ThresholdDecides /\ [Next]_vars => ThresholdDecides'
  <2> SUFFICES ASSUME TypeOK, ThresholdDecides, [Next]_vars PROVE ThresholdDecides'
    OBVIOUS
  <2>1. ASSUME NEW t \in Threads, OnFailure(t)
        PROVE  ThresholdDecides'
    BY <2>1 DEF OnFailure, Trip, TypeOK, ThresholdDecides
  <2>2. ASSUME NEW t \in Threads, CallClosed(t) \/ CallProbe(t) \/ OnSuccess(t)
        PROVE  ThresholdDecides'
    BY <2>2 DEF CallClosed, CallProbe, OnSuccess, ThresholdDecides
  <2>3. CASE Reset
    <3>1. state' = CLOSED /\ failures' = 0
      BY <2>3 DEF Reset
    <3>2. QED
      BY <3>1 DEF ThresholdDecides
  <2>4. CASE UNCHANGED <<state, failures>>
    BY <2>4 DEF ThresholdDecides
  <2>5. QED
    BY <2>1, <2>2, <2>3, <2>4 DEF Next, Tick, BrokerDown, BrokerUp, vars
<1>3. QED
  BY <1>1, <1>2, TypeCorrect, PTL DEF Spec

\* A half-open circuit has a probe in flight: whichever call ends first while the
\* circuit is half-open decides it.
THEOREM ProbeTheorem == Spec => []HalfOpenHasProbe
<1> USE DEF CLOSED, OPEN, HALF_OPEN
<1>1. Init => HalfOpenHasProbe
  BY DEF Init, HalfOpenHasProbe
<1>2. TypeOK /\ HalfOpenHasProbe /\ [Next]_vars => HalfOpenHasProbe'
  <2> SUFFICES ASSUME TypeOK, HalfOpenHasProbe, [Next]_vars, state' = HALF_OPEN
               PROVE  \E t \in Threads : call'[t] = "probe"
    BY DEF HalfOpenHasProbe
  <2>1. ASSUME NEW t \in Threads, CallProbe(t)
        PROVE  call'[t] = "probe"
    BY <2>1 DEF CallProbe, Begin, TypeOK
  <2>2. ASSUME NEW t \in Threads, CallClosed(t) \/ OnFailure(t) \/ OnSuccess(t)
        PROVE  FALSE
    BY <2>2 DEF CallClosed, OnFailure, OnSuccess, Trip, TypeOK
  <2>3. CASE UNCHANGED <<state, call>>
    BY <2>3 DEF HalfOpenHasProbe
  <2>4. QED
    BY <2>1, <2>2, <2>3 DEF Next, Reset, Tick, BrokerDown, BrokerUp, vars
<1>3. QED
  BY <1>1, <1>2, TypeCorrect, PTL DEF Spec

\* While the circuit is open, the last probe is at least as old as the cooldown.
CooldownCoversProbe == state = OPEN => elapsed <= sinceProbe

\* Probes are at least one reset_timeout apart, however long calls last.
THEOREM SpacingTheorem == Spec => ProbesAreSpaced
<1> USE BreakerAssumption DEF BreakerAssumption, CLOSED, OPEN, HALF_OPEN
<1>1. Init => CooldownCoversProbe
  BY DEF Init, CooldownCoversProbe
<1>2. TypeOK /\ CooldownCoversProbe /\ [Next]_vars => CooldownCoversProbe'
  <2> SUFFICES ASSUME TypeOK, CooldownCoversProbe, [Next]_vars PROVE CooldownCoversProbe'
    OBVIOUS
  <2>1. ASSUME NEW t \in Threads, CallClosed(t) \/ CallProbe(t) \/ OnSuccess(t)
        PROVE  CooldownCoversProbe'
    BY <2>1 DEF CallClosed, CallProbe, OnSuccess, history, CooldownCoversProbe
  <2>2. ASSUME NEW t \in Threads, OnFailure(t)
        PROVE  CooldownCoversProbe'
    BY <2>2 DEF OnFailure, Trip, TypeOK, history, CooldownCoversProbe
  <2>3. CASE Tick
    BY <2>3 DEF Tick, Later, TypeOK, CooldownCoversProbe
  <2>4. CASE Reset \/ BrokerDown \/ BrokerUp \/ UNCHANGED vars
    BY <2>4 DEF Reset, BrokerDown, BrokerUp, vars, history, CooldownCoversProbe
  <2>5. QED
    BY <2>1, <2>2, <2>3, <2>4 DEF Next
<1>3. TypeOK /\ CooldownCoversProbe /\ [Next]_vars
      => [\A t \in Threads :
            call'[t] = "probe" /\ call[t] # "probe" => sinceProbe = ResetTimeout]_vars
  <2> SUFFICES ASSUME TypeOK, CooldownCoversProbe, [Next]_vars, NEW t \in Threads,
                      call'[t] = "probe", call[t] # "probe"
               PROVE  sinceProbe = ResetTimeout
    OBVIOUS
  <2>1. \E u \in Threads : CallProbe(u)
    BY DEF Next, CallClosed, OnFailure, OnSuccess, Reset, Tick, BrokerDown, BrokerUp, Begin,
       End, history, vars, TypeOK
  <2>2. QED
    BY <2>1 DEF CallProbe, CooldownCoversProbe, TypeOK
<1>4. QED
  BY <1>1, <1>2, <1>3, TypeCorrect, PTL DEF Spec, ProbesAreSpaced

\* When a cooldown is over, no caller is in an open circuit, as long as no call
\* has outlived a cooldown.
OpenIsQuiet ==
    ~overran /\ state = OPEN /\ elapsed = ResetTimeout => \A t \in Threads : ~InCall(t)

\* half_open is single-flight until a call first outlives a cooldown: the
\* candidate for a second probe is a late failure, and nothing else.
THEOREM SingleFlightTheorem == Spec => []PromptSingleFlight
<1> USE BreakerAssumption DEF BreakerAssumption, CLOSED, OPEN, HALF_OPEN
<1>1. Init => OpenIsQuiet /\ PromptSingleFlight
  BY DEF Init, OpenIsQuiet, PromptSingleFlight, SingleFlight
<1>2. TypeOK /\ OpenIsQuiet /\ PromptSingleFlight /\ [Next]_vars
      => (OpenIsQuiet /\ PromptSingleFlight)'
  <2> SUFFICES ASSUME TypeOK, OpenIsQuiet, PromptSingleFlight, [Next]_vars
               PROVE  OpenIsQuiet' /\ PromptSingleFlight'
    OBVIOUS
  <2> USE DEF PromptSingleFlight, SingleFlight, OpenIsQuiet, InCall, history
  <2>1. ASSUME NEW t \in Threads, CallProbe(t)
        PROVE  OpenIsQuiet' /\ PromptSingleFlight'
    BY <2>1 DEF CallProbe, Begin, TypeOK
  <2>2. ASSUME NEW t \in Threads, CallClosed(t)
        PROVE  OpenIsQuiet' /\ PromptSingleFlight'
    BY <2>2 DEF CallClosed, Begin, TypeOK
  <2>3. ASSUME NEW t \in Threads, OnFailure(t) \/ OnSuccess(t)
        PROVE  OpenIsQuiet' /\ PromptSingleFlight'
    BY <2>3 DEF OnFailure, OnSuccess, Trip, End, TypeOK
  <2>4. CASE Tick
    BY <2>4 DEF Tick, Later, TypeOK
  <2>5. CASE Reset \/ BrokerDown \/ BrokerUp \/ UNCHANGED vars
    BY <2>5 DEF Reset, BrokerDown, BrokerUp, vars
  <2>6. QED
    BY <2>1, <2>2, <2>3, <2>4, <2>5 DEF Next
<1>3. QED
  BY <1>1, <1>2, TypeCorrect, PTL DEF Spec
=============================================================================
