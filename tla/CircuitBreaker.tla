--------------------------- MODULE CircuitBreaker ---------------------------
(***************************************************************************)
(* circuit_breaker.CircuitBreaker as main._enqueue uses it: one breaker    *)
(* per API process, called by the threads of its pool.  The lock covers a  *)
(* state transition and never the wrapped call, so a call that started in  *)
(* one state may report its outcome in another.                            *)
(***************************************************************************)
EXTENDS Integers

CONSTANTS
    Threads,       \* threads of one API process
    Threshold,     \* failure_threshold (ENQUEUE_BREAKER_FAILURE_THRESHOLD)
    ResetTimeout,  \* reset_timeout, in ticks
    Outages        \* BOUND: how often the broker may go down

ASSUME BreakerAssumption ==
    /\ Threshold \in Nat \ {0}
    /\ ResetTimeout \in Nat \ {0}
    /\ Outages \in Nat

VARIABLES
    state,      \* _state
    failures,   \* _failures
    elapsed,    \* time.monotonic() - _opened_at, no further than ResetTimeout
    call,       \* per thread: not in call(), in fn as an ordinary call, or
                \* in fn as the probe that moved the breaker to half_open
    sinceProbe, \* history: ticks since a probe last started, saturated alike
    overran,    \* history: some call was in flight when a cooldown ended
    brokerUp,   \* does fn succeed now?
    outages     \* outages still to come

vars == <<state, failures, elapsed, call, sinceProbe, overran, brokerUp, outages>>
history == <<sinceProbe, overran>>
broker == <<brokerUp, outages>>

CLOSED == "closed"
OPEN == "open"
HALF_OPEN == "half_open"

InCall(t) == call[t] # "none"

Init ==
    /\ state = CLOSED
    /\ failures = 0
    /\ elapsed = ResetTimeout
    /\ call = [t \in Threads |-> "none"]
    /\ sinceProbe = ResetTimeout
    /\ overran = FALSE
    /\ brokerUp = TRUE
    /\ outages = Outages

Begin(t, kind) ==
    /\ ~InCall(t)
    /\ call' = [call EXCEPT ![t] = kind]

End(t) == call' = [call EXCEPT ![t] = "none"]

\* _before_call lets an ordinary call through.
CallClosed(t) ==
    /\ state = CLOSED
    /\ Begin(t, "ordinary")
    /\ UNCHANGED <<state, failures, elapsed, history, broker>>

\* Mutant of CallProbe: half_open does not turn callers away.
CallProbeAgain(t) ==
    /\ state \in {OPEN, HALF_OPEN}
    /\ elapsed = ResetTimeout
    /\ Begin(t, "probe")
    /\ state' = HALF_OPEN
    /\ sinceProbe' = 0
    /\ UNCHANGED <<failures, elapsed, overran, broker>>

\* _before_call: the cooldown is over, this call is the probe.  In every other
\* case it raises CircuitOpen, which changes nothing.
CallProbe(t) ==
    /\ state = OPEN
    /\ elapsed = ResetTimeout
    /\ Begin(t, "probe")
    /\ state' = HALF_OPEN
    /\ sinceProbe' = 0
    /\ UNCHANGED <<failures, elapsed, overran, broker>>

\* Mutant of Trip: _opened_at is not set again.
TripKeepingClock == state' = OPEN /\ UNCHANGED elapsed

Trip ==
    /\ state' = OPEN
    /\ elapsed' = 0

\* Mutants of OnFailure: one failure too many; a failed probe is only counted.
OnFailureLate(t) ==
    /\ InCall(t)
    /\ End(t)
    /\ IF state = HALF_OPEN
       THEN Trip /\ UNCHANGED failures
       ELSE /\ failures' = failures + 1
            /\ IF state = CLOSED /\ failures + 1 > Threshold
               THEN Trip
               ELSE UNCHANGED <<state, elapsed>>
    /\ UNCHANGED <<history, broker>>

OnFailureCounting(t) ==
    /\ InCall(t)
    /\ End(t)
    /\ failures' = failures + 1
    /\ IF state = CLOSED /\ failures + 1 >= Threshold
       THEN Trip
       ELSE UNCHANGED <<state, elapsed>>
    /\ UNCHANGED <<history, broker>>

\* fn raised; _on_failure looks at the state of now, not of the call's start.
OnFailure(t) ==
    /\ InCall(t)
    /\ End(t)
    /\ IF state = HALF_OPEN
       THEN Trip /\ UNCHANGED failures
       ELSE /\ failures' = failures + 1
            /\ IF state = CLOSED /\ failures + 1 >= Threshold
               THEN Trip
               ELSE UNCHANGED <<state, elapsed>>
    /\ UNCHANGED <<history, broker>>

\* Mutants of OnSuccess: a success takes one failure back, also where none is counted;
\* the counter is reset and the state is not.
OnSuccessForgivesOne(t) ==
    /\ InCall(t)
    /\ brokerUp
    /\ End(t)
    /\ state' = CLOSED
    /\ failures' = failures - 1
    /\ UNCHANGED <<elapsed, history, broker>>

OnSuccessResetsCounter(t) ==
    /\ InCall(t)
    /\ brokerUp
    /\ End(t)
    /\ failures' = 0
    /\ UNCHANGED <<state, elapsed, history, broker>>

\* fn returned; whatever the state, one success closes the circuit.
OnSuccess(t) ==
    /\ InCall(t)
    /\ brokerUp
    /\ End(t)
    /\ state' = CLOSED
    /\ failures' = 0
    /\ UNCHANGED <<elapsed, history, broker>>

\* reset(), called between tests; _opened_at = 0.0 lies a cooldown in the past.
Reset ==
    /\ state' = CLOSED
    /\ failures' = 0
    /\ elapsed' = ResetTimeout
    /\ UNCHANGED <<call, history, broker>>

Later(n) == IF n < ResetTimeout THEN n + 1 ELSE n

Tick ==
    /\ elapsed < ResetTimeout \/ sinceProbe < ResetTimeout
    /\ elapsed' = Later(elapsed)
    /\ sinceProbe' = Later(sinceProbe)
    /\ overran' = (\/ overran
                   \/ state = OPEN /\ elapsed' = ResetTimeout /\ \E t \in Threads : InCall(t))
    /\ UNCHANGED <<state, failures, call, broker>>

BrokerDown ==
    /\ brokerUp
    /\ outages > 0
    /\ brokerUp' = FALSE
    /\ outages' = outages - 1
    /\ UNCHANGED <<state, failures, elapsed, call, history>>

BrokerUp ==
    /\ ~brokerUp
    /\ brokerUp' = TRUE
    /\ UNCHANGED <<state, failures, elapsed, call, history, outages>>

Next ==
    \/ \E t \in Threads :
         CallClosed(t) \/ CallProbe(t) \/ OnFailure(t) \/ OnSuccess(t)
    \/ Reset \/ Tick \/ BrokerDown \/ BrokerUp

Spec == Init /\ [][Next]_vars

(***************************************************************************)
(* The wrapped call returns (socket timeouts of 2 s bound it), time passes *)
(* and orders keep arriving.  A failure with the broker up is possible but *)
(* not owed, and while the broker is up a call that keeps being tried is   *)
(* answered by a success in the end.                                       *)
(***************************************************************************)
Fairness ==
    /\ \A t \in Threads :
         /\ WF_vars(OnFailure(t) \/ OnSuccess(t))
         /\ SF_vars(OnSuccess(t))
    /\ WF_vars(\E t \in Threads : CallClosed(t) \/ CallProbe(t))
    /\ WF_vars(Tick)

FairSpec == Spec /\ Fairness
-----------------------------------------------------------------------------
\* Every variable has its type; the counter of _on_failure and _on_success never
\* falls below zero.
TypeOK ==
    /\ state \in {CLOSED, OPEN, HALF_OPEN}
    /\ failures \in Nat
    /\ elapsed \in 0..ResetTimeout
    /\ call \in [Threads -> {"none", "ordinary", "probe"}]
    /\ sinceProbe \in 0..ResetTimeout
    /\ overran \in BOOLEAN
    /\ brokerUp \in BOOLEAN
    /\ outages \in Nat

\* The circuit refuses calls exactly when failure_threshold failures have been
\* counted with no success since: neither a late outcome nor a failed probe can
\* leave it open below the threshold or closed at it.
ThresholdDecides == (state = CLOSED) <=> (failures < Threshold)

\* half_open rejects every caller, so somebody must be about to decide it: a
\* breaker in half_open always has a probe in flight, or it would stay there.
HalfOpenHasProbe == state = HALF_OPEN => \E t \in Threads : call[t] = "probe"

\* One probe at a time.
SingleFlight ==
    \A t, u \in Threads : call[t] = "probe" /\ call[u] = "probe" => t = u

\* half_open is single-flight, as circuit_breaker.py says, until a call first
\* outlives a cooldown: its late failure may re-open the circuit under the probe.
PromptSingleFlight == ~overran => SingleFlight

\* What remains of it when calls outlive the cooldown: a probe never starts
\* less than one reset_timeout after the previous one started.
ProbesAreSpaced ==
    [][\A t \in Threads :
         call'[t] = "probe" /\ call[t] # "probe" => sinceProbe = ResetTimeout]_vars

\* Once the broker stays up, the circuit closes again and again: an outage never
\* leaves dispatch off for good.
ClosesAfterOutage == <>[]brokerUp => []<>(state = CLOSED)
=============================================================================
