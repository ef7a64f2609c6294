------------------------------- MODULE Seeder -------------------------------
(***************************************************************************)
(* One run of scripts/seed_demo.py, as the DAG seed_demo_daily starts it   *)
(* for a slot, and the rate limit of POST /orders that it meets.  An order *)
(* of the model stands for as many orders as the scale of the clock makes  *)
(* it; everything the script does at once happens before the next tick.    *)
(***************************************************************************)
EXTENDS PendingProbe

CONSTANTS
    Orders,           \* --n
    Pace,             \* ticks from one order to the next: 1 / --rps
    MaxRetries,       \* max_retries
    Slept,            \* Slept[k]: how long an order has slept after its k-th 429, in ticks
    Patience,         \* most ticks that the answers to an order of the model may take:
                      \* each of the orders it stands for may time out
    VerifyWait,       \* --verify-wait
    RequiredPct,      \* --require-landed-pct
    ExecutionTimeout, \* of the task; it is not retried
    Limit, Window,    \* @limiter.limit("60/minute")
    FollowedOrder,    \* BOUND: the order whose row is followed
    Budgets           \* BOUND: the numbers of mishaps that are looked at together; slow
                      \* answers are counted by their ticks

Kinds == {"slow", "lost", "refused", "missed", "rival"}

ASSUME SeederAssumption ==
    /\ {Orders, Pace, MaxRetries, Patience, VerifyWait, ExecutionTimeout, Limit, Window}
           \subseteq Nat \ {0}
    /\ RequiredPct \in 1..100
    /\ Slept \in [0..MaxRetries -> Nat] /\ Slept[0] = 0
    /\ \A k \in 1..MaxRetries : Slept[k - 1] <= Slept[k]
    /\ FollowedOrder \in 1..Orders
    /\ Budgets \subseteq [Kinds -> Nat]

VARIABLES
    phase,    \* "sending", "verifying"; the task ends "green" or "red"
    elapsed,  \* now - started
    sent,     \* orders dealt with: sum(results.values())
    ok,       \* results["ok"]
    dropped,  \* results["http:429_giveup"]
    raws,     \* rows of the batch in raw
    refusals, \* 429s of the current order
    wait,     \* ticks that the script sleeps, or waits for an answer
    window,   \* the counter of the client: time left, hits
    mishaps   \* mishaps so far, by kind

seederVars == <<phase, elapsed, sent, ok, dropped, raws, refusals, wait, window, mishaps>>
counts == <<ok, dropped, raws>>

Closed == [left |-> 0, hits |-> 0]

SeederInit ==
    /\ phase = "sending"
    /\ elapsed = 0 /\ sent = 0 /\ refusals = 0 /\ wait = 0
    /\ ok = 0 /\ dropped = 0 /\ raws = 0
    /\ window = Closed
    /\ mishaps = [k \in Kinds |-> 0]

\* n mishaps of a kind, if some budget allows them on top of the others.
Mishap(kind, n) ==
    LET now == [mishaps EXCEPT ![kind] = @ + n]
    IN /\ \E b \in Budgets : \A k \in Kinds : now[k] <= b[k]
       /\ mishaps' = now

-----------------------------------------------------------------------------
(* The limiter: one window per client, opened by its first hit.            *)

Admits == window.left = 0 \/ window.hits < Limit

Hit == window' = IF window.left = 0 THEN [left |-> Window, hits |-> 1]
                 ELSE [window EXCEPT !.hits = @ + 1]

\* A request with the same key from elsewhere, such as the gate demo.
RivalPosts ==
    /\ phase = "sending" /\ Admits
    /\ Hit /\ Mishap("rival", 1)
    /\ UNCHANGED <<rowVars, phase, elapsed, sent, counts, refusals, wait>>

-----------------------------------------------------------------------------
(* post_one: its attempts for the current order.                           *)

\* Mutant of Due: the orders are not paced.
DueAtOnce == phase = "sending" /\ wait = 0 /\ sent < Orders

\* The pace is kept from the start of the batch: a run that is behind catches up.
Due == phase = "sending" /\ wait = 0 /\ sent < Orders /\ elapsed >= sent * Pace

\* The order is done with, and the answer took so many ticks.
DoneWith(ticks) ==
    /\ sent' = sent + 1 /\ refusals' = 0 /\ wait' = ticks
    /\ UNCHANGED <<phase, elapsed, dropped>>

\* The row of the order is in raw.
Lands ==
    /\ raws' = raws + 1
    /\ IF sent + 1 = FollowedOrder THEN Land ELSE UNCHANGED rowVars

Attempt == Due /\ refusals < MaxRetries

\* Answered at once, or only when the patience of httpx is at its end.
Accepted ==
    /\ Attempt /\ Admits /\ Hit
    /\ \E ticks \in {0, Patience} : Mishap("slow", ticks) /\ DoneWith(ticks)
    /\ Lands /\ ok' = ok + 1

\* Mutant of AnswerLost: a network error is answered by another attempt.
LostIsSentAgain ==
    /\ Attempt /\ Admits /\ Hit
    /\ Mishap("lost", 1)
    /\ \E ticks \in {0, Patience} : wait' = ticks
    /\ Lands \/ UNCHANGED <<rowVars, raws>>
    /\ refusals' = refusals + 1
    /\ UNCHANGED <<phase, elapsed, sent, ok, dropped>>

\* httpx.RequestError, at once or as a timeout: the row may have landed or not.
AnswerLost ==
    /\ Attempt /\ Admits /\ Hit
    /\ Mishap("lost", 1)
    /\ \E ticks \in {0, Patience} : DoneWith(ticks)
    /\ Lands \/ UNCHANGED <<rowVars, raws>>
    /\ UNCHANGED ok

\* 422 comes before the limiter, 500 and 503 come after it.
Refused ==
    /\ Attempt /\ (UNCHANGED window \/ (Admits /\ Hit))
    /\ Mishap("refused", 1)
    /\ DoneWith(0)
    /\ UNCHANGED <<rowVars, ok, raws>>

TooMany ==
    /\ Attempt /\ ~Admits
    /\ refusals' = refusals + 1
    /\ wait' = Slept[refusals + 1] - Slept[refusals]
    /\ UNCHANGED <<rowVars, phase, elapsed, sent, counts, window, mishaps>>

\* max_retries attempts were refused: "http:429_giveup".
GiveUp ==
    /\ Due /\ refusals = MaxRetries
    /\ sent' = sent + 1 /\ refusals' = 0
    /\ dropped' = dropped + 1
    /\ UNCHANGED <<rowVars, phase, elapsed, ok, raws, wait, window, mishaps>>

-----------------------------------------------------------------------------
BatchEnds ==
    /\ phase = "sending" /\ wait = 0 /\ sent = Orders
    /\ phase' = "verifying" /\ wait' = VerifyWait
    /\ UNCHANGED <<rowVars, elapsed, sent, counts, refusals, window, mishaps>>

NoCount == -1

\* Mutant of GatePasses: without a count there is nothing to hold against the run.
GatePassesUncounted(landed) == landed = NoCount \/ (ok > 0 /\ 100 * landed >= RequiredPct * ok)

\* enforce_landed.
GatePasses(landed) == landed # NoCount /\ ok > 0 /\ 100 * landed >= RequiredPct * ok

\* What verify may find in ods: nothing in an outage; otherwise the rows of raw,
\* but for those that a fault has delayed or that ended as error or duplicate.
Verify ==
    /\ phase = "verifying" /\ wait = 0
    /\ \E missed \in 0..raws :
         /\ outage => missed = raws
         /\ Followed => missed > 0
         /\ IF outage THEN UNCHANGED mishaps ELSE Mishap("missed", missed)
         /\ \E landed \in {raws - missed, NoCount} :
              phase' = IF GatePasses(landed) THEN "green" ELSE "red"
    /\ UNCHANGED <<rowVars, elapsed, sent, counts, refusals, wait, window>>

Running == phase \in {"sending", "verifying"}

Killed ==
    /\ Running /\ elapsed = ExecutionTimeout
    /\ phase' = "red" /\ wait' = 0
    /\ UNCHANGED <<rowVars, elapsed, sent, counts, refusals, window, mishaps>>

SeederStep ==
    \/ Accepted \/ AnswerLost \/ Refused \/ TooMany \/ GiveUp
    \/ BatchEnds \/ Verify \/ Killed

\* Nothing of the script is due before the clock moves on.
SeederRests ==
    Running =>
        /\ elapsed < ExecutionTimeout
        /\ wait > 0 \/ (phase = "sending" /\ sent < Orders /\ ~Due)

SeederTick ==
    /\ SeederRests
    /\ elapsed' = elapsed + 1
    /\ wait' = IF wait > 0 THEN wait - 1 ELSE 0
    /\ window' = IF window.left > 1 THEN [window EXCEPT !.left = @ - 1] ELSE Closed
    /\ UNCHANGED <<phase, sent, counts, refusals, mishaps>>
-----------------------------------------------------------------------------
SeederTypeOK ==
    /\ phase \in {"sending", "verifying", "green", "red"}
    /\ elapsed \in Nat /\ wait \in Nat
    /\ sent \in 0..Orders
    /\ {ok, dropped, raws} \subseteq Nat /\ ok + dropped <= sent
    /\ refusals \in 0..MaxRetries
    /\ window \in [left : 0..Window, hits : 0..Limit]
    /\ mishaps \in [Kinds -> Nat]
=============================================================================
