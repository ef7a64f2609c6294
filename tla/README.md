# Verification of the e-commerce data ingestion platform

TLA+ modules for the parts of the platform that decide what happens to an
order, the TLC instances that check them and the TLAPS proofs about them.
Paths are relative to `src/`.

## 1. The system

An order travels through four stages: the API commits the verbatim payload
(`raw`), a Celery worker turns it into a row of `ods` with a quality verdict, a
daily job copies `ods` and `quality_events` to BigQuery, dbt builds Silver and
Gold from the copy. Two paths run against the stream: the recovery scan
redispatches what got lost, and a re-evaluation re-judges quarantined orders
under new rules.

### Inventory

| Component | State | Operations | Interacts through | What is hard | Correct when |
|---|---|---|---|---|---|
| Order API (`main.py`) | the handler's position and attempt | `create_order`, `process_raw` (replay, `force`) | `raw`, the broker | commit and dispatch are two steps, either may fail; check-then-reset of `force` | nothing is dispatched before it is durable; an accepted order is settled in the end; a processed order is not replayed |
| Worker (`process.py`, `tasks.py`) | position, raw id, attempt | claim (CAS), build, pre-check, commit, mark | `raw`, `ods`, `quality_events`, messages acked late | redelivery, crash, lost commit acks, workers slower than the stale threshold, two Raws of one order | one writer per Raw; first write wins; row, verdict and status are one transaction; terminal statuses are true |
| Recovery scan (`tasks.py`, `process.py`) | cursor, page, round, lock token | lock, reset stale, select pending, dispatch, release | Redis lock, `raw`, the broker | SELECT and UPDATE are two statements; the lock is best effort, its TTL equals the scan period | every stuck row is found; nobody deletes another run's lock; no row starves behind the page |
| Tables (`models.py`) | `raw`, `ods`, `quality_events` | transactions | everybody | UNIQUE constraints decide races | the ledger of `OdsLedger` |
| Broker (Redis, external) | messages | publish, deliver, redeliver, lose | API, worker, scan | no persistence, visibility timeout | — |
| Enqueue breaker (`circuit_breaker.py`) | state, failures, `_opened_at` | `call`, `reset` | API threads | outcomes arrive in another state than the call started in | the threshold decides; half_open is decided by a probe; probes are spaced; dispatch comes back |
| Pending probe (`check_raw_pending.py`) | none | derive threshold, inspect | `raw` | the threshold must cover the recovery path's own delays | a single fault heals below it |
| Quality log (`quality_events`) | append-only events | initial event, promotion, re-quarantine, rejection | worker, re-evaluation, operator | three writers, one state machine, no lock | events are transitions; `permanently_rejected` is final |
| Extraction (`extract_ods_to_bq.py`) | none: the watermark is read from the partitions | extract per table | PostgreSQL, staging | two tables extracted at different times, day-grained watermark, runs that fail half way | no row is passed over |
| Warehouse (dbt models) | staging, `stg_*`, `int_*`, marts | build per table, tests as gates | each layer reads the one before | partition overwrite with a moving window, two models that must partition a third, rows of any age that change state | Silver never loses a row; the split is a partition; Gold follows the state |
| Daily run (`orders_analytics_daily.py`) | layer reached | start, task, gate, fail | all the above | stops anywhere, next run starts from there | failures within the window cost nothing |
| Re-evaluation (`reevaluate_quality.py`) | candidates, states, plan | read, fetch, plan, append | BigQuery (candidates), PostgreSQL (states) | three reads at three times, one of them of a lagging mirror | idempotent; never overrides a human; never promotes lost evidence |
| Contract and rules (`schema.py`, `clean.py`) | none: functions of the payload, the clock and the rule version | validation by `OrderIN`, `from_nested`, `format_clean`, `business_clean`, `detect_schema_drift` | API, worker, re-evaluation | two declarations of one contract, numbers normalised in place, one rule that reads a clock, types checked by one layer and values by another | accepted orders can be built; nothing is lost without a trace; the stored row gives the same verdict as of `received_at` |
| Report (`rpt_quality_events_daily.sql`) | the events it has counted | build | Silver, the clock | a window of its own, computed later than the window it reads through | misses nothing that Silver still takes |
| Seeding (`seed_demo.py`, `seed_demo_daily.py`) | batch position, counters, attempts of one order | `post_one`, `run`, `verify`, `enforce_landed` | the API through its rate limit, `ods` | lost answers are not resent and 429s are, pace kept from the start of the batch, the script judges its own batch | no order twice; never green over rows nobody processes; a healthy slot drops nothing |
| Rate limit (`main.py:82`) | hits per key and window | admit, refuse | API, every client with the key | window opened by its first hit | — |
| Watch (`raw_pending_watch.py`) | none | look at `raw` once per slot | the probe | a verdict that must be binary at one instant | red exactly if the dispatch path is down |
| Authentication, configuration, logging, telemetry, migrations, OpenAPI, load test | — | — | — | — | outside the models, see 6 |

The hazards, each at its line with the properties that watch it, are in
`PROJECT.json`.

## 2. Modules

```
OrderStore  <- OrderWorker, RecoveryScan, OrderApi <- Ingestion <- MCIngestion, Ingestion_proofs <- Exclusion_proofs
               OdsLedger, RawLifecycle: what Ingestion implements
OrderContract <- OrderRules <- SeedPayloads <- Judging <- MCJudging, Judging_proofs
QualityLog  <- DailyRun <- Reevaluation <- Analytics <- MCAnalytics, Analytics_proofs
               Analytics_proofs <- Windows_proofs, Quality_proofs
               QualityStates: what Analytics implements
CircuitBreaker <- MCBreaker, CircuitBreaker_proofs
PendingProbe <- Seeder <- SeedSlot <- MCSlot, SeedSlot_proofs
```

| Module | Code | Correspondence |
|---|---|---|
| `OrderStore` | `models.py`, `recovery_policy.py`, broker | A transaction is one step, at its commit. READ COMMITTED: a SELECT and a later UPDATE are two steps. `received_at` and `processing_started_at` are ages against the threshold they are compared with (`null`, `fresh`, `old`). A payload is what processing makes of it. A message is a count per Raw. |
| `OrderWorker` | `process.process_raw_event` | One action per transaction and per exception path. Retry loops keep their attempt number. `...AckLost` is a commit that happened and raised. |
| `RecoveryScan` | `tasks.scan_and_dispatch_task`, `_scan_lock`, `process.scan_and_recover` | Locals of the task as variables per slot; each statement and each publish is a step. |
| `OrderApi` | `main.create_order`, `process_raw` | One handler per Raw for POST /orders; `Operators` are concurrent replays. |
| `Ingestion` | `celery_app.py` | The composition with clocks, Redis restarts and fairness. |
| `OdsLedger` | — | Abstract: an order lands once, with one verdict, for good. |
| `RawLifecycle` | the diagram of `design/ingestion.md` | Abstract: the edges of `raw.status`. |
| `CircuitBreaker` | `circuit_breaker.py` | Every transition under the lock is a step; the wrapped call is not. |
| `OrderContract` | `schema.py`, the validation of `create_order`, `clean.from_nested`, drift detection | A JSON value is a record of its kind, its form and one number (a magnitude, a length, a day); the contract is a table from field to declaration, as `model_fields` is. The walk through it is written out level by level, three models deep, not recursively. `Dotted` holds the names of fields that read like a path: `Kept` is the dict of `unmapped_fields`, whose key is the path as a string, so that of two fields that are `Spelled` alike the one written last stays. |
| `OrderRules` | `clean.py` | `format_clean`, `business_clean` with its rule versions, the limits of the columns of `ods` and `raw`. |
| `SeedPayloads` | `seed_demo.make_order`, `inject_dirty`, `strip_optional_costs` | The generated order and each injector as a set of changes, with the code it expects. |
| `Judging` | `create_order`, `process.process_raw_event`, `reevaluate_quality.py` | One order from payload to verdicts, with midnights and deployments between the steps. |
| `PendingProbe` | `check_raw_pending.py`, `recovery_policy.py` | One row in discrete time. |
| `Seeder` | `seed_demo.py`, `seed_demo_daily.py`, the limiter of `main.py` | One run of the script; one action per kind of answer. |
| `SeedSlot` | `raw_pending_watch.py` | The batch and one of its rows on the same clock. |
| `QualityLog` | `models.QualityEvent`, `clean.business_clean`, `process.py` | `ods.received_at` and the event log. An order is one of three kinds: clean under all rules, dirty under the strict ones, or dirty by a value that ingestion normalised away. |
| `DailyRun` | `orders_analytics_daily.py`, `extract_ods_to_bq.py`, `stg_*`, `int_*`, `fct_orders`, `rpt_quality_events_daily` | A table is the set of its keys; a dbt model is one step, as BigQuery replaces a table or its partitions atomically. |
| `Reevaluation` | `reevaluate_quality.py` | Candidates, states, plan and append are four steps. |
| `QualityStates` | the diagram of `design/data-quality.md` | Abstract: the edges of the quality state. |
| `Analytics` | `dq_reevaluation.py` | The three side by side. |

The modules of proofs, one per argument, are in 4.

Abstractions a reader should know:

* **Copies of one message are merged** above `MaxMsgs`: a further copy is one more
  claim that misses, which changes nothing.
* **`Enqueue` is nondeterministic.** The message is out or it is not. That covers the
  broker's failures and every decision of the circuit breaker, which is therefore
  modelled alone.
* **`Attempts`** is 3 in the code and 1 or 2 in the instances; with 2 every loop has
  a retry and a last attempt. The proofs hold for any number.
* **Values keep what a decision can tell apart.** A text is its length and what it looks like
  (`blank`, `nul`, a number, a flag); a number is its value and whether it is finite or
  wider than its column. `Coerced` is what pydantic's lax mode makes of it, `ColumnHolds`
  what PostgreSQL does.
* **`Places`** are the values inside a JSON value down to six levels, two below the deepest
  field of the contract. `IsJson` says that a payload has no more and that its scalars are those of
  `json.loads`; `JudgingAssumption` requires it of `Orders`.
* **An order of `Seeder` is 12 orders**, a tick is 15 s: what the script does between two
  ticks takes no time. The limit, the pace and the length of the batch are scaled alike;
  the window of the limit holds whole multiples of both.
* **`Reinsert`.** After a lost acknowledgement SQLAlchemy keeps the primary key of the
  rolled back object, so the next attempt inserts the same id again.
* **Extraction is one step per table.** It reads a snapshot of PostgreSQL and appends
  later; only the daily run writes staging and only one runs, so read and append can
  be moved together. The duplicates in staging are dropped by `stg_`: sets.
* **Event order.** `ORDER BY event_at, id` is a rank: an event whose `event_at` is the
  time of its INSERT comes after everything there is and everything already planned
  (`NowRank`), a planned event carries the time of the plan (`PlannedRank`).
* **`WithReports` = FALSE** in the instances about states: nothing reads the report, and its
  builds would only multiply states. `windows` has it.
* **`GatePercent` = 101** opens the hard gate in `quality`, where it could not let a dirty batch of two
  rows through otherwise (the code has 15 %); the gate still closes when `stg_` and staging do not
  reconcile. In `windows` it is 60, and one bad row of one or two closes it or does not.
  `GoldFollows` is proved for any threshold.
* **`Budgets`** are alternatives: TLC explores a behaviour under each of them. All allow equally many
  late commits, so that `NoneLate` can be told from what is left.
* **`overran`, `sinceProbe`, `builtAt`, `readAt`, `apart`, `mishaps`** are history for the properties.

## 3. Runs

| Run | Instance and bounds | Shows |
|---|---|---|
| `race` | 3 Raws of one order (unstorable, clean, dirty), 2 workers, 2 attempts, one lost ack, one redelivery, one transient error | first write wins (`LedgerSpec`), row and verdict together, terminal statuses true, `IInv` |
| `lock` | 1 Raw, 2 workers, 2 scans, 1 operator, under one of three budgets: lost ack and slow worker; slow worker, lock error and lock expiry; or database error, crash, processing error, replay, lost queue, failed publish and redelivery; each once | types, `ProcessingIsTimed`, `LockIsLostToItsTTL`, `OnlyDurableRawsAreNamed` under all of them; `SingleWriter`, `RowMeansProcessed`, `LifecycleSpec` as long as no fault of the first two budgets has happened |
| `live` | 2 Raws (unstorable, dirty), 1 attempt, pages of one row, 2 rounds; one crash, one lost ack, one processing error or one database error; enqueue may always fail | `EveryRawIsSettled` |
| `breaker_late` | 3 threads, threshold 2, cooldown 2 ticks, 2 outages, calls of any length | the breaker's five properties |
| `slot` | 21 orders of 12 at 48 a minute under a limit of 60, deployed periods; four budgets (up to 84 ticks of slow answers, or lost and slow answers, a second sender and a refusal, delayed rows and a lost answer); one fault on the way of the last row, or an outage | the probe's threshold, the watch, the script's own verdict, no doubles, no drops |
| `rules` | the order of `make_order` with one value of 22 kinds at 27 places, sent or put into `raw`; every single injector and every pair of them; two unexpected fields spelled alike, at three places; orders dated ahead; 3 rule sets, 2 days | contract, walls, loss, marks, reproducibility, promotions, injections |
| `quality` | 2 dirty rows (one with lost evidence), 2 days, lookback 0 (a window of one day), one of two budgets: 2 deployments and 2 re-evaluations; or 1 deployment, 1 re-evaluation, 1 rejection and 1 failed job | events are transitions, lifecycle, split, lost values, and Gold as the states say (`GoldFollowsStates`) |
| `windows` | 2 rows, 5 instants = 3 UTC days of two halves, lookback 1, reconciliation 2, one failed run, one late commit, hard gate at 60 % | watermark, overwrite, lookback, and the report's window beside Silver's |
| `overlap` | violation | see Findings |
| `forced` | violation | see Findings |
| `rejection` | violation | see Findings |
| `double` | violation | see Findings |

Why the bounds suffice. The races of the ingestion path are between two actors of a
kind over one Raw or one order; a third Raw of the order makes the loser's collision
and the unstorable path meet. Each fault once, several kinds together, covers the
fault inside the repair of another fault; repeated faults of one kind only repeat a
retry or exhaust it, which `Attempts` = 2 already does. Paging needs a backlog larger
than a page and a row behind the cursor: two Raws, pages of one. The windows need a day
before, on and after the left edge, and an instant on each side of the time of the run:
three days of two halves with a lookback of one. In `quality` a row may land,
be promoted and be demoted on either of two days while a window holds one: a re-evaluation
meets rows that no window holds any more and rows that `stg_` has lost behind its window, for which
the reconciliation test closes the gate. An `int_` that is built from a window only (`BuildIntIncremental`)
violates `GoldFollowsStates` there. The property is about the runs that get through; a
row whose newest event Silver has not read yet is excluded until the run that reads it. In `live` one attempt is enough for every fault to exhaust
the retries. In `lock` the first two budgets hold the faults under which a claim or the lock is not
exclusive; the properties that need exclusiveness say `Undisturbed`, and `overlap` shows
that they are false without. `rules` changes one value at a time because the code looks at
one field at a time, but for the delivery date; the pairs of injectors cover that one and an
injector that overwrites another. In `slot` the followed row is that of the last order, the
one with the least time until the check; a stall can last longer than the execution timeout,
and two instants of retries stand for the five attempts, which lie at 0, 2, 6, 14 and 30 s
(`Slept`: the time an order has slept after each 429). The theorems about the batch hold for any
number of attempts and any sleeps; `SlotIsSchedulable` says that the instance satisfies their hypotheses.

`CHECK_DEADLOCK FALSE` is said where the system may stop: in `race` there is no Beat and
the messages run out; in `slot` and in the runs of `Judging` the followed order comes to its end and the
clock stops.

### Fairness

* Ingestion: running code goes on (weak fairness of each handler's normal steps; faults
  are choices bounded by the budget), Beat starts scans (`beat_schedule`), clocks
  advance, lock TTLs pass, and a waiting message is taken in the end (strong
  fairness per Raw, as the Redis list is first-in first-out). Clients and operators owe
  nothing, and a dispatch may always fail.
* `slot`, the runs of `Analytics` and those of `Judging` assert no liveness and assume no fairness:
  a batch that stays bad stops the daily runs by design, and a slot ends by its timeout.
* Breaker: the wrapped call returns (socket timeouts), orders keep arriving, time passes,
  and with the broker up a call that keeps being tried succeeds in the end.

## 4. Proofs

| Module | Proves |
|---|---|
| `Ingestion_proofs` | types, the tables, the ledger, the scan lock's release |
| `Exclusion_proofs` | what excludes workers, scans, replays and inserts from one another; the lifecycle of `raw.status` |
| `CircuitBreaker_proofs` | threshold, probes |
| `SeedSlot_proofs` | the probe's threshold, the watch both ways, the batch's counters and its schedule under the rate limit |
| `Judging_proofs` | contract, walls, loss, marks, reproducibility and promotions, for every payload |
| `Analytics_proofs` | types of PostgreSQL, warehouse and job; lemmas about states, ranks and days |
| `Windows_proofs` | watermark, overwrite, lookback, report |
| `Quality_proofs` | the log, the split that Gold reads, Gold's values and what Gold follows, the state machine of a row |

The theorems hold for every value of the constants. The assumptions are those named in the
modules: Raw ids are natural numbers (positive in the ingestion path) and a finite set where a
page or a plan counts them, at least one attempt, page and round, `NoScan` is not a scan; for the
breaker a positive threshold and cooldown; for the warehouse at least one tick a day and a
reconciliation window longer than the lookback, as `dbt_project.yml` has it; for the
contract and the rules, payloads that are JSON down to six levels and rule sets that exist; for the slot
positive numbers and sleeps that add up. No fault budget is
assumed zero. Some theorems have a hypothesis of their own; the last column says which run, or
which reading of the code, shows what happens without it:

| Hypothesis | Theorems | Without it |
|---|---|---|
| `Undisturbed` (inside the property) | `ClaimIsALock`, `LandedIsProcessed`, `StatusFollowsLifecycle`, `CollisionNeedsDisturbance`, `ReplayNeedsDisturbance` | run `overlap`; `forced` for two replays at a time |
| `"reject" \notin Overlaps` | `JobNeverOutdated`, `LogRefinesLifecycle`, `RejectionStays` | run `rejection` |
| `Overlaps = {}` | `LogIsAHistory` | runs `double`, `rejection` |
| `NoneLate` (inside the property) | `WatermarkPassesNoRow`, `ShortGaps`, `ReportGapsOnly` | a row of a late transaction is passed over, see Findings |
| `Faults <= 1` | `HealedTheorem`, `AlarmMeansOutage`, `WatchTheorem` | two delays add up, see Findings |
| `LimitKeepsPace` | `DropsNeedStalls`, `WatchTheorem` | a limit below the pace refuses orders of an undisturbed batch |
| `WatchComesLate` | `WatchTheorem` | a row that lands late is below the threshold at the check, see Findings |
| `begun = built.on` (inside the property) | `VerdictIsAlwaysReproducible`, `PromotionIsAlwaysEarned` | a commit tried again after midnight, see Findings |
| `Overwritten` (inside the property) | `NothingIsEverLost` | two unexpected fields with one key, see Findings |

The inductive invariants of `Exclusion_proofs` and of the warehouse hold in TLC too: `Unbroken` over
the instance of `lock` and one of two Raws; `LogInv`, `SplitInv`, `ValuesInv`, `VerdictInv`,
`JobIsCurrent` and `JobListsOnce` over that of `quality` (2 282 275 states); `WatermarkInv` and `GapInv` over
that of `windows` (2 490 804 states); `Reached` over the orders of `rules` with one day and two rule
sets (23 860 states).

The two numeric hypotheses hold of the deployment. In ticks of 1.25 s, one order each: pace 1,
limit 60, window 48, sleeps that add up to 2, 5, 12, 24 and 48. A window and the longest sleep that an
attempt follows, 48 + 13, fit into the 60 + 1 that `LimitKeepsPace` asks for. `WatchComesLate` holds
with about a hundred posts of a second sender: the last of 252 rows has landed by tick 510, the threshold
is 912 ticks and the check is at 1440.

Ingestion. What the properties need is not in the tables alone: a worker that is about to
write `duplicate` has read that the order is in `ods` some steps before. `IInv` adds what
the positions of the processes know: `MarkIsJustified` (such a worker's order is in `ods`,
and `ods` never loses a row), `BuiltIsBuildable` (past the build the payload is not
malformed) and `LocalsAreDurable` (ids in the locals of scans and handlers are those of
committed rows, and no row is ever deleted). The proof splits a step into what it does to
the tables: `StepWrites` shows that every step is a `TableStep`, an insert, a claim, a
landing, a mark, a reset or nothing; the conjuncts about the tables and the refinement of
`OdsLedger` are then proved from `TableStep`, not action by action. The conjuncts about
positions need the actions, one step each. `LedgerRefinement` follows from `TableStep`: a
landing is the ledger's step, everything else stutters. `LockTheorem` is an action property:
`Finish` compares the token, so only an expiry takes the lock from a live holder.

Breaker. `ThresholdTheorem` and `ProbeTheorem` are inductive over the call table;
`SpacingTheorem` relates `elapsed` to `sinceProbe` (the circuit opens after its probe
began); `SingleFlightTheorem` is inductive with `OpenIsQuiet`: as long as no call has
outlived a cooldown, a circuit that can be probed has no call in flight.

Slot. `HealedTheorem` assumes `Faults <= 1` and nothing else: `Timing` relates the clocks of the
row to its status, a lost dispatch waits for the first scan after the grace
(`age + nextScan <= Grace + Interval`), a dead worker for the first one after the stale
threshold (`running + nextScan <= Stale + Interval`), and both only once the fault is spent, so
that no row goes both ways. `NotDoubledTheorem` and `OutageTheorem` rest on `Counting`: rows of
the batch never outnumber the orders that were sent, whatever is lost or refused, and a count of
zero rows, or none, fails a gate that divides by a positive number.

`DropsNeedStalls` is about a schedule. `NextBy` is the latest instant for the next attempt of the batch:
the pace, plus what posts of others, stalls and orders given up have cost. `BatchIsOnSchedule` says
that the script is never behind it. The one step that could put it behind is a refusal, and there the
schedule must know when the window was opened: it is filled by `Limit` hits, each of which came no
earlier than the pace allows, so that it opened early enough to close soon
(`LimitKeepsPace`), and the sleep cannot outlast it by more than the slack. An order is given up
only if all of its attempts fall into one window, so that the first refusal came at least
`Slept[MaxRetries - 1]` before its end. A batch that is on schedule cannot have filled the window by
then: `LastAttemptIsAdmitted`. The threshold of `OnlyStallsDropOrders` is what the proof leaves over.
`WatchTheorem` has two halves: the alarm is `AlarmMeansOutage`, which follows from
`HealedTheorem` at any instant; the outage is seen as the schedule bounds the landing of the
row (`LandingInTime`), a row that nobody takes stays (`RowStaysLeft`), and `WatchComesLate` leaves
it time to pass the threshold.

Contract and rules. The state is short and `Reached`, the inductive invariant, says what each phase knows of the
payload: a malformed one cannot be built, `built` is the judgement of this payload on the day and by the
rules it names, a promoted row was once found clean. What remains are lemmas about the
operators. `AcceptedIsAlwaysBuilt` rests on `DeclarationsAgree`: the contract of `OrderIN` and the columns
of `ODSOrder`, written down twice in `schema.py`, give each column the same type.
`VerdictIsAlwaysReproducible` and `PromotionIsAlwaysEarned` go rule by rule: what is
stored breaks the same rules as what was sent, but for the numbers that cleaning replaced
(`CleanRowErrors`), and rule sets differ in age and lengths only
(`ErrorsOfVersions`). The other three are about every value inside a payload.
`PlacesInduction` is an induction over the levels of `Places`, written out, as induction over data is
out of reach: what holds of the root and is handed down from a value to those inside it holds
everywhere. `NothingIsEverLost` hands down that a value is *traced*, to its column, an item of the
row, `unmapped_fields` or a message (`AllIsTraced`); the lemmas on `Walk` say what the drift
detection reports of an order, a group, an item and a product. Of what was written into
`unmapped_fields`, each entry is kept or a deeper one has its key (`KeptOrOverwritten`), and each came with a
message (`FoundIsAnnounced`), so that the exception speaks of fields of this payload. `EveryBadNumberIsAlwaysMarked` goes the
way from the row back to the payload: a number of an item is what was sent, its
range error is found unless it is a string, and a string in a number's place is a drift
(`StringsDrift`). `OnlyWallsEverStopAnOrder` splits by what the INSERT can refuse: a column
(`ColumnIsBeyond`), the unmapped fields (`UnmappedIsBeyond`), or the items, of which an
accepted order has only what validation lets through and `Sanitized` makes finite
(`AcceptedItemsAreFine`, `ItemsAreBeyond`).

Exclusion. No lock keeps two workers off one Raw; a CAS and a threshold of age do, together with
everything that might reset the row in between. None of the exclusions is inductive alone:
that a worker past its claim is the only one (`ClaimsExclude`) needs that its row is still
`processing` and young (`ClaimIsFresh`), which needs that a scan about to reset rows still
holds a list of rows of dead workers (`StaleIsAbandoned`), for which scans must exclude one another
(`ScansExclude`), and that no forced replay resets a row that changed after its guard
(`ReplayIsOfFailure`, `OneReplay`), and no repeated INSERT (`InsertedOnce`). `Exclusive` is their
conjunction with `LandedStays`, and `Unbroken` is `Undisturbed => Exclusive`, inductive as
an event of `Disturbing` is never undone (`StaysUndisturbed`). As in `Ingestion_proofs` a step
is first reduced to what it does to the tables (a worker claims or settles, a scan resets,
an operator replays, the API inserts), and the theorems follow from that. Two of them
(`CollisionNeedsDisturbance`, `ReplayNeedsDisturbance`) say of the runs `overlap` and `forced`
that their violations need the disturbance that these runs allow.

Watermark and windows. `WatermarkInv` has what `max(received_at)` needs: nothing carries a
timestamp of the future (`Past`), and the events of a batch that is about to commit are of today
(`PlannedToday`), or else their lateness has been counted (`LateBudget`). The day of the
watermark is read again, so a row committed during an extraction has a day that the next slice
starts from. `RowsAreKept` is about the truncation: a window begins at a midnight, so a
partition is rebuilt whole or not at all. `GapInv` carries what a failed run leaves behind from layer to
layer: what an extraction leaves out arrived on the day of the run or after
(`CopiedUpToRun`), what a build leaves out is behind its window (`BuiltUpToWindow`),
so a row is missing from Silver only if it is newer than the run the last build belonged to, or two
builds were too far apart (`SilverGaps`); `ReportGaps` says the same of the report, whose builds
have a clock of their own.

Log and split. `LogInv` says what three writers leave of the log: ranks in order, one judgement
per row, no event but the first that ends in `clean`, and in the job's locals only
dirty rows. `SplitInv` says which of the `int_` tables agrees with the mirror while they are built:
Silver rests meanwhile, so when the second is built the first still agrees, and by the definition of an
effectively clean row the two are a partition. `ValuesInv` follows a row whose evidence is lost:
its row is dirty, `IsBlocked` keeps the job from planning its promotion, so that neither the log,
nor the mirror, nor what is built of it ever calls it clean. `GoldFollows` joins the mirror and the
log: `SplitInv` says what the marts are built from, the mirror's state of a row whose events
Silver has is the log's (`MirrorSaysState`), and `VerdictInv` that the snapshot and the log
agree on who is clean, as operators and the job move dirty rows only. Windows do not occur in the
argument, since the `int_` tables are built from the whole of Silver; with a window `SplitInv` would fail.

State machine. `JobIsCurrent` says that what the job has read is still so: between read and write
only an operator could move a dirty row, which the hypothesis excludes. From it follow the
refinement of `QualityStates` (`LogRefinesLifecycle`: an append of many events is one step of
many rows along the arrows) and that no rejection is undone. That a row is read twice from a torn
`int_` does not matter to either: the second event repeats the first. It matters to
`LogIsAHistory`, which says of every event that it starts where the row was, and needs
`JobListsOnce`; there each event is compared with the state in the log *before* it.

Only model-checked:

* everything under fairness (`EveryRawIsSettled`, `ClosesAfterOutage`), which is out of the
  prover's reach;
* `InjectionsAreReported`: it is about the payloads that the seeder's injectors make, an enumeration
  that TLC goes through, and not true of other orders.

## 5. Findings

Runs that TLC refutes:

1. **`overlap`** (`process.py:349`). The stale reset does not repeat its condition. When two
   scans overlap, the late UPDATE takes a freshly claimed row back, two workers process it
   and the landed order ends as `duplicate` of itself. `process.py:332` calls this
   unreachable and `tasks.py:57` the lock only an optimisation.
2. **`forced`** (`main.py:380`). Of two concurrent force replays the second UPDATE can follow
   the landing of the first: a processed row is pending again. `api_responses.py:147`: a
   `processed` record is never replayed.
3. **`rejection`** (`reevaluate_quality.py:339`). A rejection between the read of the states and
   the append is overridden by the promotion planned before it.
   `docs/en/runbooks/quarantine-writeoff.md:11`: the automated task never overrides it.
4. **`double`** (`reevaluate_quality.py:123`). While dbt rebuilds the two `int_` tables, or
   until the next run when the second build failed, a row can be in both; the UNION ALL
   lists it twice and one change is recorded as two events.
   `reevaluate_quality.py:32`: no event when the state did not change.

Met while reading and not given a run (the properties that exclude them say so, and hold with
the exclusion only):

* Late commits (`extract_ods_to_bq.py:258`). `received_at` is the start of the transaction. One
  that begins before midnight and commits after an extraction that has seen a row of the new day is
  passed over for good; `extract_ods_to_bq.py:207` promises that nothing is missed. `LandLate` is
  that transaction, and `NothingIsPassedOver` says what holds until one occurs (`NoneLate`). The events
  of a re-evaluation are exposed alike: their `event_at` is taken before the append
  (`reevaluate_quality.py:331`, `CommitsLate`).
* A commit tried again after midnight (`clean.py:217`). The cutoff of the future date is the clock at the build
  (`process.py:114`), and `received_at` at re-evaluation. The retry separates the two, and a
  future-dated order is promoted with no rule changed, which `clean.py:158-161` says `as_of`
  excludes. `VerdictIsReproducible` and `PromotionIsEarned` are stated for `begun = built.on`.
* Colliding keys (`clean.py:339`). `unmapped_fields` is keyed by the path as a string. A root field
  named `customer.loyalty` and an unknown `loyalty` of `customer` share a key, and the first one's
  value is in no column, item, unmapped field or error. `clean.py:334` says that path and value are kept,
  `docs/en/design/data-quality.md:55` that they are preserved rather than silently dropped. The model has
  it (`Kept`), and `NothingIsLost` names it as its only exception (`Overwritten`).
* Injected quantities (`schema.py:44`). `_dirty_non_finite_number` may choose `quantity`, which the
  contract declares an integer: the order is answered 422 and never lands, while the
  injector's docstring (`seed_demo.py:211-212`, with the choice in line 221) says that these values
  get in and `business_clean` catches them. `tests/test_raw_write.py:124` knows it; the docstring has
  not followed. `InjectionsAreReported` has this one field as its exception.
* A half-open circuit is re-opened by the late failure of a call that began before the
  outage, and a second probe starts beside the first (`circuit_breaker.py:120`); line 31
  promises a single one. The model has it: `PromptSingleFlight` and `ProbesAreSpaced` say
  what remains.
* `check_raw_pending.py:94` takes the maximum of two delays that can add up: after a failed
  dispatch and then a dead worker, the row that the stale scan hands back is older than the
  threshold although the recovery path works as designed. `HealedInTime` is stated for one fault.
* Exactly `lookback` failed days already lose the rows received after the last good
  extraction of the day before; `docs/en/runbooks/dag-failure-recovery.md:9` says more than
  `lookback`. `ShortGapLosesNothing` counts days between extractions and holds. The
  reconciliation test does report the loss.
* Exhausted claim retries leave the row `pending`; `design/ingestion.md:97` has `error`.
  Exhausted Raw writes answer 500; line 96 has 503.
* `docs/en/runbooks/quarantine-writeoff.md:77` expects a written-off row to be gone from
  `int_orders_quarantine`; the model keeps it, in state `permanently_rejected`.
* After a lost acknowledgement of the success commit the retry meets its own row, and
  the Raw is marked `duplicate` although it landed (ADR-0003:17).
* A number of an item sent as a string (`"-5"`) is out of reach of the range rules, yet
  `safe_cast` reads it (`int_order_items.sql:84`): it reaches Gold as -5, marked only by
  `TYPE_DRIFT`. `design/data-quality.md:46` says of a clean order with drift that its value
  is clean. `EveryBadNumberIsMarked` says what holds: there is a mark.
* A NaN in a field outside the contract goes into `unmapped_fields` as it is, JSONB refuses it
  and the row ends as `error`, although drift never blocks (`design/data-quality.md:23`).
  `OnlyWallsStopAnOrder` names these walls: that one, a NUL, a text or an integer wider than
  its column. The order id of more than 50 characters or with a NUL is stopped earlier,
  with a 500 from the INSERT into `raw`.
* `detect_schema_drift` sees the items after `business_clean` has normalised them in place, so
  the type of a non-finite number of an item is judged as that of `null`.
* Authentication, then validation of the body, then the limiter: a 422 costs the client no
  quota. `design/ingestion.md:35` lists the limiter before the validation.
* Ages of 125 and texts of 111 to 150
  characters pass the rules of v4, so those injections are no longer found (`seed_demo.py:255`
  expects one error per injection). `InjectionsAreReported` states what is left.
* The five attempts of `post_one` span 30 s (at 0, 2, 6, 14 and 30 s) of a 60-second window: an
  order first refused in the first half of a window is given up, although a 429 must be
  resent (`seed_demo.py:382`). At 48 a minute this takes a second sender or a stall, and the stall
  need not last a window: about 48 s are enough, as the burst that catches up fills the
  next window early. The order given up takes about a minute itself, so the batch then stays
  behind and loses an order in further windows. `OnlyStallsDropOrders` has the exact threshold.
* `--require-landed-pct` is described as a share of the orders sent (`seed_demo.py:639`);
  `enforce_landed` divides by the accepted ones, while rows of lost answers count as landed.
* `raw_pending_watch` calls its verdict binary as a batch takes 6.2 minutes at most; the
  execution timeout allows 20. Of a batch that is held up, rows that land after the
  eleventh minute are below the threshold at the check, outage or not. `WatchIsBinary`.
* `rpt_quality_events_daily.sql:70` asks for a window no shorter than that of
  `stg_quality_events`. Equal windows are not enough when a run crosses midnight between the
  two builds, and a run that a gate stops does not build the report at all: after more than
  `lookback` days of either, the report misses events that Silver has. `ReportMissesOnlyGaps`.

## 6. Not modelled

* **Items, dimensions, the other reports**: aggregations of modelled sets. What the warehouse
  reads out of an item is in `SqlReads` of `Judging`.
* **Targeted backfills and full refresh**: manual repair with explicit dates.
* **Authentication**: decided before any state changes. Of the rate limit, the window is
  modelled as `Seeder` meets it; storage, key function and the fallback to a counter per
  process (`main.py:80`) are a library's.
* **Payload draws**: `make_order` draws from ranges and lists; one clean order stands for all.
* **Configuration, logging, telemetry, migrations, OpenAPI export, load test**: no state the
  modelled decisions depend on. A breaker or task counts metrics, nothing reads them back.
* **Broker connections and Redis internals**: external, reduced to messages.
* **Liveness of a seeding slot**: the script ends by its timeout, by construction.

## 7. Plan

Done: the ingestion path with its abstract specifications, the breaker, the contract and the
rules, extraction, Silver, Gold, the event report and re-evaluation, the seeding slot with its
watch; proofs of all of these. Every safety property that a passing run checks is a theorem, but
`InjectionsAreReported`.

Next, extending the model:

1. The verdicts of `Judging` in place of `Kind` and `Fails` of `QualityLog`.
2. Targeted backfills (`*_backfill_start`) as operator steps, with the downstream order the
   runbook prescribes.
3. The waiting threshold of `assert_int_orders_quality_state_resolved`.

Next, proofs:

1. That the threshold of `OnlyStallsDropOrders` is the least one. In the instance it is: stalls come
   in multiples of 4 ticks, 4 drop nothing and 8 do.
2. `WatchIsBinary` for more than one fault, with the sum of the delays in place of their maximum.
