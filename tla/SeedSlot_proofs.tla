-------------------------- MODULE SeedSlot_proofs --------------------------
(***************************************************************************)
(* What holds of a seeding slot for every pace, limit, budget and period.  *)
(* The verdict of the batch needs that its counters belong together:       *)
(* Counting.  The timing of the recovery path needs what the status of the *)
(* row says about its clocks: Timing.                                      *)
(***************************************************************************)
EXTENDS SeedSlot, TLAPS

\* No row without an order that was sent, no green light without a row in ods.
Counting == raws <= sent /\ OutageIsRed

\* A row that has met no fault is claimed before the clock moves.  One that has
\* waits for a scan: a lost dispatch for the first one after the grace, a dead
\* worker for the first one after the stale threshold.
Timing ==
    ~outage =>
        /\ status = "absent" => faults = Faults /\ age = 0 /\ ~queued
        /\ status \in {"processing", "settled"} => ~queued
        /\ status = "pending" /\ queued => age <= DerivedThreshold - Margin
        /\ status = "pending" /\ ~queued => faults < Faults /\ age + nextScan <= Grace + Interval
        /\ status = "pending" /\ faults = Faults => queued /\ age = 0 /\ nextScan > 0
        /\ status = "processing" /\ dead =>
               faults < Faults /\ age = running /\ running + nextScan <= Stale + Interval
        /\ status = "processing" /\ ~dead => running <= Stale

-----------------------------------------------------------------------------
(* The steps of the slot, by what they do to the row and to the batch.     *)

\* What a step can be for the row.
RowMoves == Land \/ RowStep \/ RowTick \/ UNCHANGED rowVars

\* Every step of the slot is one of these for the row.
LEMMA RowEffect == ASSUME [Next]_vars PROVE RowMoves
<1>1. ASSUME SeederStep \/ RivalPosts PROVE Land \/ UNCHANGED rowVars
  BY <1>1 DEF SeederStep, RivalPosts, Accepted, AnswerLost, Refused, TooMany, GiveUp,
              BatchEnds, Verify, Killed, Lands
<1>2. CASE UNCHANGED vars
  BY <1>2 DEF vars, RowMoves
<1>3. CASE Tick
  BY <1>3 DEF Tick, RowMoves
<1>4. QED
  BY <1>1, <1>2, <1>3 DEF Next, RowMoves

\* A step leaves the outage as it is.
LEMMA OutageStays == ASSUME [Next]_vars PROVE outage' = outage
<1>1. RowMoves
  BY RowEffect
<1>2. QED
  BY <1>1 DEF RowMoves, Land, RowStep, Claim, Settle, Scan, RowTick, rowVars

\* The periods, one by one.
LEMMA Periods ==
    /\ Grace \in Nat /\ Stale \in Nat /\ Margin \in Nat /\ Faults \in Nat
    /\ Interval \in Nat /\ Interval > 0
BY ProbeAssumption DEF ProbeAssumption

\* The sizes of the batch and of the limit, one by one.
LEMMA Sizes ==
    /\ Orders \in Nat /\ Orders > 0 /\ Patience \in Nat /\ VerifyWait \in Nat
    /\ Limit \in Nat /\ Limit > 0 /\ Window \in Nat /\ Window > 0
    /\ RequiredPct \in Nat /\ RequiredPct > 0
BY SeederAssumption DEF SeederAssumption

\* The sleeps of an order, one by one.
LEMMA Retries ==
    /\ MaxRetries \in Nat /\ MaxRetries > 0
    /\ Slept[0] = 0 /\ \A k \in 0..MaxRetries : Slept[k] \in Nat
    /\ \A k \in 0..(MaxRetries - 1) : Slept[k + 1] - Slept[k] \in Nat
<1>1. MaxRetries \in Nat /\ MaxRetries > 0 /\ Slept[0] = 0
  BY SeederAssumption DEF SeederAssumption
<1>2. \A k \in 0..MaxRetries : Slept[k] \in Nat
  BY SeederAssumption DEF SeederAssumption
<1>3. ASSUME NEW k \in 0..(MaxRetries - 1) PROVE Slept[k + 1] - Slept[k] \in Nat
  <2>1. k + 1 \in 1..MaxRetries /\ (k + 1) - 1 = k
    BY <1>1
  <2>2. Slept[k] <= Slept[k + 1]
    BY <2>1, SeederAssumption DEF SeederAssumption
  <2>3. QED
    BY <1>1, <1>2, <2>2
<1>4. QED
  BY <1>1, <1>2, <1>3

\* The flags of the row keep their type.
LEMMA FlagsTyped ==
    ASSUME RowTypeOK, RowMoves
    PROVE  outage' \in BOOLEAN /\ queued' \in BOOLEAN /\ dead' \in BOOLEAN
<1>1. CASE Land
  BY <1>1 DEF Land, MayFail, RowTypeOK
<1>2. CASE Claim
  BY <1>2 DEF Claim, MayFail, RowTypeOK
<1>3. CASE Scan
  BY <1>3 DEF Scan, RowTypeOK
<1>4. CASE Settle \/ RowTick \/ UNCHANGED rowVars
  BY <1>4 DEF Settle, RowTick, rowVars, RowTypeOK
<1>5. QED
  BY <1>1, <1>2, <1>3, <1>4 DEF RowMoves, RowStep

\* The clocks, the faults and the status keep theirs.
LEMMA ClocksTyped ==
    ASSUME RowTypeOK, RowMoves
    PROVE  /\ status' \in {"absent", "pending", "processing", "settled"}
           /\ age' \in Nat /\ running' \in Nat
           /\ nextScan' \in 0..Interval /\ faults' \in 0..Faults
<1> USE Periods
<1>1. CASE Land
  BY <1>1 DEF Land, MayFail, RowTypeOK
<1>2. CASE Claim
  BY <1>2 DEF Claim, MayFail, RowTypeOK
<1>3. CASE Scan
  BY <1>3 DEF Scan, RowTypeOK
<1>4. CASE Settle
  BY <1>4 DEF Settle, RowTypeOK
<1>5. CASE RowTick
  BY <1>5 DEF RowTick, RowRests, RowTypeOK
<1>6. CASE UNCHANGED rowVars
  BY <1>6 DEF rowVars, RowTypeOK
<1>7. QED
  BY <1>1, <1>2, <1>3, <1>4, <1>5, <1>6 DEF RowMoves, RowStep

\* The row keeps its types.
LEMMA RowTyped == ASSUME RowTypeOK, RowMoves PROVE RowTypeOK'
BY FlagsTyped, ClocksTyped DEF RowTypeOK

\* A mishap more is counted.
LEMMA MishapTyped ==
    ASSUME SeederTypeOK, NEW k \in Kinds, NEW n \in Nat, Mishap(k, n)
    PROVE  mishaps' \in [Kinds -> Nat]
BY DEF Mishap, SeederTypeOK

\* A hit that is admitted fits the window.
LEMMA HitTyped ==
    ASSUME SeederTypeOK, Admits, Hit
    PROVE  window' \in [left : 0..Window, hits : 0..Limit]
<1> USE Sizes
<1>1. CASE window.left = 0
  BY <1>1 DEF Hit, SeederTypeOK
<1>2. CASE window.left # 0
  <2>1. window' = [window EXCEPT !.hits = @ + 1] /\ window.hits < Limit
    BY <1>2 DEF Hit, Admits
  <2>2. window \in [left : 0..Window, hits : 0..Limit]
    BY DEF SeederTypeOK
  <2>3. window' = [left |-> window.left, hits |-> window.hits + 1]
    BY <2>1, <2>2
  <2>4. QED
    BY <2>1, <2>2, <2>3
<1>3. QED
  BY <1>1, <1>2

\* An order that is done with moves the counters of the batch by one at most.
LEMMA OrderDone ==
    ASSUME SeederTypeOK,
           sent < Orders, sent' = sent + 1, refusals' = 0, wait' \in Nat,
           phase' = phase, elapsed' = elapsed,
           ok' \in {ok, ok + 1}, dropped' \in {dropped, dropped + 1},
           ok' + dropped' <= ok + dropped + 1, raws' \in {raws, raws + 1},
           window' \in [left : 0..Window, hits : 0..Limit], mishaps' \in [Kinds -> Nat]
    PROVE  SeederTypeOK'
<1>1. {ok, dropped, raws} \subseteq Nat /\ ok + dropped <= sent /\ sent \in 0..Orders
  BY DEF SeederTypeOK
<1>2. {ok', dropped', raws'} \subseteq Nat /\ ok' + dropped' <= sent' /\ sent' \in 0..Orders
  BY <1>1, Sizes
<1>3. MaxRetries \in Nat
  BY Retries
<1>4. phase' \in {"sending", "verifying", "green", "red"} /\ elapsed' \in Nat
  BY DEF SeederTypeOK
<1>5. QED
  BY <1>2, <1>3, <1>4 DEF SeederTypeOK

\* The batch keeps its types.
LEMMA SeederTyped == ASSUME TypeOK, [Next]_vars PROVE SeederTypeOK'
<1> USE Sizes DEF TypeOK
<1>0. /\ "slow" \in Kinds /\ "lost" \in Kinds /\ "refused" \in Kinds
      /\ "missed" \in Kinds /\ "rival" \in Kinds
  BY DEF Kinds
<1>1. CASE Accepted
  <2>1. PICK ticks \in 0..Patience : Mishap("slow", ticks) /\ DoneWith(ticks)
    BY <1>1 DEF Accepted
  <2>2. mishaps' \in [Kinds -> Nat]
    BY <1>0, <2>1, MishapTyped
  <2>3. window' \in [left : 0..Window, hits : 0..Limit]
    BY <1>1, HitTyped DEF Accepted
  <2>4. /\ sent < Orders /\ sent' = sent + 1 /\ refusals' = 0 /\ wait' = ticks
        /\ ok' = ok + 1 /\ raws' = raws + 1 /\ UNCHANGED <<phase, elapsed, dropped>>
    BY <1>1, <2>1 DEF Accepted, Attempt, Due, DoneWith, Lands
  <2>5. ok \in Nat /\ dropped \in Nat /\ ticks \in Nat
    BY DEF SeederTypeOK
  <2>6. ok' + dropped' <= ok + dropped + 1
    BY <2>4, <2>5
  <2>7. QED
    BY <2>2, <2>3, <2>4, <2>5, <2>6, OrderDone
<1>2. CASE AnswerLost
  <2>1. PICK ticks \in {0, Patience} : DoneWith(ticks)
    BY <1>2 DEF AnswerLost
  <2>2. mishaps' \in [Kinds -> Nat]
    BY <1>0, <1>2, MishapTyped DEF AnswerLost
  <2>3. window' \in [left : 0..Window, hits : 0..Limit]
    BY <1>2, HitTyped DEF AnswerLost
  <2>4. /\ sent < Orders /\ sent' = sent + 1 /\ refusals' = 0 /\ wait' = ticks
        /\ raws' \in {raws, raws + 1} /\ UNCHANGED <<phase, elapsed, ok, dropped>>
    BY <1>2, <2>1 DEF AnswerLost, Attempt, Due, DoneWith, Lands
  <2>5. QED
    BY <2>1, <2>2, <2>3, <2>4, OrderDone DEF SeederTypeOK
<1>3. CASE Refused
  <2>1. mishaps' \in [Kinds -> Nat]
    BY <1>0, <1>3, MishapTyped DEF Refused
  <2>2. window' \in [left : 0..Window, hits : 0..Limit]
    BY <1>3, HitTyped DEF Refused, SeederTypeOK
  <2>3. /\ sent < Orders /\ sent' = sent + 1 /\ refusals' = 0 /\ wait' = 0
        /\ UNCHANGED <<phase, elapsed, ok, dropped, raws>>
    BY <1>3 DEF Refused, Attempt, Due, DoneWith
  <2>4. QED
    BY <2>1, <2>2, <2>3, OrderDone DEF SeederTypeOK
<1>4. CASE TooMany
  <2>1. Slept[refusals + 1] - Slept[refusals] \in Nat /\ refusals + 1 \in 0..MaxRetries
    <3>1. refusals \in Nat /\ refusals < MaxRetries
      BY <1>4, Retries DEF TooMany, Attempt, SeederTypeOK
    <3>2. QED
      BY <3>1, Retries
  <2>2. QED
    BY <1>4, <2>1 DEF TooMany, counts, SeederTypeOK
<1>5. CASE GiveUp
  <2>1. /\ sent < Orders /\ sent' = sent + 1 /\ refusals' = 0 /\ wait' = wait
        /\ dropped' = dropped + 1 /\ UNCHANGED <<phase, elapsed, ok, raws, window, mishaps>>
    BY <1>5 DEF GiveUp, Due
  <2>2. QED
    BY <2>1, OrderDone DEF SeederTypeOK
<1>6. CASE BatchEnds
  BY <1>6 DEF BatchEnds, counts, SeederTypeOK
<1>7. CASE Verify
  <2>1. mishaps' \in [Kinds -> Nat]
    <3>1. PICK missed \in 0..raws : IF outage THEN UNCHANGED mishaps ELSE Mishap("missed", missed)
      BY <1>7 DEF Verify
    <3>2. missed \in Nat
      BY <3>1 DEF SeederTypeOK
    <3>3. QED
      BY <1>0, <3>1, <3>2, MishapTyped DEF SeederTypeOK
  <2>2. phase' \in {"green", "red"}
    BY <1>7 DEF Verify
  <2>3. QED
    BY <1>7, <2>1, <2>2 DEF Verify, counts, SeederTypeOK
<1>8. CASE Killed
  BY <1>8 DEF Killed, counts, SeederTypeOK
<1>9. CASE RivalPosts
  <2>1. mishaps' \in [Kinds -> Nat]
    BY <1>0, <1>9, MishapTyped DEF RivalPosts
  <2>2. window' \in [left : 0..Window, hits : 0..Limit]
    BY <1>9, HitTyped DEF RivalPosts
  <2>3. QED
    BY <1>9, <2>1, <2>2 DEF RivalPosts, counts, SeederTypeOK
<1>10. CASE SeederTick
  <2>1. window' \in [left : 0..Window, hits : 0..Limit]
    <3>1. window \in [left : 0..Window, hits : 0..Limit]
      BY DEF SeederTypeOK
    <3>2. CASE window.left > 1
      <4>1. window' = [left |-> window.left - 1, hits |-> window.hits]
        BY <1>10, <3>1, <3>2 DEF SeederTick
      <4>2. QED
        BY <3>1, <3>2, <4>1
    <3>3. CASE ~(window.left > 1)
      BY <1>10, <3>3 DEF SeederTick, Closed
    <3>4. QED
      BY <3>2, <3>3
  <2>2. elapsed' \in Nat /\ wait' \in Nat
    <3>1. elapsed \in Nat /\ wait \in Nat
      BY DEF SeederTypeOK
    <3>2. elapsed' = elapsed + 1 /\ wait' = IF wait > 0 THEN wait - 1 ELSE 0
      BY <1>10 DEF SeederTick
    <3>3. QED
      BY <3>1, <3>2
  <2>3. QED
    BY <1>10, <2>1, <2>2 DEF SeederTick, counts, SeederTypeOK
<1>11. CASE UNCHANGED seederVars
  BY <1>11 DEF seederVars, counts, SeederTypeOK
<1>12. QED
  BY <1>1, <1>2, <1>3, <1>4, <1>5, <1>6, <1>7, <1>8, <1>9, <1>10, <1>11
     DEF Next, SeederStep, Tick, vars

\* Every variable keeps its type.
THEOREM SlotTypeCorrect == Spec => []TypeOK
<1>1. Init => TypeOK
  <2> SUFFICES ASSUME Init PROVE TypeOK
    OBVIOUS
  <2>1. outage \in BOOLEAN /\ queued \in BOOLEAN /\ dead \in BOOLEAN
    BY DEF Init, RowInit
  <2>2. RowTypeOK
    BY <2>1, Periods DEF Init, RowInit, RowTypeOK
  <2>3. MaxRetries \in Nat /\ window \in [left : 0..Window, hits : 0..Limit]
    BY Sizes, Retries DEF Init, SeederInit, Closed
  <2>4. SeederTypeOK
    BY <2>3, Sizes DEF Init, SeederInit, SeederTypeOK
  <2>5. QED
    BY <2>2, <2>4 DEF TypeOK
<1>2. TypeOK /\ [Next]_vars => TypeOK'
  BY RowEffect, RowTyped, SeederTyped DEF TypeOK
<1>3. QED
  BY <1>1, <1>2, PTL DEF Spec

-----------------------------------------------------------------------------
\* With nothing in ods the gate of the script does not pass: it divides by the
\* orders that were accepted, and an unknown number of rows is a failure.
LEMMA NothingLandedIsRed ==
    ASSUME SeederTypeOK, NEW landed \in {0, NoCount}
    PROVE  ~GatePasses(landed)
<1>1. ASSUME ok > 0 PROVE 100 * 0 < RequiredPct * ok
  <2>1. ok \in Nat /\ RequiredPct \in Nat /\ RequiredPct > 0
    BY Sizes DEF SeederTypeOK
  <2>2. QED
    BY <1>1, <2>1
<1>2. CASE landed = NoCount
  BY <1>2 DEF GatePasses
<1>3. CASE landed = 0
  <2>1. ok \in Nat /\ RequiredPct * ok \in Int
    BY Sizes DEF SeederTypeOK
  <2>2. QED
    BY <1>1, <1>3, <2>1 DEF GatePasses
<1>4. QED
  BY <1>2, <1>3

\* Counting is an invariant.
THEOREM CountingTheorem == Spec => []Counting
<1>1. Init => Counting
  BY DEF Init, SeederInit, Counting, OutageIsRed
<1>2. TypeOK /\ Counting /\ [Next]_vars => Counting'
  <2> SUFFICES ASSUME TypeOK, Counting, [Next]_vars PROVE Counting'
    OBVIOUS
  <2> USE DEF Counting, OutageIsRed
  <2>0. outage' = outage
    BY OutageStays
  <2>1. CASE Accepted \/ AnswerLost
    BY <2>0, <2>1 DEF Accepted, AnswerLost, Attempt, Due, DoneWith, Lands, TypeOK, SeederTypeOK
  <2>2. CASE Refused \/ GiveUp
    BY <2>0, <2>2 DEF Refused, GiveUp, Attempt, Due, DoneWith, TypeOK, SeederTypeOK
  <2>3. CASE TooMany \/ BatchEnds \/ Killed \/ RivalPosts \/ SeederTick
    BY <2>0, <2>3 DEF TooMany, BatchEnds, Killed, RivalPosts, SeederTick, counts
  <2>4. CASE Verify
    <3>1. ASSUME outage PROVE phase' # "green"
      <4>1. PICK landed \in {0, NoCount} : phase' = IF GatePasses(landed) THEN "green" ELSE "red"
        BY <2>4, <3>1 DEF Verify, TypeOK, SeederTypeOK
      <4>2. QED
        BY <4>1, NothingLandedIsRed DEF TypeOK
    <3>2. QED
      BY <2>0, <2>4, <3>1 DEF Verify, counts
  <2>5. CASE UNCHANGED seederVars
    BY <2>0, <2>5 DEF seederVars
  <2>6. QED
    BY <2>1, <2>2, <2>3, <2>4, <2>5 DEF Next, SeederStep, Tick, vars
<1>3. QED
  BY <1>1, <1>2, SlotTypeCorrect, PTL DEF Spec

\* However many answers are lost and requests refused, the slot puts no more rows
\* into raw than it has orders: post_one never sends an order again that may have
\* landed.
THEOREM NotDoubledTheorem == Spec => []SlotIsNotDoubled
<1>1. TypeOK /\ Counting => SlotIsNotDoubled
  <2> SUFFICES ASSUME TypeOK, Counting PROVE raws <= Orders
    BY DEF SlotIsNotDoubled
  <2>1. raws \in Nat /\ sent \in 0..Orders /\ raws <= sent
    BY DEF TypeOK, SeederTypeOK, Counting
  <2>2. QED
    BY <2>1, Sizes
<1>2. QED
  BY <1>1, SlotTypeCorrect, CountingTheorem, PTL

\* The gate of verify: a slot that nobody processes is never green.
THEOREM OutageTheorem == Spec => []OutageIsRed
<1>1. Counting => OutageIsRed
  BY DEF Counting
<1>2. QED
  BY <1>1, CountingTheorem, PTL

-----------------------------------------------------------------------------
\* The threshold covers both ways of the recovery.
LEMMA ThresholdCovers ==
    /\ Grace + Interval <= DerivedThreshold - Margin
    /\ Stale + Interval <= DerivedThreshold - Margin
BY Periods DEF DerivedThreshold, Larger

\* The first scan after the commit comes within one interval.
LEMMA FirstScan == ASSUME age = 0, Land PROVE age' + nextScan' <= Grace + Interval
<1>1. \A zero, n : zero = 0 /\ n \in 1..Interval => zero + n <= Grace + Interval
  BY Periods
<1>2. age' = 0 /\ nextScan' \in 1..Interval
  BY DEF Land
<1>3. QED
  BY <1>1, <1>2, Zenon

\* One step of the row keeps its timing, if it meets at most one fault.
LEMMA TimingStep ==
    ASSUME Faults <= 1, RowTypeOK, Timing, RowMoves
    PROVE  Timing'
<1> SUFFICES ASSUME ~outage' PROVE Timing'
  BY DEF Timing
<1>0. ~outage /\ DerivedThreshold' = DerivedThreshold
  BY DEF RowMoves, Land, RowStep, Claim, Settle, Scan, RowTick, rowVars
<1>1. /\ DerivedThreshold - Margin \in Int
      /\ Grace + Interval <= DerivedThreshold - Margin
      /\ Stale + Interval <= DerivedThreshold - Margin
  BY Periods, ThresholdCovers DEF DerivedThreshold, Larger
<1> USE Periods, <1>0, <1>1 DEF Timing, RowTypeOK
<1>2. CASE Land
  <2>1. CASE faults > 0 /\ queued' = FALSE /\ faults' = faults - 1
    <3>1. faults = Faults /\ age = 0 /\ age' = 0 /\ status' = "pending"
      BY <1>2 DEF Land
    <3>2. faults' < Faults
      BY <2>1, <3>1
    <3>3. age' + nextScan' <= Grace + Interval
      BY <1>2, <3>1, FirstScan
    <3>4. QED
      BY <2>1, <3>1, <3>2, <3>3
  <2>2. CASE queued' = TRUE /\ faults' = faults
    BY <1>2, <2>2 DEF Land
  <2>3. QED
    BY <1>2, <2>1, <2>2 DEF Land, MayFail
<1>3. CASE Claim
  <2>1. CASE status = "pending"
    <3>1. CASE faults > 0 /\ dead' = TRUE /\ faults' = faults - 1
      BY <1>3, <2>1, <3>1 DEF Claim
    <3>2. CASE dead' = FALSE
      BY <1>3, <2>1, <3>2 DEF Claim
    <3>3. QED
      BY <1>3, <3>1, <3>2 DEF Claim, MayFail
  <2>2. CASE status # "pending"
    BY <1>3, <2>2 DEF Claim
  <2>3. QED
    BY <2>1, <2>2
<1>4. CASE Settle
  BY <1>4 DEF Settle
<1>5. CASE Scan
  <2>1. CASE status = "pending"
    <3>1. /\ status' = "pending" /\ age' = age /\ faults' = faults
          /\ nextScan = 0 /\ nextScan' = Interval
          /\ queued' = (queued \/ age > Grace)
      BY <1>5, <2>1 DEF Scan
    <3>2. faults < Faults
      BY <2>1, <3>1
    <3>3. CASE queued
      BY <2>1, <3>1, <3>2, <3>3
    <3>4. CASE ~queued /\ age > Grace
      <4>1. queued' = TRUE
        BY <3>1, <3>4
      <4>2. age \in Nat /\ age + nextScan <= Grace + Interval
        BY <2>1, <3>4
      <4>3. age' <= DerivedThreshold - Margin
        BY <3>1, <4>2
      <4>4. QED
        BY <3>1, <3>2, <4>1, <4>3
    <3>5. CASE ~queued /\ ~(age > Grace)
      BY <2>1, <3>1, <3>2, <3>5
    <3>6. QED
      BY <3>3, <3>4, <3>5
  <2>2. CASE status = "processing"
    BY <1>5, <2>2 DEF Scan
  <2>3. CASE status \in {"absent", "settled"}
    BY <1>5, <2>3 DEF Scan
  <2>4. QED
    BY <2>1, <2>2, <2>3
<1>6. CASE RowTick
  <2>1. CASE status = "pending"
    BY <1>6, <2>1 DEF RowTick, RowRests, Followed
  <2>2. CASE status = "processing"
    BY <1>6, <2>2 DEF RowTick, RowRests, Followed
  <2>3. CASE status \in {"absent", "settled"}
    BY <1>6, <2>3 DEF RowTick, RowRests, Followed
  <2>4. QED
    BY <2>1, <2>2, <2>3
<1>7. CASE UNCHANGED rowVars
  BY <1>7 DEF rowVars
<1>8. QED
  BY <1>2, <1>3, <1>4, <1>5, <1>6, <1>7 DEF RowMoves, RowStep

\* The threshold is neither a guess nor too small: for all periods, a row that
\* met one fault on its way, or none, is never pending for longer than the longer
\* of the two ways of the recovery, so that the margin is there to spare.
THEOREM HealedTheorem == ASSUME Faults <= 1 PROVE Spec => []HealedInTime
<1>1. Init => Timing
  BY DEF Init, RowInit, Timing
<1>2. TypeOK /\ Timing /\ [Next]_vars => Timing'
  BY RowEffect, TimingStep DEF TypeOK
<1>3. TypeOK /\ Timing => HealedInTime
  <2> SUFFICES ASSUME TypeOK, Timing, status = "pending", ~outage
               PROVE  age <= DerivedThreshold - Margin
    BY DEF HealedInTime
  <2>1. CASE queued
    BY <2>1 DEF Timing
  <2>2. CASE ~queued
    <3>1. DerivedThreshold - Margin \in Int /\ Grace + Interval <= DerivedThreshold - Margin
      BY Periods, ThresholdCovers DEF DerivedThreshold, Larger
    <3>2. QED
      BY <2>2, <3>1, Periods DEF Timing, TypeOK, RowTypeOK
  <2>3. QED
    BY <2>1, <2>2
<1>4. QED
  BY <1>1, <1>2, <1>3, SlotTypeCorrect, PTL DEF Spec

\* raw_pending_watch never cries wolf: while one fault at most meets a row, its
\* alarm says that the dispatch path is down, at whatever instant it looks.
THEOREM AlarmMeansOutage == ASSUME Faults <= 1 PROVE Spec => [](OverThreshold => outage)
<1>1. TypeOK /\ HealedInTime => (OverThreshold => outage)
  <2> SUFFICES ASSUME TypeOK, HealedInTime, OverThreshold, ~outage
               PROVE  FALSE
    OBVIOUS
  <2>1. age <= DerivedThreshold - Margin /\ age > DerivedThreshold
    BY DEF HealedInTime, OverThreshold
  <2>2. age \in Nat /\ Margin \in Nat /\ DerivedThreshold \in Nat
    BY Periods DEF TypeOK, RowTypeOK, DerivedThreshold, Larger
  <2>3. QED
    BY <2>1, <2>2
<1>2. QED
  BY <1>1, SlotTypeCorrect, HealedTheorem, PTL

-----------------------------------------------------------------------------
(* The pace of the batch under the limit.  The invariant says how far the  *)
(* batch can be behind its pace, and that the window of the limit was      *)
(* opened no later than that allows.                                       *)

\* What a stall leaves behind: the order that it held up is done with.
Late(stall) == Larger(0, stall - Pace)

\* The orders that are given up, the current one included.
Given == dropped + IF refusals = MaxRetries THEN 1 ELSE 0

\* The latest instant at which the next order is due.
NextBy == (sent + mishaps["rival"]) * Pace + Late(Stall) + Given * SetBack

\* The batch is where its pace, its stalls and its rivals allow it to be, and what the
\* window has let through was due when it opened or later.
OnSchedule ==
    phase = "sending" =>
        /\ elapsed + wait <= NextBy
        /\ window.left > 0 => elapsed + window.left - Window <= NextBy - window.hits * Pace

\* An order that was refused has been due for as long as it has slept, and so has
\* every order that was given up.
Sleeps ==
    phase = "sending" =>
        /\ dropped * Slept[MaxRetries] + Slept[refusals] <= elapsed + wait
        /\ refusals > 0 => sent * Pace + Slept[refusals] <= elapsed + wait

\* Multiples of the pace.
LEMMA Multiples ==
    /\ Pace \in Nat /\ Pace > 0
    /\ \A n \in Int : n * Pace \in Int /\ (n + 1) * Pace = n * Pace + Pace
    /\ \A n \in Nat : n * Pace >= 0
    /\ \A n \in Int, k \in Int : n <= k => n * Pace <= k * Pace
<1>1. Pace \in Nat /\ Pace > 0
  BY SeederAssumption DEF SeederAssumption
<1>2. QED
  BY <1>1

\* The stalls that are counted are numbers.
LEMMA StallIsNumber ==
    ASSUME SeederTypeOK
    PROVE  /\ Stall \in Nat /\ mishaps["rival"] \in Nat
           /\ mishaps["slow"] \in Nat /\ mishaps["lost"] \in Nat
<1>1. mishaps["rival"] \in Nat /\ mishaps["slow"] \in Nat /\ mishaps["lost"] \in Nat
  BY DEF SeederTypeOK, Kinds
<1>2. QED
  BY <1>1, Sizes DEF Stall

\* A mishap counts for its own kind.
LEMMA MishapCounts ==
    ASSUME SeederTypeOK, NEW kind \in Kinds, NEW n \in Nat, Mishap(kind, n)
    PROVE  /\ mishaps'[kind] = mishaps[kind] + n
           /\ \A k \in Kinds \ {kind} : mishaps'[k] = mishaps[k]
BY DEF Mishap, SeederTypeOK

\* A longer stall leaves the batch behind by as much more; the order that it holds up
\* is done with meanwhile.
LEMMA LateGrows ==
    ASSUME NEW s \in Nat, NEW t \in Nat, NEW more \in Nat, s + more <= t
    PROVE  /\ Late(s) \in Nat /\ Late(t) \in Nat /\ Late(s) <= Late(t)
           /\ more > 0 => Late(s) + more <= Late(t) + Pace
           /\ Late(s) = 0 \/ Late(s) + Pace = s
BY Multiples DEF Late, Larger

\* The setback of an order that is given up is a number, and its sleep is in it.
LEMMA SetBackCovers ==
    /\ SetBack \in Nat
    /\ Window + Slept[MaxRetries] - Slept[MaxRetries - 1] - 1 - Limit * Pace <= SetBack
<1>1. LastSleep \in Nat /\ LastSleep = Slept[MaxRetries] - Slept[MaxRetries - 1]
  <2>1. MaxRetries - 1 \in 0..(MaxRetries - 1) /\ (MaxRetries - 1) + 1 = MaxRetries
    BY Retries
  <2>2. QED
    BY <2>1, Retries DEF LastSleep
<1>2. Limit * Pace \in Int /\ Slept[MaxRetries] \in Int /\ Slept[MaxRetries - 1] \in Int
  BY Sizes, Multiples, Retries
<1>3. QED
  BY <1>1, <1>2, Sizes DEF SetBack, Larger

\* The parts of that bound are numbers.
LEMMA BoundIsNumber ==
    ASSUME SeederTypeOK
    PROVE  /\ Given \in Nat /\ Given * SetBack \in Nat
           /\ sent + mishaps["rival"] \in Nat
           /\ (sent + mishaps["rival"]) * Pace \in Nat
           /\ Late(Stall) \in Nat
           /\ NextBy \in Nat
<1>1. Given \in Nat
  BY DEF Given, SeederTypeOK
<1>2. Given * SetBack \in Nat
  BY <1>1, SetBackCovers
<1>3. sent + mishaps["rival"] \in Nat
  BY StallIsNumber DEF SeederTypeOK
<1>4. (sent + mishaps["rival"]) * Pace \in Nat
  BY <1>3, Multiples
<1>5. Late(Stall) \in Nat
  <2>1. Stall + 0 <= Stall
    BY StallIsNumber
  <2>2. QED
    BY <2>1, StallIsNumber, LateGrows
<1>6. QED
  BY <1>1, <1>2, <1>3, <1>4, <1>5 DEF NextBy

\* The window after a hit.
LEMMA WindowAfterHit ==
    ASSUME SeederTypeOK, Hit
    PROVE  \/ window.left = 0 /\ window'.left = Window /\ window'.hits = 1
           \/ window.left > 0 /\ window'.left = window.left /\ window'.hits = window.hits + 1
<1>1. window \in [left : 0..Window, hits : 0..Limit]
  BY DEF SeederTypeOK
<1>2. CASE window.left = 0
  BY <1>2 DEF Hit
<1>3. CASE window.left # 0
  <2>1. window' = [window EXCEPT !.hits = @ + 1]
    BY <1>3 DEF Hit
  <2>2. window.left > 0
    BY <1>1, <1>3, Sizes
  <2>3. QED
    BY <1>1, <2>1, <2>2
<1>4. QED
  BY <1>2, <1>3

\* A hit more, of the batch or of a rival, and a bound that is a pace later: the
\* window still was opened no later than the bound allows.
LEMMA HitInTime ==
    ASSUME SeederTypeOK, OnSchedule, phase = "sending", NEW bound \in Int,
           NextBy + Pace <= bound,
           window' = window \/ Hit
    PROVE  window'.left > 0 => elapsed + window'.left - Window <= bound - window'.hits * Pace
<1>1. /\ window.left \in Int /\ window.hits \in Int /\ elapsed \in Int /\ NextBy \in Int
      /\ wait \in Nat
  BY BoundIsNumber, Sizes DEF SeederTypeOK
<1>2. CASE window' = window
  <2>1. window.hits * Pace \in Int
    BY <1>1, Multiples
  <2>2. window.left > 0 => elapsed + window.left - Window <= NextBy - window.hits * Pace
    BY DEF OnSchedule
  <2>3. QED
    BY <1>1, <1>2, <2>1, <2>2, Multiples, Sizes
<1>3. CASE window.left = 0 /\ window'.left = Window /\ window'.hits = 1
  <2>1. elapsed <= NextBy
    BY <1>1 DEF OnSchedule
  <2>2. window'.hits * Pace = Pace
    BY <1>3, Multiples
  <2>3. QED
    BY <1>1, <1>3, <2>1, <2>2, Multiples, Sizes
<1>4. CASE window.left > 0 /\ window'.left = window.left /\ window'.hits = window.hits + 1
  <2>1. elapsed + window.left - Window <= NextBy - window.hits * Pace
    BY <1>4 DEF OnSchedule
  <2>2. window.hits * Pace \in Int /\ window'.hits * Pace = window.hits * Pace + Pace
    BY <1>1, <1>4, Multiples
  <2>3. QED
    BY <1>1, <1>4, <2>1, <2>2, Multiples, Sizes
<1>5. QED
  BY <1>2, <1>3, <1>4, WindowAfterHit

\* An order that is done with, after so many ticks.
LEMMA OrderInTime ==
    ASSUME SeederTypeOK, Stall' \in Nat, OnSchedule, Sleeps, phase = "sending", wait = 0,
           refusals < MaxRetries, sent' = sent + 1, refusals' = 0,
           UNCHANGED <<phase, elapsed, dropped>>,
           NEW ticks \in Nat, wait' = ticks, Stall + ticks <= Stall',
           mishaps'["rival"] = mishaps["rival"],
           window' = window \/ Hit
    PROVE  OnSchedule' /\ Sleeps'
<1>1. /\ Stall \in Nat /\ Stall' \in Nat /\ elapsed \in Nat /\ sent \in Nat
      /\ mishaps["rival"] \in Nat
  BY StallIsNumber DEF SeederTypeOK
<1>2. Given = dropped /\ Given' = dropped
  BY Retries DEF Given, SeederTypeOK
<1>3. (sent' + mishaps'["rival"]) * Pace = (sent + mishaps["rival"]) * Pace + Pace
  <2>1. sent' + mishaps'["rival"] = (sent + mishaps["rival"]) + 1
    BY <1>1
  <2>2. QED
    BY <1>1, <2>1, Multiples
<1>4. /\ Late(Stall) \in Nat /\ Late(Stall') \in Nat /\ Late(Stall) <= Late(Stall')
      /\ ticks > 0 => Late(Stall) + ticks <= Late(Stall') + Pace
  BY <1>1, LateGrows
<1>5. NextBy + Pace <= NextBy' /\ NextBy' \in Int /\ NextBy + ticks <= NextBy'
  <2>1. NextBy = (sent + mishaps["rival"]) * Pace + Late(Stall) + dropped * SetBack
    BY <1>2 DEF NextBy
  <2>2. NextBy' = (sent + mishaps["rival"]) * Pace + Pace + Late(Stall') + dropped * SetBack
    BY <1>2, <1>3 DEF NextBy, Late, SetBack, LastSleep
  <2>3. (sent + mishaps["rival"]) * Pace \in Nat /\ dropped * SetBack \in Nat
    BY <1>2, BoundIsNumber
  <2>4. QED
    BY <1>4, <2>1, <2>2, <2>3, Multiples
<1>6. elapsed' + wait' <= NextBy'
  <2>1. elapsed + 0 <= NextBy
    BY DEF OnSchedule
  <2>2. NextBy \in Int
    BY BoundIsNumber
  <2>3. QED
    BY <1>1, <1>5, <2>1, <2>2
<1>7. OnSchedule'
  BY <1>5, <1>6, HitInTime DEF OnSchedule
<1>8. Sleeps'
  <2>1. dropped * Slept[MaxRetries] + Slept[refusals] <= elapsed + 0
    BY DEF Sleeps
  <2>2. Slept[refusals] \in Nat /\ Slept[0] = 0 /\ dropped * Slept[MaxRetries] \in Int
    BY Retries DEF SeederTypeOK
  <2>3. dropped * Slept[MaxRetries] + 0 <= elapsed + ticks
    BY <1>1, <2>1, <2>2
  <2>4. QED
    BY <2>2, <2>3 DEF Sleeps
<1>9. QED
  BY <1>7, <1>8

\* What mishaps of a kind add to the stalls and to the rivals that are counted.
LEMMA MishapsAdd ==
    ASSUME SeederTypeOK, NEW kind \in Kinds, NEW n \in Nat, Mishap(kind, n)
    PROVE  /\ Stall' \in Nat /\ Stall <= Stall'
           /\ kind = "slow" => Stall' = Stall + n
           /\ kind = "lost" /\ n = 1 => Stall' = Stall + Patience
           /\ kind \notin {"slow", "lost"} => Stall' = Stall
           /\ kind # "rival" => mishaps'["rival"] = mishaps["rival"]
           /\ kind = "rival" => mishaps'["rival"] = mishaps["rival"] + n
<1>1. /\ mishaps["slow"] \in Nat /\ mishaps["lost"] \in Nat /\ mishaps["rival"] \in Nat
      /\ Patience \in Nat
  BY StallIsNumber, Sizes
<1>2. "slow" \in Kinds /\ "lost" \in Kinds /\ "rival" \in Kinds
  BY DEF Kinds
<1>3. /\ mishaps'["slow"] = mishaps["slow"] + (IF kind = "slow" THEN n ELSE 0)
      /\ mishaps'["lost"] = mishaps["lost"] + (IF kind = "lost" THEN n ELSE 0)
      /\ mishaps'["rival"] = mishaps["rival"] + (IF kind = "rival" THEN n ELSE 0)
  BY <1>1, <1>2, MishapCounts
<1>4. Patience * mishaps'["lost"] = Patience * mishaps["lost"] + (IF kind = "lost" THEN Patience * n ELSE 0)
  BY <1>1, <1>3
<1>5. Patience * mishaps["lost"] \in Nat /\ Patience * n \in Nat /\ (n = 1 => Patience * n = Patience)
  BY <1>1
<1>6. CASE kind = "slow"
  <2>1. mishaps'["slow"] = mishaps["slow"] + n /\ mishaps'["lost"] = mishaps["lost"]
    BY <1>1, <1>3, <1>6
  <2>2. Stall' = Stall + n
    BY <1>1, <1>5, <2>1 DEF Stall
  <2>3. QED
    BY <1>1, <1>3, <1>6, <2>2, StallIsNumber
<1>7. CASE kind = "lost"
  <2>1. Stall' = Stall + Patience * n
    BY <1>1, <1>3, <1>4, <1>5, <1>7 DEF Stall
  <2>2. QED
    BY <1>1, <1>3, <1>5, <1>7, <2>1, StallIsNumber
<1>8. CASE kind \notin {"slow", "lost"}
  <2>1. mishaps'["slow"] = mishaps["slow"] /\ mishaps'["lost"] = mishaps["lost"]
    BY <1>1, <1>3, <1>8
  <2>2. Stall' = Stall
    BY <2>1 DEF Stall
  <2>3. QED
    BY <1>1, <1>3, <1>8, <2>2, StallIsNumber
<1>9. QED
  BY <1>6, <1>7, <1>8

\* A refusal: the window that is full was opened in time, and the sleep after the
\* refusal does not outlast what the pace takes for a full window; that of the last
\* refusal may, and sets the batch back.
LEMMA RefusalInTime ==
    ASSUME LimitKeepsPace, SeederTypeOK, OnSchedule, Sleeps, TooMany
    PROVE  OnSchedule' /\ Sleeps'
<1>1. /\ phase = "sending" /\ wait = 0 /\ refusals < MaxRetries /\ elapsed >= sent * Pace
      /\ refusals' = refusals + 1 /\ wait' = Slept[refusals + 1] - Slept[refusals]
      /\ UNCHANGED <<phase, elapsed, sent, dropped, window, mishaps>>
      /\ window.left # 0 /\ ~(window.hits < Limit)
  BY DEF TooMany, Attempt, Due, Admits, counts
<1>2. /\ refusals \in Nat /\ dropped \in Nat /\ elapsed \in Nat /\ sent \in Nat
      /\ window.left \in Nat /\ window.hits \in 0..Limit
      /\ Limit \in Nat /\ Window \in Nat /\ MaxRetries \in Nat
  BY Sizes, Retries DEF SeederTypeOK
<1>3. window.left > 0 /\ window.hits = Limit
  BY <1>1, <1>2
<1>4. elapsed + window.left - Window <= NextBy - Limit * Pace
  BY <1>1, <1>3 DEF OnSchedule
<1>5. /\ Slept[refusals] \in Nat /\ Slept[refusals + 1] \in Nat /\ wait' \in Nat
      /\ Slept[MaxRetries] \in Nat /\ Limit * Pace \in Int /\ NextBy \in Int /\ SetBack \in Nat
  BY <1>1, <1>2, Retries, Multiples, BoundIsNumber, SetBackCovers
<1>6. Sleeps'
  <2>1. dropped * Slept[MaxRetries] \in Int /\ sent * Pace \in Int
    BY <1>2, <1>5, Multiples
  <2>2. dropped * Slept[MaxRetries] + Slept[refusals] <= elapsed + 0
    BY <1>1 DEF Sleeps
  <2>3. sent * Pace + Slept[refusals] <= elapsed
    <3>1. CASE refusals = 0
      BY <1>1, <1>2, <2>1, <3>1, Retries
    <3>2. CASE refusals > 0
      <4>1. sent * Pace + Slept[refusals] <= elapsed + 0
        BY <1>1, <3>2 DEF Sleeps
      <4>2. QED
        BY <1>2, <4>1
    <3>3. QED
      BY <1>2, <3>1, <3>2
  <2>4. /\ dropped * Slept[MaxRetries] + Slept[refusals + 1] <= elapsed + wait'
        /\ sent * Pace + Slept[refusals + 1] <= elapsed + wait'
    BY <1>1, <1>2, <1>5, <2>1, <2>2, <2>3
  <2>5. QED
    BY <1>1, <2>4 DEF Sleeps
<1>7. CASE refusals + 1 < MaxRetries
  <2>1. NextBy' = NextBy
    <3>1. Given' = Given
      BY <1>1, <1>2, <1>7 DEF Given
    <3>2. QED
      BY <1>1, <3>1 DEF NextBy, Late, Stall, SetBack, LastSleep
  <2>2. Window + Slept[refusals + 1] - Slept[refusals] <= Limit * Pace + 1
    <3>1. refusals + 1 \in 1..(MaxRetries - 1) /\ (refusals + 1) - 1 = refusals
      BY <1>2, <1>7
    <3>2. QED
      BY <3>1 DEF LimitKeepsPace
  <2>3. elapsed + wait' <= NextBy
    BY <1>1, <1>2, <1>3, <1>4, <1>5, <2>2
  <2>4. OnSchedule'
    BY <1>1, <2>1, <2>3 DEF OnSchedule
  <2>5. QED
    BY <1>6, <2>4
<1>8. CASE refusals + 1 = MaxRetries
  <2>1. NextBy' = NextBy + SetBack
    <3>1. Given = dropped /\ Given' = dropped + 1
      BY <1>1, <1>2, <1>8 DEF Given
    <3>2. Given' * SetBack = Given * SetBack + SetBack
      BY <1>2, <1>5, <3>1
    <3>3. /\ (sent' + mishaps'["rival"]) * Pace = (sent + mishaps["rival"]) * Pace
          /\ Late(Stall)' = Late(Stall) /\ SetBack' = SetBack
      BY <1>1 DEF Late, Stall, SetBack, LastSleep
    <3>4. /\ (sent + mishaps["rival"]) * Pace \in Int /\ Late(Stall) \in Int
          /\ Given * SetBack \in Int
      BY BoundIsNumber
    <3>5. QED
      BY <1>5, <3>2, <3>3, <3>4 DEF NextBy
  <2>2. Window + Slept[refusals + 1] - Slept[refusals] - 1 - Limit * Pace <= SetBack
    <3>1. refusals = MaxRetries - 1
      BY <1>2, <1>8
    <3>2. QED
      BY <3>1, <1>8, SetBackCovers
  <2>3. elapsed + wait' <= NextBy + SetBack
    BY <1>1, <1>2, <1>3, <1>4, <1>5, <2>2
  <2>4. window'.left > 0 => elapsed' + window'.left - Window <= NextBy' - window'.hits * Pace
    BY <1>1, <1>2, <1>3, <1>4, <1>5, <2>1
  <2>5. OnSchedule'
    BY <1>1, <2>1, <2>3, <2>4 DEF OnSchedule
  <2>6. QED
    BY <1>6, <2>5
<1>9. QED
  BY <1>1, <1>2, <1>7, <1>8

\* An order that is given up: its sleeps are over, its setback has been counted.
LEMMA GiveUpInTime ==
    ASSUME SeederTypeOK, OnSchedule, Sleeps, GiveUp
    PROVE  OnSchedule' /\ Sleeps'
<1>1. /\ phase = "sending" /\ wait = 0 /\ refusals = MaxRetries
      /\ sent' = sent + 1 /\ refusals' = 0 /\ dropped' = dropped + 1
      /\ UNCHANGED <<phase, elapsed, wait, window, mishaps>>
  BY DEF GiveUp, Due
<1>2. /\ dropped \in Nat /\ elapsed \in Nat /\ sent \in Nat /\ wait \in Nat
      /\ window.left \in Nat /\ window.hits \in 0..Limit
  BY Sizes DEF SeederTypeOK
<1>3. NextBy' = NextBy + Pace /\ NextBy \in Int
  <2>1. Given = dropped + 1 /\ Given' = dropped + 1
    BY <1>1, <1>2, Retries DEF Given
  <2>2. sent' + mishaps'["rival"] = (sent + mishaps["rival"]) + 1
    BY <1>1, <1>2, StallIsNumber
  <2>3. (sent' + mishaps'["rival"]) * Pace = (sent + mishaps["rival"]) * Pace + Pace
    BY <2>2, BoundIsNumber, Multiples
  <2>4. Late(Stall)' = Late(Stall) /\ SetBack' = SetBack
    BY <1>1 DEF Late, Stall, SetBack, LastSleep
  <2>5. QED
    BY <2>1, <2>3, <2>4, BoundIsNumber, Multiples DEF NextBy
<1>4. OnSchedule'
  <2>1. elapsed' + wait' <= NextBy'
    BY <1>1, <1>2, <1>3, Multiples DEF OnSchedule
  <2>2. window'.left > 0 => elapsed' + window'.left - Window <= NextBy' - window'.hits * Pace
    BY <1>1, <1>3, Multiples, HitInTime
  <2>3. QED
    BY <2>1, <2>2 DEF OnSchedule
<1>5. Sleeps'
  <2>1. dropped * Slept[MaxRetries] + Slept[MaxRetries] <= elapsed + wait
    BY <1>1 DEF Sleeps
  <2>2. Slept[MaxRetries] \in Nat /\ Slept[0] = 0
    BY Retries
  <2>3. dropped' * Slept[MaxRetries] = dropped * Slept[MaxRetries] + Slept[MaxRetries]
    <3>1. \A n \in Nat, x \in Nat : (n + 1) * x = n * x + x
      OBVIOUS
    <3>2. QED
      BY <1>1, <1>2, <2>2, <3>1
  <2>4. dropped' * Slept[MaxRetries] \in Int
    BY <1>1, <1>2, <2>2
  <2>5. QED
    BY <1>1, <2>1, <2>2, <2>3, <2>4 DEF Sleeps
<1>6. QED
  BY <1>4, <1>5

\* A request of a rival takes the place of an order of the batch.
LEMMA RivalInTime ==
    ASSUME SeederTypeOK, OnSchedule, Sleeps, RivalPosts
    PROVE  OnSchedule' /\ Sleeps'
<1>1. /\ phase = "sending" /\ Hit
      /\ UNCHANGED <<phase, elapsed, sent, dropped, refusals, wait>>
  BY DEF RivalPosts, counts
<1>2. Stall' = Stall /\ mishaps'["rival"] = mishaps["rival"] + 1
  <2>1. Mishap("rival", 1) /\ "rival" \in Kinds
    BY DEF RivalPosts, Kinds
  <2>2. QED
    BY <2>1, MishapsAdd
<1>3. NextBy' = NextBy + Pace /\ NextBy \in Int
  <2>1. Given' = Given
    BY <1>1 DEF Given
  <2>2. sent' + mishaps'["rival"] = (sent + mishaps["rival"]) + 1
    BY <1>1, <1>2, StallIsNumber DEF SeederTypeOK
  <2>3. (sent' + mishaps'["rival"]) * Pace = (sent + mishaps["rival"]) * Pace + Pace
    BY <2>2, BoundIsNumber, Multiples
  <2>4. Late(Stall)' = Late(Stall) /\ SetBack' = SetBack
    BY <1>2 DEF Late, SetBack, LastSleep
  <2>5. QED
    BY <2>1, <2>3, <2>4, BoundIsNumber, Multiples DEF NextBy
<1>4. OnSchedule'
  <2>1. elapsed' + wait' <= NextBy'
    <3>1. elapsed + wait <= NextBy /\ elapsed + wait \in Int
      BY <1>1 DEF OnSchedule, SeederTypeOK
    <3>2. QED
      BY <1>1, <1>3, <3>1, Multiples
  <2>2. window'.left > 0 => elapsed' + window'.left - Window <= NextBy' - window'.hits * Pace
    BY <1>1, <1>3, Multiples, HitInTime
  <2>3. QED
    BY <2>1, <2>2 DEF OnSchedule
<1>5. Sleeps'
  BY <1>1 DEF Sleeps
<1>6. QED
  BY <1>4, <1>5

\* The clock: the script waits for an answer, sleeps, or is ahead of its pace.
LEMMA TickInTime ==
    ASSUME SeederTypeOK, OnSchedule, Sleeps, SeederTick
    PROVE  OnSchedule' /\ Sleeps'
<1> SUFFICES ASSUME phase = "sending" PROVE OnSchedule' /\ Sleeps'
  BY DEF SeederTick, OnSchedule, Sleeps
<1>1. /\ elapsed' = elapsed + 1 /\ wait' = IF wait > 0 THEN wait - 1 ELSE 0
      /\ window' = IF window.left > 1 THEN [window EXCEPT !.left = @ - 1] ELSE Closed
      /\ UNCHANGED <<phase, sent, dropped, refusals, mishaps>>
  BY DEF SeederTick, counts
<1>2. /\ dropped \in Nat /\ elapsed \in Nat /\ sent \in Nat /\ wait \in Nat
      /\ refusals \in 0..MaxRetries
      /\ window \in [left : 0..Window, hits : 0..Limit]
  BY DEF SeederTypeOK
<1>3. NextBy' = NextBy /\ NextBy \in Nat
  BY <1>1, BoundIsNumber DEF NextBy, Given, Late, Stall, SetBack, LastSleep
<1>4. wait = 0 => elapsed + 1 <= sent * Pace
  <2>1. wait = 0 => ~(elapsed >= sent * Pace)
    BY <1>2 DEF SeederTick, SeederRests, Running, Due
  <2>2. sent * Pace \in Int
    BY <1>2, Multiples
  <2>3. QED
    BY <1>2, <2>1, <2>2
<1>5. sent * Pace <= NextBy
  <2>1. sent * Pace <= (sent + mishaps["rival"]) * Pace
    BY <1>2, StallIsNumber, Multiples
  <2>2. QED
    BY <1>2, <2>1, BoundIsNumber, Multiples DEF NextBy
<1>6. elapsed' + wait' <= NextBy' /\ elapsed + wait <= elapsed' + wait'
  <2>1. elapsed + wait <= NextBy
    BY DEF OnSchedule
  <2>2. CASE wait = 0
    BY <1>1, <1>2, <1>3, <1>4, <1>5, <2>2, Multiples
  <2>3. CASE wait > 0
    BY <1>1, <1>2, <1>3, <2>1, <2>3
  <2>4. QED
    BY <1>2, <2>2, <2>3
<1>7. window'.left > 0 => elapsed' + window'.left - Window <= NextBy' - window'.hits * Pace
  <2>1. CASE window.left > 1
    <3>1. window'.left = window.left - 1 /\ window'.hits = window.hits
      BY <1>1, <1>2, <2>1
    <3>2. elapsed + window.left - Window <= NextBy - window.hits * Pace
      BY <1>2, <2>1, Sizes DEF OnSchedule
    <3>3. QED
      BY <1>1, <1>2, <1>3, <3>1, <3>2, Sizes
  <2>2. CASE ~(window.left > 1)
    BY <1>1, <2>2 DEF Closed
  <2>3. QED
    BY <2>1, <2>2
<1>8. OnSchedule'
  BY <1>6, <1>7 DEF OnSchedule
<1>9. Sleeps'
  <2>1. /\ dropped * Slept[MaxRetries] \in Int /\ sent * Pace \in Int /\ Slept[refusals] \in Int
        /\ elapsed' \in Int /\ wait' \in Int
    <3>1. Slept[MaxRetries] \in Nat /\ Slept[refusals] \in Nat
      BY <1>2, Retries
    <3>2. dropped * Slept[MaxRetries] \in Int
      BY <1>2, <3>1
    <3>3. elapsed' \in Int /\ wait' \in Int
      BY <1>1, <1>2
    <3>4. QED
      BY <1>2, <3>1, <3>2, <3>3, Multiples
  <2>2. dropped * Slept[MaxRetries] + Slept[refusals] <= elapsed + wait
    BY DEF Sleeps
  <2>3. refusals > 0 => sent * Pace + Slept[refusals] <= elapsed + wait
    BY DEF Sleeps
  <2>4. elapsed + wait \in Int /\ elapsed' + wait' \in Int
    BY <1>2, <2>1
  <2>5. /\ dropped * Slept[MaxRetries] + Slept[refusals] <= elapsed' + wait'
        /\ refusals > 0 => sent * Pace + Slept[refusals] <= elapsed' + wait'
    BY <1>6, <2>1, <2>2, <2>3, <2>4
  <2>6. QED
    BY <1>1, <2>5 DEF Sleeps
<1>10. QED
  BY <1>8, <1>9

\* Mishaps are never taken back, and some budget has room for the rivals.
RivalsInBudget == \E n \in {0} \cup {b["rival"] : b \in Budgets} : mishaps["rival"] <= n

LEMMA MishapsOnlyGrow ==
    ASSUME TypeOK, RivalsInBudget, [Next]_vars
    PROVE  /\ Stall' \in Nat /\ Stall <= Stall'
           /\ mishaps'["rival"] \in Nat /\ mishaps["rival"] <= mishaps'["rival"]
           /\ RivalsInBudget'
<1>1. SeederTypeOK /\ Stall \in Nat /\ mishaps["rival"] \in Nat
  BY StallIsNumber DEF TypeOK
<1>2. ASSUME NEW kind \in Kinds, NEW n \in Nat, Mishap(kind, n)
      PROVE  /\ Stall' \in Nat /\ Stall <= Stall'
             /\ mishaps'["rival"] \in Nat /\ mishaps["rival"] <= mishaps'["rival"]
             /\ RivalsInBudget'
  <2>1. PICK b \in Budgets : \A k \in Kinds : mishaps'[k] <= b[k]
    BY <1>2 DEF Mishap
  <2>2. mishaps'["rival"] <= b["rival"]
    BY <2>1 DEF Kinds
  <2>3. mishaps'["rival"] \in Nat /\ mishaps["rival"] <= mishaps'["rival"]
    BY <1>1, <1>2, MishapsAdd
  <2>4. QED
    BY <1>1, <1>2, <2>2, <2>3, MishapsAdd DEF RivalsInBudget
<1>3. CASE UNCHANGED mishaps
  <2>1. Stall' = Stall /\ mishaps'["rival"] = mishaps["rival"]
    BY <1>3 DEF Stall
  <2>2. RivalsInBudget'
    BY <2>1 DEF RivalsInBudget
  <2>3. QED
    BY <1>1, <2>1, <2>2
<1>4. \/ UNCHANGED mishaps
      \/ \E kind \in Kinds, n \in Nat : Mishap(kind, n)
  <2>1. "slow" \in Kinds /\ "lost" \in Kinds /\ "refused" \in Kinds /\ "missed" \in Kinds /\ "rival" \in Kinds
    BY DEF Kinds
  <2>2. CASE Accepted
    <3>1. PICK ticks \in {0, Patience} : Mishap("slow", ticks)
      BY <2>2 DEF Accepted
    <3>2. ticks \in Nat
      BY Sizes
    <3>3. QED
      BY <2>1, <3>1, <3>2
  <2>3. CASE AnswerLost
    BY <2>1, <2>3 DEF AnswerLost
  <2>4. CASE Refused
    BY <2>1, <2>4 DEF Refused
  <2>5. CASE Verify
    <3>1. PICK missed \in 0..raws : IF outage THEN UNCHANGED mishaps ELSE Mishap("missed", missed)
      BY <2>5 DEF Verify
    <3>2. missed \in Nat
      BY <1>1 DEF SeederTypeOK
    <3>3. QED
      BY <2>1, <3>1, <3>2
  <2>6. CASE RivalPosts
    BY <2>1, <2>6 DEF RivalPosts
  <2>7. CASE TooMany \/ GiveUp \/ BatchEnds \/ Killed \/ SeederTick \/ UNCHANGED seederVars
    BY <2>7 DEF TooMany, GiveUp, BatchEnds, Killed, SeederTick, seederVars
  <2>8. QED
    BY <2>2, <2>3, <2>4, <2>5, <2>6, <2>7 DEF Next, SeederStep, Tick, vars
<1>5. QED
  BY <1>2, <1>3, <1>4

\* Every step of the slot keeps the batch on its schedule.
LEMMA BatchStep ==
    ASSUME LimitKeepsPace, TypeOK, RivalsInBudget, OnSchedule, Sleeps, [Next]_vars
    PROVE  OnSchedule' /\ Sleeps'
<1>0. SeederTypeOK /\ Stall' \in Nat /\ Stall \in Nat /\ Patience \in Nat
  BY MishapsOnlyGrow, StallIsNumber, Sizes DEF TypeOK
<1>1. CASE Accepted
  <2>1. PICK ticks \in {0, Patience} : Mishap("slow", ticks) /\ DoneWith(ticks)
    BY <1>1 DEF Accepted
  <2>2. ticks \in Nat /\ "slow" \in Kinds
    BY <1>0 DEF Kinds
  <2>3. Stall + ticks <= Stall' /\ mishaps'["rival"] = mishaps["rival"]
    BY <1>0, <2>1, <2>2, MishapsAdd
  <2>4. /\ phase = "sending" /\ wait = 0 /\ refusals < MaxRetries /\ sent' = sent + 1
        /\ refusals' = 0 /\ UNCHANGED <<phase, elapsed, dropped>> /\ wait' = ticks /\ Hit
    BY <1>1, <2>1 DEF Accepted, Attempt, Due, DoneWith
  <2>5. QED
    BY <1>0, <2>2, <2>3, <2>4, OrderInTime
<1>2. CASE AnswerLost
  <2>1. PICK ticks \in {0, Patience} : DoneWith(ticks)
    BY <1>2 DEF AnswerLost
  <2>2. ticks \in Nat /\ "lost" \in Kinds /\ Mishap("lost", 1)
    BY <1>0, <1>2 DEF Kinds, AnswerLost
  <2>3. Stall + ticks <= Stall' /\ mishaps'["rival"] = mishaps["rival"]
    BY <1>0, <2>1, <2>2, MishapsAdd
  <2>4. /\ phase = "sending" /\ wait = 0 /\ refusals < MaxRetries /\ sent' = sent + 1
        /\ refusals' = 0 /\ UNCHANGED <<phase, elapsed, dropped>> /\ wait' = ticks /\ Hit
    BY <1>2, <2>1 DEF AnswerLost, Attempt, Due, DoneWith
  <2>5. QED
    BY <1>0, <2>2, <2>3, <2>4, OrderInTime
<1>3. CASE Refused
  <2>1. "refused" \in Kinds /\ Mishap("refused", 1)
    BY <1>3 DEF Kinds, Refused
  <2>2. Stall + 0 <= Stall' /\ mishaps'["rival"] = mishaps["rival"]
    BY <1>0, <2>1, MishapsAdd
  <2>3. /\ phase = "sending" /\ wait = 0 /\ refusals < MaxRetries /\ sent' = sent + 1
        /\ refusals' = 0 /\ UNCHANGED <<phase, elapsed, dropped>> /\ wait' = 0
        /\ window' = window \/ Hit
    BY <1>3 DEF Refused, Attempt, Due, DoneWith
  <2>4. QED
    BY <1>0, <2>2, <2>3, OrderInTime
<1>4. CASE TooMany \/ GiveUp \/ RivalPosts \/ SeederTick
  BY <1>0, <1>4, RefusalInTime, GiveUpInTime, RivalInTime, TickInTime
<1>5. CASE BatchEnds \/ Verify \/ Killed
  <2>1. phase' # "sending"
    BY <1>5 DEF BatchEnds, Verify, Killed
  <2>2. QED
    BY <2>1 DEF OnSchedule, Sleeps
<1>6. CASE UNCHANGED seederVars
  BY <1>6 DEF seederVars, counts, OnSchedule, Sleeps, NextBy, Given, Late, Stall, SetBack, LastSleep
<1>7. QED
  BY <1>1, <1>2, <1>3, <1>4, <1>5, <1>6 DEF Next, SeederStep, Tick, vars

\* Where the limit keeps pace, the batch is on its schedule at every instant.
LEMMA BatchIsOnSchedule ==
    ASSUME LimitKeepsPace PROVE Spec => [](RivalsInBudget /\ OnSchedule /\ Sleeps)
<1>1. Init /\ TypeOK => RivalsInBudget /\ OnSchedule /\ Sleeps
  <2> SUFFICES ASSUME Init, TypeOK PROVE RivalsInBudget /\ OnSchedule /\ Sleeps
    OBVIOUS
  <2>1. /\ elapsed = 0 /\ wait = 0 /\ refusals = 0 /\ dropped = 0 /\ window.left = 0
        /\ mishaps["rival"] = 0
    BY DEF Init, SeederInit, Closed, Kinds
  <2>2. NextBy \in Nat
    BY BoundIsNumber DEF TypeOK
  <2>3. dropped * Slept[MaxRetries] = 0
    BY <2>1, Retries
  <2>4. QED
    BY <2>1, <2>2, <2>3, Retries DEF RivalsInBudget, OnSchedule, Sleeps
<1>2. TypeOK /\ (RivalsInBudget /\ OnSchedule /\ Sleeps) /\ [Next]_vars
        => (RivalsInBudget /\ OnSchedule /\ Sleeps)'
  BY MishapsOnlyGrow, BatchStep
<1>3. QED
  BY <1>1, <1>2, SlotTypeCorrect, PTL DEF Spec

-----------------------------------------------------------------------------
(* What follows from the schedule.                                         *)

\* Stalls that are too short to fill the limit early in a window, and no rival.
Undelayed ==
    mishaps["rival"] = 0 /\ Stall + Window <= (Limit + 1) * Pace + Slept[MaxRetries - 1]

NoneGivenUp == Undelayed => dropped = 0 /\ refusals < MaxRetries

\* The last attempt of an order that has been refused finds room: otherwise the window
\* that it meets would have been opened before the orders in it were due.
LEMMA LastAttemptIsAdmitted ==
    ASSUME LimitKeepsPace, SeederTypeOK, OnSchedule, Sleeps, Undelayed, dropped = 0, TooMany
    PROVE  refusals + 1 < MaxRetries
<1> SUFFICES ASSUME ~(refusals + 1 < MaxRetries) PROVE FALSE
  OBVIOUS
<1>1. /\ phase = "sending" /\ wait = 0 /\ refusals < MaxRetries /\ elapsed >= sent * Pace
      /\ window.left # 0 /\ ~(window.hits < Limit)
  BY DEF TooMany, Attempt, Due, Admits
<1>2. /\ elapsed \in Nat /\ sent \in Nat /\ refusals \in Nat
      /\ window.left \in Nat /\ window.hits \in 0..Limit
      /\ Limit \in Nat /\ Window \in Nat /\ MaxRetries \in Nat
  BY Sizes, Retries DEF SeederTypeOK
<1>3. refusals = MaxRetries - 1 /\ window.left >= 1 /\ window.hits = Limit
  BY <1>1, <1>2
<1>4. /\ Slept[refusals] \in Nat /\ sent * Pace \in Int /\ Limit * Pace \in Int
      /\ (Limit + 1) * Pace = Limit * Pace + Pace
  BY <1>2, <1>3, Retries, Multiples
<1>5. sent * Pace + Slept[refusals] <= elapsed
  <2>1. CASE refusals = 0
    BY <1>1, <1>2, <1>4, <2>1, Retries
  <2>2. CASE refusals > 0
    <3>1. sent * Pace + Slept[refusals] <= elapsed + 0
      BY <1>1, <2>2 DEF Sleeps
    <3>2. QED
      BY <1>2, <3>1
  <2>3. QED
    BY <1>2, <2>1, <2>2
<1>6. NextBy = sent * Pace + Late(Stall)
  <2>1. Given = 0
    BY <1>1, <1>2 DEF Given
  <2>2. Given * SetBack = 0
    <3>1. \A x \in Nat : 0 * x = 0
      OBVIOUS
    <3>2. QED
      BY <2>1, <3>1, SetBackCovers
  <2>3. (sent + mishaps["rival"]) * Pace = sent * Pace
    BY <1>2 DEF Undelayed
  <2>4. QED
    BY <1>4, <2>2, <2>3, BoundIsNumber DEF NextBy
<1>7. elapsed + window.left - Window <= NextBy - Limit * Pace
  BY <1>1, <1>2, <1>3 DEF OnSchedule
<1>8. Late(Stall) \in Nat /\ Stall \in Nat
  BY BoundIsNumber, StallIsNumber
<1>9. Slept[refusals] + 1 + Limit * Pace <= Window + Late(Stall)
  BY <1>2, <1>3, <1>4, <1>5, <1>6, <1>7, <1>8
<1>10. Late(Stall) = 0 \/ Late(Stall) + Pace = Stall
  BY <1>8, LateGrows
<1>11. Window <= Limit * Pace
  BY DEF LimitKeepsPace
<1>12. Stall + Window <= Limit * Pace + Pace + Slept[refusals]
  BY <1>3, <1>4 DEF Undelayed
<1>13. QED
  BY <1>2, <1>4, <1>8, <1>9, <1>10, <1>11, <1>12, Multiples

\* The limit is met only after a stall or beside a rival: for every pace, limit and
\* backoff with which the limit keeps pace, no order of another batch is given up.
THEOREM DropsNeedStalls == ASSUME LimitKeepsPace PROVE Spec => []OnlyStallsDropOrders
<1>1. Init => NoneGivenUp
  BY Retries DEF Init, SeederInit, NoneGivenUp
<1>2. ASSUME TypeOK, RivalsInBudget, OnSchedule, Sleeps, NoneGivenUp, [Next]_vars
      PROVE  NoneGivenUp'
  <2> SUFFICES ASSUME Undelayed' PROVE dropped' = 0 /\ refusals' < MaxRetries
    BY DEF NoneGivenUp
  <2>1. Undelayed
    <3>1. /\ Stall' \in Nat /\ Stall <= Stall' /\ Stall \in Nat /\ mishaps["rival"] \in Nat
          /\ mishaps["rival"] <= mishaps'["rival"]
      BY <1>2, MishapsOnlyGrow, StallIsNumber DEF TypeOK
    <3>2. /\ (Limit + 1) * Pace \in Int /\ Slept[MaxRetries - 1] \in Int /\ Window \in Int
      BY Sizes, Retries, Multiples
    <3>3. mishaps'["rival"] = 0 /\ Stall' + Window <= (Limit + 1) * Pace + Slept[MaxRetries - 1]
      BY DEF Undelayed
    <3>4. QED
      BY <3>1, <3>2, <3>3 DEF Undelayed
  <2>2. dropped = 0 /\ refusals < MaxRetries
    BY <1>2, <2>1 DEF NoneGivenUp
  <2>3. CASE Accepted \/ AnswerLost \/ Refused
    <3>1. refusals' = 0 /\ dropped' = dropped
      BY <2>3 DEF Accepted, AnswerLost, Refused, DoneWith
    <3>2. QED
      BY <2>2, <3>1, Retries
  <2>4. CASE TooMany
    <3>1. refusals + 1 < MaxRetries
      BY <1>2, <2>1, <2>2, <2>4, LastAttemptIsAdmitted DEF TypeOK
    <3>2. QED
      BY <2>2, <2>4, <3>1 DEF TooMany, counts
  <2>5. CASE GiveUp
    BY <2>2, <2>5, Retries DEF GiveUp
  <2>6. CASE BatchEnds \/ Verify \/ Killed \/ RivalPosts \/ SeederTick \/ UNCHANGED seederVars
    BY <2>2, <2>6 DEF BatchEnds, Verify, Killed, RivalPosts, SeederTick, seederVars, counts
  <2>7. QED
    BY <1>2, <2>3, <2>4, <2>5, <2>6 DEF Next, SeederStep, Tick, vars
<1>3. TypeOK /\ NoneGivenUp => OnlyStallsDropOrders
  <2> SUFFICES ASSUME TypeOK, NoneGivenUp, dropped > 0, mishaps["rival"] <= 0
               PROVE  Stall + Window > (Limit + 1) * Pace + Slept[MaxRetries - 1]
    BY StallIsNumber DEF OnlyStallsDropOrders, TypeOK
  <2>1. mishaps["rival"] = 0 /\ Stall \in Nat
    BY StallIsNumber DEF TypeOK
  <2>2. ~Undelayed
    BY DEF NoneGivenUp
  <2>3. (Limit + 1) * Pace \in Int /\ Slept[MaxRetries - 1] \in Int /\ Window \in Int
    BY Sizes, Retries, Multiples
  <2>4. QED
    BY <2>1, <2>2, <2>3 DEF Undelayed
<1>4. QED
  BY <1>1, <1>2, <1>3, SlotTypeCorrect, BatchIsOnSchedule, PTL DEF Spec

\* The instant at which the followed row landed, once it has.
Landed == elapsed - age

\* In an outage nobody takes the row, so that its age counts from its landing; and the
\* schedule of the batch says how late that was.
RowIsLeft ==
    outage =>
        /\ ~queued
        /\ status = "absent" => age = 0
        /\ status # "absent" =>
              /\ status = "pending"
              /\ \E given \in 0..Orders :
                    /\ given * Slept[MaxRetries] <= Landed
                    /\ Landed <= (FollowedOrder - 1 + mishaps["rival"]) * Pace
                                 + Late(Stall) + given * SetBack

\* A landing is on schedule.
LEMMA LandingInTime ==
    ASSUME TypeOK, RivalsInBudget, OnSchedule, Sleeps, RowIsLeft, outage, [Next]_vars,
           Accepted \/ AnswerLost, Land, sent + 1 = FollowedOrder
    PROVE  RowIsLeft'
<1>1. /\ phase = "sending" /\ wait = 0 /\ refusals < MaxRetries /\ elapsed' = elapsed
  BY DEF Accepted, AnswerLost, Attempt, Due, DoneWith
<1>2. /\ ~queued /\ ~queued' /\ status = "absent" /\ status' = "pending" /\ age = 0 /\ age' = age
  BY DEF RowIsLeft, Land
<1>3. /\ elapsed \in Nat /\ dropped \in 0..Orders /\ refusals \in 0..MaxRetries /\ sent \in Nat
      /\ mishaps["rival"] \in Nat
  <2>1. SeederTypeOK /\ dropped \in Nat /\ ok \in Nat /\ sent \in 0..Orders /\ ok + dropped <= sent
    BY DEF TypeOK, SeederTypeOK
  <2>2. QED
    BY <2>1, Sizes, StallIsNumber DEF SeederTypeOK
<1>4. dropped * Slept[MaxRetries] <= Landed'
  <2>1. dropped * Slept[MaxRetries] + Slept[refusals] <= elapsed + 0
    BY <1>1 DEF Sleeps
  <2>2. Slept[refusals] \in Nat /\ Slept[MaxRetries] \in Nat
    BY <1>3, Retries
  <2>3. dropped * Slept[MaxRetries] \in Int
    BY <1>3, <2>2
  <2>4. QED
    BY <1>1, <1>2, <1>3, <2>1, <2>2, <2>3 DEF Landed
<1>5. Landed' <= (FollowedOrder - 1 + mishaps'["rival"]) * Pace + Late(Stall') + dropped * SetBack
  <2>1. elapsed <= NextBy
    BY <1>1, <1>3 DEF OnSchedule
  <2>2. Given = dropped
    BY <1>1, <1>3 DEF Given
  <2>3. NextBy = (FollowedOrder - 1 + mishaps["rival"]) * Pace + Late(Stall) + dropped * SetBack
    <3>1. sent = FollowedOrder - 1
      BY <1>3, SeederAssumption DEF SeederAssumption
    <3>2. QED
      BY <2>2, <3>1 DEF NextBy
  <2>4. /\ mishaps'["rival"] \in Nat /\ mishaps["rival"] <= mishaps'["rival"]
        /\ Stall \in Nat /\ Stall' \in Nat /\ Stall + 0 <= Stall'
    BY MishapsOnlyGrow, StallIsNumber DEF TypeOK
  <2>5. Late(Stall) \in Nat /\ Late(Stall') \in Nat /\ Late(Stall) <= Late(Stall')
    BY <2>4, LateGrows
  <2>6. /\ (FollowedOrder - 1 + mishaps["rival"]) * Pace \in Int
        /\ (FollowedOrder - 1 + mishaps'["rival"]) * Pace \in Int
        /\ (FollowedOrder - 1 + mishaps["rival"]) * Pace
           <= (FollowedOrder - 1 + mishaps'["rival"]) * Pace
    <3>1. FollowedOrder - 1 \in Int
      BY Sizes, SeederAssumption DEF SeederAssumption
    <3>2. /\ FollowedOrder - 1 + mishaps["rival"] \in Int
          /\ FollowedOrder - 1 + mishaps'["rival"] \in Int
          /\ FollowedOrder - 1 + mishaps["rival"] <= FollowedOrder - 1 + mishaps'["rival"]
      BY <1>3, <2>4, <3>1
    <3>3. QED
      BY <3>2, Multiples
  <2>7. dropped * SetBack \in Int
    BY <1>3, SetBackCovers
  <2>8. Landed' = elapsed
    BY <1>1, <1>2, <1>3 DEF Landed
  <2>9. QED
    BY <1>3, <2>1, <2>3, <2>5, <2>6, <2>7, <2>8
<1>6. outage' /\ SetBack' = SetBack /\ Late(Stall)' = Late(Stall')
  BY OutageStays DEF SetBack, LastSleep, Late
<1>7. QED
  BY <1>2, <1>3, <1>4, <1>5, <1>6 DEF RowIsLeft

\* A step that leaves the row where it is, or lets it grow older with the clock.
LEMMA RowStaysLeft ==
    ASSUME TypeOK, RivalsInBudget, RowIsLeft, outage, [Next]_vars,
           status' = status, ~queued', Landed' = Landed, status = "absent" => age' = age
    PROVE  RowIsLeft'
<1>1. outage' /\ ~queued' /\ (status' = "absent" => age' = 0)
  BY OutageStays DEF RowIsLeft
<1>2. ASSUME status # "absent"
      PROVE  \E given \in 0..Orders :
                /\ given * Slept[MaxRetries] <= Landed
                /\ Landed <= (FollowedOrder - 1 + mishaps'["rival"]) * Pace
                             + Late(Stall') + given * SetBack
  <2>1. PICK given \in 0..Orders :
                /\ given * Slept[MaxRetries] <= Landed
                /\ Landed <= (FollowedOrder - 1 + mishaps["rival"]) * Pace
                             + Late(Stall) + given * SetBack
    BY <1>2 DEF RowIsLeft
  <2>2. /\ mishaps'["rival"] \in Nat /\ mishaps["rival"] <= mishaps'["rival"]
        /\ mishaps["rival"] \in Nat /\ Stall \in Nat /\ Stall' \in Nat /\ Stall + 0 <= Stall'
    BY MishapsOnlyGrow, StallIsNumber DEF TypeOK
  <2>3. Late(Stall) \in Nat /\ Late(Stall') \in Nat /\ Late(Stall) <= Late(Stall')
    BY <2>2, LateGrows
  <2>4. /\ (FollowedOrder - 1 + mishaps["rival"]) * Pace \in Int
        /\ (FollowedOrder - 1 + mishaps'["rival"]) * Pace \in Int
        /\ (FollowedOrder - 1 + mishaps["rival"]) * Pace
           <= (FollowedOrder - 1 + mishaps'["rival"]) * Pace
    <3>1. FollowedOrder - 1 \in Int
      BY Sizes, SeederAssumption DEF SeederAssumption
    <3>2. /\ FollowedOrder - 1 + mishaps["rival"] \in Int
          /\ FollowedOrder - 1 + mishaps'["rival"] \in Int
          /\ FollowedOrder - 1 + mishaps["rival"] <= FollowedOrder - 1 + mishaps'["rival"]
      BY <2>2, <3>1
    <3>3. QED
      BY <3>2, Multiples
  <2>5. given * SetBack \in Int /\ Landed \in Int
    BY Sizes, SetBackCovers DEF Landed, TypeOK, RowTypeOK, SeederTypeOK
  <2>6. QED
    BY <2>1, <2>3, <2>4, <2>5
<1>3. SetBack' = SetBack /\ Late(Stall)' = Late(Stall')
  BY DEF SetBack, LastSleep, Late
<1>4. status' # "absent" => status' = "pending"
  BY DEF RowIsLeft
<1>5. QED
  BY <1>1, <1>2, <1>3, <1>4 DEF RowIsLeft

\* Every step of the slot leaves the row that nobody takes.
LEMMA RowIsLeftStep ==
    ASSUME TypeOK, RivalsInBudget, OnSchedule, Sleeps, RowIsLeft, [Next]_vars
    PROVE  RowIsLeft'
<1> SUFFICES ASSUME outage PROVE RowIsLeft'
  BY OutageStays DEF RowIsLeft
<1>1. ~queued /\ status \in {"absent", "pending"} /\ (status = "absent" => age = 0)
  BY DEF RowIsLeft
<1>2. age \in Nat /\ elapsed \in Nat
  BY DEF TypeOK, RowTypeOK, SeederTypeOK
<1>3. CASE UNCHANGED rowVars /\ elapsed' = elapsed
  BY <1>1, <1>3, RowStaysLeft DEF rowVars, Landed
<1>4. CASE (Accepted \/ AnswerLost) /\ ~UNCHANGED rowVars
  <2>1. Land /\ sent + 1 = FollowedOrder
    BY <1>4 DEF Accepted, AnswerLost, Lands
  <2>2. QED
    BY <1>4, <2>1, LandingInTime
<1>5. CASE Scan /\ UNCHANGED seederVars
  <2>1. status' = status /\ age' = age
    BY <1>1, <1>5 DEF Scan
  <2>2. ~queued'
    BY <1>1, <1>5 DEF Scan
  <2>3. QED
    BY <1>5, <2>1, <2>2, RowStaysLeft DEF Landed, seederVars
<1>6. CASE Claim \/ Settle
  BY <1>1, <1>6 DEF Claim, Settle
<1>7. CASE RowTick /\ SeederTick
  <2>1. /\ status' = status /\ queued' = queued /\ elapsed' = elapsed + 1
        /\ age' = IF Followed THEN age + 1 ELSE age
    BY <1>7 DEF RowTick, SeederTick
  <2>2. CASE status = "pending"
    <3>1. Landed' = Landed
      BY <1>2, <2>1, <2>2 DEF Landed, Followed
    <3>2. QED
      BY <1>1, <2>1, <2>2, <3>1, RowStaysLeft
  <2>3. CASE status = "absent"
    <3>1. outage' = outage /\ status' = "absent" /\ age' = 0 /\ ~queued'
      BY <1>1, <2>1, <2>3, OutageStays DEF Followed
    <3>2. QED
      BY <3>1 DEF RowIsLeft
  <2>4. QED
    BY <1>1, <2>2, <2>3
<1>8. QED
  <2>1. CASE UNCHANGED vars
    BY <1>3, <2>1 DEF vars, seederVars
  <2>2. CASE Tick
    BY <1>7, <2>2 DEF Tick
  <2>3. CASE RowStep /\ UNCHANGED seederVars
    BY <1>5, <1>6, <2>3 DEF RowStep
  <2>4. CASE SeederStep \/ RivalPosts
    <3>1. elapsed' = elapsed
      BY <2>4 DEF SeederStep, RivalPosts, Accepted, AnswerLost, Refused, TooMany, GiveUp,
                  BatchEnds, Verify, Killed, DoneWith
    <3>2. UNCHANGED rowVars \/ Accepted \/ AnswerLost
      BY <2>4 DEF SeederStep, RivalPosts, Refused, TooMany, GiveUp, BatchEnds, Verify, Killed
    <3>3. QED
      BY <1>3, <1>4, <3>1, <3>2
  <2>5. QED
    BY <2>1, <2>2, <2>3, <2>4 DEF Next

\* raw_pending_watch, both ways: for every batch, limit and recovery path with numbers
\* such as the deployed ones, the check is red exactly if the dispatch path is down.
THEOREM WatchTheorem ==
    ASSUME Faults <= 1, LimitKeepsPace, WatchComesLate
    PROVE  Spec => []WatchIsBinary
<1>1. Init /\ TypeOK => RowIsLeft
  BY DEF Init, RowInit, RowIsLeft
<1>2. TypeOK /\ (RivalsInBudget /\ OnSchedule /\ Sleeps) /\ RowIsLeft /\ [Next]_vars => RowIsLeft'
  BY RowIsLeftStep
<1>3. ASSUME TypeOK, RivalsInBudget, RowIsLeft, outage, status # "absent",
             elapsed = CheckOffset, Stall <= Window
      PROVE  OverThreshold
  <2>1. status = "pending"
    BY <1>3 DEF RowIsLeft
  <2>2. PICK given \in 0..Orders :
                /\ given * Slept[MaxRetries] <= Landed
                /\ Landed <= (FollowedOrder - 1 + mishaps["rival"]) * Pace
                             + Late(Stall) + given * SetBack
    BY <1>3 DEF RowIsLeft
  <2>3. PICK n \in {0} \cup {b["rival"] : b \in Budgets} : mishaps["rival"] <= n
    BY <1>3 DEF RivalsInBudget
  <2>4. n \in Nat /\ mishaps["rival"] \in Nat /\ Stall \in Nat /\ Window \in Nat
    BY <1>3, Sizes, StallIsNumber, SeederAssumption DEF SeederAssumption, TypeOK, Kinds
  <2>5. Late(Stall) \in Nat /\ Late(Window) \in Nat /\ Late(Stall) <= Late(Window)
    <3>1. Stall + 0 <= Window
      BY <1>3, <2>4
    <3>2. QED
      BY <2>4, <3>1, LateGrows
  <2>6. /\ (FollowedOrder - 1 + mishaps["rival"]) * Pace \in Int
        /\ (FollowedOrder - 1 + n) * Pace \in Int
        /\ (FollowedOrder - 1 + mishaps["rival"]) * Pace <= (FollowedOrder - 1 + n) * Pace
    <3>1. FollowedOrder - 1 \in Int
      BY Sizes, SeederAssumption DEF SeederAssumption
    <3>2. /\ FollowedOrder - 1 + mishaps["rival"] \in Int /\ FollowedOrder - 1 + n \in Int
          /\ FollowedOrder - 1 + mishaps["rival"] <= FollowedOrder - 1 + n
      BY <2>3, <2>4, <3>1
    <3>3. QED
      BY <3>2, Multiples
  <2>7. /\ given * SetBack \in Int /\ given * Slept[MaxRetries] \in Nat
        /\ age \in Nat /\ CheckOffset \in Nat /\ DerivedThreshold \in Int
    <3>1. given \in Nat /\ Slept[MaxRetries] \in Nat /\ SetBack \in Nat
      BY Sizes, Retries, SetBackCovers
    <3>2. given * SetBack \in Int /\ given * Slept[MaxRetries] \in Nat
      BY <3>1
    <3>3. QED
      BY <1>3, <3>2, SlotAssumption, Periods
         DEF SlotAssumption, TypeOK, RowTypeOK, DerivedThreshold, Larger
  <2>8. Landed \in 0..CheckOffset
    BY <1>3, <2>2, <2>7 DEF Landed
  <2>9. Landed <= (FollowedOrder - 1 + n) * Pace + Larger(0, Window - Pace) + given * SetBack
    BY <2>2, <2>5, <2>6, <2>7, <2>8 DEF Late
  <2>10. Landed + DerivedThreshold < CheckOffset
    BY <2>2, <2>3, <2>8, <2>9 DEF WatchComesLate
  <2>11. age > DerivedThreshold
    BY <1>3, <2>7, <2>10 DEF Landed
  <2>12. QED
    BY <2>1, <2>11 DEF OverThreshold
<1>4. TypeOK /\ (RivalsInBudget /\ OnSchedule /\ Sleeps) /\ RowIsLeft /\ (OverThreshold => outage)
        => WatchIsBinary
  BY <1>3 DEF WatchIsBinary
<1>5. QED
  BY <1>1, <1>2, <1>4, SlotTypeCorrect, BatchIsOnSchedule, AlarmMeansOutage, PTL DEF Spec
=============================================================================
