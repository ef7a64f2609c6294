------------------------------- MODULE Judging -------------------------------
(***************************************************************************)
(* One order from its payload to its verdicts: POST /orders, or a row put  *)
(* into raw by hand; the build and the commit of process_raw_event, with   *)
(* midnights between them; and the re-evaluations that follow, by rules    *)
(* that have changed meanwhile.  Concurrency and faults are the subject of *)
(* Ingestion, which abstracts a payload to what this module computes.      *)
(***************************************************************************)
EXTENDS SeedPayloads

CONSTANTS
    Orders,   \* BOUND: [door, changes]: where the payload enters, and what sets it
              \* apart from the order that make_order generates
    Versions, \* rule sets that can be deployed
    LastDay   \* BOUND: the last day that is looked at

Sent(o) == Changed(MakeOrder, o.changes)

ASSUME JudgingAssumption ==
    /\ \A o \in Orders : o.door \in {"api", "db"} /\ IsJson(Sent(o))
    /\ Versions \subseteq DOMAIN AgeMax
    /\ LastDay \in Nat

VARIABLES
    order,  \* the order that is followed
    phase,  \* "sent"; "rejected" with a 422, "err500"; "raw", "read", "built" and
            \* "stored"; "malformed" and "unstorable" are the two ways to status error
    day,    \* the date
    rules,  \* DQ_RULE_VERSION in use
    built,  \* the ods object: its row, its errors, its drift; when and by which
            \* rules it was judged
    begun,  \* the day the worker's transaction began: now() of its INSERT, and so
            \* ods.received_at once it has committed
    state   \* to_state of its last quality event, or none

vars == <<order, phase, day, rules, built, begun, state>>

Unbuilt == [on |-> 0, by |-> "none"]
Payload == Sent(order)

Init ==
    /\ order \in Orders
    /\ phase = IF order.door = "api" THEN "sent" ELSE "raw"
    /\ day = GeneratedOn
    /\ rules \in Versions
    /\ built = Unbuilt
    /\ begun = 0
    /\ state = "none"

GoTo(next) == phase' = next /\ UNCHANGED <<order, day, rules>>

-----------------------------------------------------------------------------
\* Validation, then the INSERT INTO raw.
Post ==
    /\ phase = "sent"
    /\ GoTo(CASE ~Accepted(Payload) -> "rejected"
              [] Accepted(Payload) /\ ~RawHolds(Payload) -> "err500"
              [] OTHER -> "raw")
    /\ UNCHANGED <<built, begun, state>>

\* The worker has claimed the row and reads it.
ReadRaw ==
    /\ phase = "raw"
    /\ GoTo("read") /\ begun' = day
    /\ UNCHANGED <<built, state>>

\* from_nested gets through, and so does the loop over the items.
Buildable(p) == p.kind = "object" /\ Flattens(p) /\ Iterable(Get(p, "items"))

\* business_clean works on the items of the payload itself, which the drift
\* detection looks at after it.
Cleaned(p) ==
    IF Falsy(Get(p, "items")) THEN p
    ELSE Obj([p.fields EXCEPT !["items"] = SanitizedItems(p.fields["items"])])

\* Mutant of Judged: the drift of the items is not looked at.
JudgedWithoutItems(p) ==
    LET row == FormatClean(FromNested(p))
    IN [on |-> day, by |-> rules, row |-> BusinessClean(row),
        errors |-> BusinessErrors(row, day, rules),
        drift |-> DetectSchemaDrift(Obj([f \in DOMAIN p.fields \ {"items"} |-> p.fields[f]]))]

Judged(p) ==
    LET row == FormatClean(FromNested(p))
    IN [on |-> day, by |-> rules, row |-> BusinessClean(row),
        errors |-> BusinessErrors(row, day, rules),
        drift |-> DetectSchemaDrift(Cleaned(p))]

Build ==
    /\ phase = "read"
    /\ IF Buildable(Payload)
       THEN GoTo("built") /\ built' = Judged(Payload)
       ELSE GoTo("malformed") /\ UNCHANGED built
    /\ UNCHANGED <<begun, state>>

\* A commit that had to be tried again has its own transaction, begun later.
Commit ==
    /\ phase = "built"
    /\ begun' \in {begun, day}
    /\ IF Storable(built.row, built.drift.unmapped)
       THEN /\ GoTo("stored")
            /\ state' = IF built.errors = {} THEN "clean" ELSE "quarantined"
       ELSE GoTo("unstorable") /\ UNCHANGED state
    /\ UNCHANGED built

\* Mutant of Rejudged: the clock instead of received_at.
RejudgedNow(row, receivedAt) == BusinessErrors(row, day, rules)

\* business_clean again, on the row as it is stored.
Rejudged(row, receivedAt) == BusinessErrors(row, receivedAt, rules)

\* Mutant of Passes: an error that cannot be found again counts as resolved.
PassesOnWhatIsLeft == Rejudged(built.row, begun) = {}

Passes ==
    /\ Rejudged(built.row, begun) = {}
    /\ Codes(built.errors) \cap NonReproducibleCodes = {}

Reevaluate ==
    /\ phase = "stored" /\ state # "clean"
    /\ \/ Passes /\ state # "promoted" /\ state' = "promoted"
       \/ ~Passes /\ state = "promoted" /\ state' = "re_quarantined"
    /\ UNCHANGED <<order, phase, day, rules, built, begun>>

Midnight ==
    /\ phase \in {"raw", "read", "built", "stored"} /\ day < LastDay
    /\ day' = day + 1
    /\ UNCHANGED <<order, phase, rules, built, begun, state>>

\* New rules, looser or stricter.
Deploy ==
    /\ phase = "stored"
    /\ rules' \in Versions \ {rules}
    /\ UNCHANGED <<order, phase, day, built, begun, state>>

Next == Post \/ ReadRaw \/ Build \/ Commit \/ Reevaluate \/ Midnight \/ Deploy

Spec == Init /\ [][Next]_vars
-----------------------------------------------------------------------------
(* What the properties ask of a payload.                                   *)

\* The scalars of a value with their paths.
Leaves(v) == {x \in Places(v) : IsScalar(x.v) /\ x.v # Null}

Under(path, prefix) ==
    Len(prefix) <= Len(path) /\ SubSeq(path, 1, Len(prefix)) = prefix

InUnmapped(path) == \E u \in built.drift.unmapped : Under(path, u[1])
Drifted(code, path) == \E m \in built.drift.messages : m.code = code /\ Under(path, m.path)

\* An unexpected field whose place in unmapped_fields another one has taken, deeper
\* in the payload and spelled alike.
Overwritten(path) ==
    \E m, n \in built.drift.messages :
        /\ m.code = "unexpected_field" /\ n.code = "unexpected_field" /\ Under(path, m.path)
        /\ Spelled(n.path) = Spelled(m.path) /\ Len(n.path) > Len(m.path)

Reported(field) == \E e \in built.errors : e.field = field

\* The codes that the seeder expects of the order.
Expected == {order.changes[i].code : i \in DOMAIN order.changes} \ {"none"}

\* The column that a path is for.
IsColumn(path) ==
    \/ Len(path) = 1 /\ path[1] \in OrderColumns
    \/ Len(path) = 2 /\ path[1] \in DOMAIN Groups /\ path[2] \in Groups[path[1]]

\* delivery_days is computed from the dates, whatever was sent.
InColumn(leaf) ==
    LET f == Last(leaf.path)
    IN /\ IsColumn(leaf.path)
       /\ \/ built.row.columns[f] = Coerced(ODSOrder[f], leaf.v)
          \/ f = "delivery_days" /\ built.row.columns[f] # None

LandedItems == Obj([items |-> built.row.items])
InItemsOfRow(leaf) == leaf \in Leaves(LandedItems)

\* What int_order_items.sql makes of a number of an item: safe_cast reads strings.
SqlReads(v) == v.form \in {"whole", "fraction", "huge"}

OutOfRange(field, n) ==
    CASE field = "quantity" -> n <= 0
      [] field = "unit_price" -> n < 0
      [] field = "discount_pct" -> n \notin 0..100
      [] OTHER -> FALSE

\* What any two rule sets differ in.
RelaxedCodes == {"age_out_of_range", "field_too_long"}

-----------------------------------------------------------------------------
(* Properties.                                                             *)

\* What POST /orders has accepted can be built: the two declarations of
\* schema.py, OrderIN and ODSOrder, and from_nested between them agree, so
\* that no accepted order ends in an error before it is judged.
AcceptedIsBuilt == phase = "malformed" => order.door = "db"

\* The only accepted orders that ods cannot hold carry what no rule promises to
\* normalise: a NUL, a text or an integer wider than its column, or a number that
\* is not finite outside the contract.
Beyond(leaf) ==
    \/ leaf.v.form = "nul"
    \/ IsColumn(leaf.path) /\ ~ColumnHolds(Last(leaf.path), Coerced(ODSOrder[Last(leaf.path)], leaf.v))
    \/ leaf.v.form = "nonfinite" /\ Drifted("unexpected_field", leaf.path)

OnlyWallsStopAnOrder ==
    phase = "unstorable" /\ order.door = "api" => \E leaf \in Leaves(Payload) : Beyond(leaf)

\* No value of a landed order disappears silently: it is in its column, in items
\* or in unmapped_fields, or something says that it is not: an error, a drift
\* message, or that it was a sentinel.  The exception: two unexpected fields of one
\* payload whose paths are spelled alike share one place in unmapped_fields.
NothingIsLost ==
    phase = "stored" => \A leaf \in Leaves(Payload) :
        \/ InColumn(leaf) \/ InItemsOfRow(leaf)
        \/ InUnmapped(leaf.path) \/ Overwritten(leaf.path)
        \/ Drifted("non_object_group", leaf.path)
        \/ Reported(Last(leaf.path))
        \/ leaf.v.form = "blank" /\ Last(leaf.path) \in NormalizedStrFields

\* No number out of its range is read by the warehouse without a mark on its row:
\* a number is an error, and a string that reads as one is a drift.
EveryBadNumberIsMarked ==
    phase = "stored" => \A leaf \in Leaves(LandedItems) :
        Len(leaf.path) = 3 /\ SqlReads(leaf.v) /\ OutOfRange(Last(leaf.path), leaf.v.n)
        => \/ Reported(Last(leaf.path))
           \/ leaf.v.kind = "string" /\ Drifted("type_drift", leaf.path)

\* The verdict can be reproduced from the row: the rules that judged the order
\* find the same errors in what is stored, as of received_at, but for the numbers
\* that were normalised.  When the transaction committed on a later day than the
\* clock that judged, received_at is no longer that clock.
VerdictIsReproducible ==
    phase = "stored" /\ rules = built.by /\ begun = built.on
    => Rejudged(built.row, begun)
       = {e \in built.errors : e.code \notin NonReproducibleCodes}

\* A promotion comes from looser rules and from nothing else: not from a clock
\* that has moved on, nor from a value that is gone.
PromotionIsEarned ==
    state = "promoted" /\ begun = built.on
    => Codes(built.errors) \subseteq RelaxedCodes

\* An integer field is given a number that is not one.
NonFiniteQuantity(x) == Last(x.path) = "quantity" /\ x.value = NaN

\* The seeder's dirty orders land with the violation that was injected last, found
\* by the rules the injectors were written for if the order is judged on the day
\* it was made, and so reach the quality reports.  The exception is a quantity that
\* is not finite, the one item number that schema.py declares an int: the API
\* answers 422 to it, although the docstring of the injector has it get in, and to
\* no other injection.
InjectionsAreReported ==
    Expected # {} =>
        /\ phase \notin {"err500", "malformed", "unstorable"}
        /\ phase = "rejected" => \E i \in DOMAIN order.changes : NonFiniteQuantity(order.changes[i])
        /\ phase = "stored" /\ built.by = "v2" /\ built.on = GeneratedOn
           => Last(order.changes).code \in Codes(built.errors)
=============================================================================
