----------------------------- MODULE OrderRules -----------------------------
(***************************************************************************)
(* The business rules of clean.py and the width of the ods columns.        *)
(* Days are numbered; a rule set is that of one DQ_RULE_VERSION.           *)
(***************************************************************************)
EXTENDS OrderContract

\* The two thresholds that versions changed, v2 -> v3 -> v4.
AgeMax == [v2 |-> 120, v3 |-> 130, v4 |-> 130]
NameMax == [v2 |-> 100, v3 |-> 100, v4 |-> 150]
SoftMaxLengths(version) == [customer_name |-> NameMax[version], city |-> 80]

FutureDateToleranceDays == 1

NonReproducibleCodes == {"non_finite_number"}

Error(code, field) == [code |-> code, field |-> field]
Codes(errors) == {e.code : e \in errors}

\* isinstance(v, (int, float)) and not a bool: a string never is.
IsNumber(v) == v.kind \in {"integer", "number"}

-----------------------------------------------------------------------------
NormalizedStrFields ==
    {"gender", "ship_mode", "membership_tier", "payment_method", "preferred_payment_method",
     "preferred_device", "order_status", "country", "region", "state", "city",
     "postal_code", "customer_name"}

\* format_clean: sentinels become NULL; delivery_days is computed again.
FormatClean(row) ==
    LET c == row.columns
        dated == c["order_date"] # None /\ c["delivery_date"] # None
    IN [row EXCEPT !.columns = [f \in Columns |->
          CASE f \in NormalizedStrFields /\ c[f].form = "blank" -> None
            [] f = "delivery_days" /\ dated ->
                  Column("whole", c["delivery_date"].n - c["order_date"].n)
            [] OTHER -> c[f]]]

-----------------------------------------------------------------------------
\* Mutant of NotFinite: a cost that is not finite is not looked for.
NotFiniteInSales(item) ==
    {f \in ItemNumbers \ {"cost_price"} : IsNumber(Get(item, f)) /\ Get(item, f).form = "nonfinite"}

\* The numbers of an item that PostgreSQL cannot store.
NotFinite(item) == {f \in ItemNumbers : IsNumber(Get(item, f)) /\ Get(item, f).form = "nonfinite"}

Sanitized(item) ==
    Obj([f \in DOMAIN item.fields |-> IF f \in NotFinite(item) THEN Null ELSE item.fields[f]])

\* The range rules of an item: only numbers are compared, a string is skipped.
ItemRanges(item) ==
    LET Breaks(f, Bad(_)) == IsNumber(Get(item, f)) /\ Get(item, f).form # "nonfinite"
                             /\ Bad(Get(item, f).n)
    IN {e \in {Error("quantity_non_positive", "quantity"),
               Error("unit_price_negative", "unit_price"),
               Error("discount_pct_out_of_range", "discount_pct")} :
          \/ e.field = "quantity" /\ Breaks("quantity", LAMBDA n : n <= 0)
          \/ e.field = "unit_price" /\ Breaks("unit_price", LAMBDA n : n < 0)
          \/ e.field = "discount_pct" /\ Breaks("discount_pct", LAMBDA n : n \notin 0..100)}

ItemErrors(item) ==
    {Error("non_finite_number", f) : f \in NotFinite(item)} \cup ItemRanges(item)

\* A float column that is not finite, or out of its range.
FloatErrors(row, f, code, range) ==
    LET v == row.columns[f]
    IN CASE v = None -> {}
         [] v.form = "nonfinite" -> {Error("non_finite_number", f)}
         [] OTHER -> IF v.n \in range THEN {} ELSE {Error(code, f)}

\* The one rule that depends on the time: asOf is the clock or received_at.
FutureErrors(row, asOf) ==
    IF row.columns["order_date"] # None
       /\ row.columns["order_date"].n > asOf + FutureDateToleranceDays
    THEN {Error("order_date_in_future", "order_date")} ELSE {}

ColumnErrors(row, asOf, version) ==
    LET c == row.columns
        soft == SoftMaxLengths(version)
    IN FloatErrors(row, "tax_pct", "tax_pct_out_of_range", 0..100)
       \cup (IF c["delivery_date"] # None /\ c["order_date"] # None
                /\ c["delivery_date"].n < c["order_date"].n
             THEN {Error("delivery_before_order", "delivery_date")} ELSE {})
       \cup FutureErrors(row, asOf)
       \cup FloatErrors(row, "customer_rating", "customer_rating_out_of_range", 1..5)
       \cup (IF c["age"] # None /\ c["age"].n \notin 0..AgeMax[version]
             THEN {Error("age_out_of_range", "age")} ELSE {})
       \cup {Error("field_too_long", f) : f \in {f \in DOMAIN soft :
                                                   c[f].form = "text" /\ c[f].n > soft[f]}}

\* Python's `not v`.
Falsy(v) ==
    CASE v.kind = "object" -> DOMAIN v.fields = {}
      [] v.kind = "array" -> DOMAIN v.elems = {}
      [] v.kind = "string" -> v.form \in {"text", "blank"} /\ v.n = 0
      [] OTHER -> v.form # "nonfinite" /\ v.n = 0

\* What the loop over items can go through: nothing at all, or objects.
Iterable(items) ==
    \/ Falsy(items)
    \/ items.kind = "array" /\ \A i \in DOMAIN items.elems : items.elems[i].kind = "object"

\* The errors that business_clean reports, and the row it leaves behind: numbers
\* that are not finite have become NULL.
BusinessErrors(row, asOf, version) ==
    ColumnErrors(row, asOf, version)
    \cup (IF Falsy(row.items) THEN {}
          ELSE UNION {ItemErrors(row.items.elems[i]) : i \in DOMAIN row.items.elems})

SanitizedItems(items) ==
    IF Falsy(items) THEN items
    ELSE Arr([i \in DOMAIN items.elems |-> Sanitized(items.elems[i])])

BusinessClean(row) ==
    [columns |-> [f \in Columns |->
        IF f \in {"tax_pct", "customer_rating"} /\ row.columns[f].form = "nonfinite"
        THEN None ELSE row.columns[f]],
     items |-> SanitizedItems(row.items)]

-----------------------------------------------------------------------------
(* The ods table: what a column of its type can hold.                      *)

\* Mutant of Walls: one width for every text.
WallsOf64 == [f \in {f \in Columns : ODSOrder[f] = "str"} |-> 64]

\* VARCHAR(n).
Walls ==
    [order_id |-> 50, customer_id |-> 50, gender |-> 32, postal_code |-> 32, city |-> 128,
     customer_name |-> 255, ship_mode |-> 64, order_status |-> 64, membership_tier |-> 64,
     acquisition_channel |-> 64, preferred_payment_method |-> 64, preferred_device |-> 64,
     country |-> 64, region |-> 64, state |-> 64, payment_method |-> 64, device_used |-> 64]

\* INTEGER is 32 bits wide; no text holds a NUL.
ColumnHolds(f, v) ==
    /\ v.form # "nul"
    /\ f \in DOMAIN Walls => ~(v.form = "text" /\ v.n > Walls[f])
    /\ f \in {"delivery_days", "age"} => v.form # "huge"

\* JSONB: RFC 8259 knows no NaN, and no text holds a NUL.
JsonHolds(v) ==
    \A x \in Places(v) : IsScalar(x.v) =>
        x.v.form # "nul" /\ ~(x.v.form = "nonfinite" /\ IsNumber(x.v))

\* The INSERT raises neither DataError nor ValueError.
Storable(row, unmapped) ==
    /\ \A f \in Columns : ColumnHolds(f, row.columns[f])
    /\ JsonHolds(row.items)
    /\ \A u \in unmapped : JsonHolds(u[2])

\* The INSERT INTO raw takes the order_id out of the payload, and the payload as text.
RawHolds(p) == ColumnHolds("order_id", Coerced("str", Get(p, "order_id")))
=============================================================================
