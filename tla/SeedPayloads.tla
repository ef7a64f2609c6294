---------------------------- MODULE SeedPayloads ----------------------------
(***************************************************************************)
(* The orders that scripts/seed_demo.py generates: a clean one, the ten    *)
(* injectors of inject_dirty, each with the code it expects, and the       *)
(* costs that strip_optional_costs leaves out.  What the generator draws   *)
(* at random is a set; a change to a payload is a path and a value.        *)
(* BOUND: one clean order of two items stands for all of them, one draw of *)
(* each kind for a range, and at most one cost is left out.                *)
(***************************************************************************)
EXTENDS OrderRules

\* The day of the generator's clock, numbered from the epoch.
GeneratedOn == 100

Texts(names) == [f \in names |-> Text(10)]

Item ==
    Obj([product |-> Obj(Texts(DOMAIN Contract["ProductInfo"])), quantity |-> Integer(3),
         unit_price |-> Number(20), cost_price |-> Number(20), discount_pct |-> Number(20),
         shipping_fee |-> Number(20)])

\* make_order: every field of the contract has a value.
MakeOrder ==
    Obj([order_id |-> Text(10), ship_mode |-> Text(10), order_status |-> Text(10),
         order_date |-> Date(GeneratedOn - 9), delivery_date |-> Date(GeneratedOn - 5),
         delivery_days |-> Integer(4), returned |-> Bool(0),
         customer |-> Obj([f \in Groups.customer |->
             CASE f = "age" -> Integer(30)
               [] f = "registration_date" -> Date(50)
               [] f = "newsletter_subscribed" -> Bool(1)
               [] OTHER -> Text(10)]),
         address |-> Obj(Texts(Groups.address)),
         payment |-> Obj([payment_method |-> Text(10), tax_pct |-> Integer(5)]),
         behavior |-> Obj([device_used |-> Text(10), is_repeat_customer |-> Bool(0),
                           customer_rating |-> Integer(4)]),
         items |-> Arr(<<Item, Item>>)])

-----------------------------------------------------------------------------
\* A value with another one in place of a child; an array is entered by position.
PutChild(v, key, new) ==
    IF v.kind = "array"
    THEN Arr([i \in DOMAIN v.elems |-> IF Index(i) = key THEN new ELSE v.elems[i]])
    ELSE Obj((key :> new) @@ v.fields)

Child(v, key) ==
    IF v.kind = "array" THEN v.elems[CHOOSE i \in DOMAIN v.elems : Index(i) = key] ELSE Get(v, key)

\* The payload with another value at a path: at[k] is what lies k steps along it, and
\* put[k] what lies there afterwards.
SetAt(v, path, new) ==
    LET at[k \in 0..Len(path)] == IF k = 0 THEN v ELSE Child(at[k - 1], path[k])
        put[k \in 0..Len(path)] ==
            IF k = Len(path) THEN new ELSE PutChild(at[k], path[k + 1], put[k + 1])
    IN put[0]

\* The payload after a sequence of changes.
Changed(p, changes) == FoldLeft(LAMBDA q, x : SetAt(q, x.path, x.value), p, changes)

\* Changes that carry the code that the generator expects of them.
Injections(code, paths, values) ==
    {[code |-> code, path |-> path, value |-> v] : path \in paths, v \in values}

InItems(fields) == {<<"items", i, f>> : i \in {"1", "2"}, f \in fields}

\* The injectors; a delivery date is moved with respect to the order date.
DirtyInjections(orderedOn) ==
    Injections("quantity_non_positive", InItems({"quantity"}), {Integer(0), Integer(-5)})
    \cup Injections("unit_price_negative", InItems({"unit_price"}), {Number(-1), Number(-200)})
    \cup Injections("discount_pct_out_of_range", InItems({"discount_pct"}), {Number(-10), Number(120)})
    \cup Injections("non_finite_number", InItems({"unit_price", "quantity", "discount_pct"}), {NaN})
    \cup Injections("tax_pct_out_of_range", {<<"payment", "tax_pct">>}, {Number(-5), Number(250)})
    \cup Injections("delivery_before_order", {<<"delivery_date">>}, {Date(orderedOn - 1)})
    \cup Injections("customer_rating_out_of_range", {<<"behavior", "customer_rating">>},
                    {Integer(0), Integer(11)})
    \cup Injections("age_out_of_range", {<<"customer", "age">>},
                    {Integer(-3), Integer(125), Integer(150), Integer(999)})
    \cup Injections("field_too_long", {<<"customer", "customer_name">>}, {Text(119), Text(209)})
    \cup Injections("field_too_long", {<<"address", "city">>}, {Text(87), Text(117)})
    \cup Injections("order_date_in_future", {<<"order_date">>},
                    {Date(GeneratedOn + 2), Date(GeneratedOn + 20)})

\* strip_optional_costs: nothing, or one cost of one item, becomes null.
OptionalCosts == Injections("none", InItems({"cost_price", "shipping_fee"}), {Null})
StripOptionalCosts == {<< >>} \cup {<<x>> : x \in OptionalCosts}

\* inject_dirty: one violation, or two of which the second is made on top.
InjectDirty ==
    LET OrderedOn(x) == IF x.path = <<"order_date">> THEN x.value.n ELSE GeneratedOn - 9
        once == DirtyInjections(GeneratedOn - 9)
    IN {<<x>> : x \in once} \cup UNION {{<<x, y>> : y \in DirtyInjections(OrderedOn(x))} : x \in once}
=============================================================================
