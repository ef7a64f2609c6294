----------------------------- MODULE MCJudging -----------------------------
(***************************************************************************)
(* The payloads that Judging is checked with: what the seeder sends, and   *)
(* the order it starts from with one value of another kind anywhere, with  *)
(* two unexpected fields whose paths are spelled alike, or dated ahead.    *)
(***************************************************************************)
EXTENDS Judging

Anything ==
    {Null, Integer(0), Integer(1), Integer(-5), NaN, Scalar("number", "fraction", 7),
     Scalar("integer", "huge", 999999), Bool(1), Text(300), Text(60), Scalar("string", "blank", 3), Scalar("string", "blank", 0),
     Scalar("string", "nul", 3), Scalar("string", "whole", 5), Scalar("string", "whole", -5),
     Scalar("string", "nonfinite", 0), Scalar("string", "flag", 1), Date(99),
     Obj(<< >>), Obj("new" :> NaN), Arr(<< >>), Arr(<<Text(3)>>)}

Paths ==
    {<<"order_id">>, <<"order_date">>, <<"delivery_days">>, <<"returned">>, <<"order_status">>,
     <<"customer">>, <<"customer", "customer_name">>, <<"customer", "age">>,
     <<"address">>, <<"address", "city">>, <<"payment", "tax_pct">>, <<"payment", "payment_method">>,
     <<"behavior">>, <<"behavior", "customer_rating">>,
     <<"items">>, <<"items", "2">>, <<"items", "2", "product">>, <<"items", "2", "product", "brand">>,
     <<"items", "1", "quantity">>, <<"items", "2", "unit_price">>, <<"items", "2", "cost_price">>,
     <<"items", "1", "discount_pct">>, <<"items", "2", "shipping_fee">>,
     <<"coupon">>, <<"customer", "loyalty">>, <<"items", "2", "weight">>,
     <<"items", "1", "product", "colour">>}

Upstream == Injections("none", Paths, Anything) \cup Injections("none", {<< >>}, {Text(3)})

DottedNames ==
    ("customer.loyalty" :> <<"customer", "loyalty">>)
    @@ ("items[1].weight" :> <<"items", "2", "weight">>)
    @@ ("items[0].product.colour" :> <<"items", "1", "product", "colour">>)
    @@ ("product.colour" :> <<"product", "colour">>)

\* The places that are spelled "customer.loyalty", "items[1].weight" and
\* "items[0].product.colour".
Spellings ==
    {{<<"customer.loyalty">>, <<"customer", "loyalty">>},
     {<<"items[1].weight">>, <<"items", "2", "weight">>},
     {<<"items[0].product.colour">>, <<"items", "1", "product.colour">>,
      <<"items", "1", "product", "colour">>}}

Spelling == Injections("none", UNION Spellings, {Text(3), NaN, Scalar("string", "nul", 3)})

SpelledAlike ==
    {<<x, y>> \in Spelling \X Spelling :
        x.path # y.path /\ \E alike \in Spellings : {x.path, y.path} \subseteq alike}

\* Orders dated ahead of the clock, with no other violation.
Ahead == Injections("none", {<<"order_date">>}, {Date(GeneratedOn + 2), Date(GeneratedOn + 3)})
Undelivered == Injections("none", {<<"delivery_date">>}, {Null})
FutureOrders == [door : {"api"}, changes : Undelivered \X Ahead]

SeededOrders == [door : {"api"}, changes : StripOptionalCosts \cup InjectDirty]

SampledOrders ==
    [door : {"api", "db"}, changes : {<<x>> : x \in Upstream} \cup SpelledAlike]
    \cup SeededOrders \cup FutureOrders
=============================================================================
