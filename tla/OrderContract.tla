---------------------------- MODULE OrderContract ----------------------------
(***************************************************************************)
(* schema.py and the drift detection of clean.py: which JSON a POST /orders*)
(* may carry, how it becomes the columns of an ODS row, and what is said   *)
(* of the parts that the contract does not know.                           *)
(*                                                                         *)
(* A JSON value is an object, an array, null or a scalar.  Of a scalar the *)
(* model keeps its JSON kind, its form (what it can be read as) and a      *)
(* number n: the value of a number or a flag, the day of a date, the       *)
(* length of a text.                                                       *)
(***************************************************************************)
EXTENDS Integers, SequencesExt, FiniteSets

CONSTANT
    Dotted  \* the names of fields that read like a path, "customer.sex" or
            \* "items[0].size", with the steps of that path

Scalar(kind, form, n) == [kind |-> kind, form |-> form, n |-> n]
Integer(n) == Scalar("integer", "whole", n)
Number(n) == Scalar("number", "whole", n)
Text(n) == Scalar("string", "text", n)
Date(day) == Scalar("string", "date", day)
Bool(n) == Scalar("boolean", "flag", n)
NaN == Scalar("number", "nonfinite", 0)
Null == Scalar("null", "none", 0)
Obj(fields) == [kind |-> "object", fields |-> fields]
Arr(elems) == [kind |-> "array", elems |-> elems]

\* The forms: "whole" fits a 32-bit column, "huge" does not; "fraction" and
\* "nonfinite"; "text"; "blank", a sentinel such as "N/A"; "nul", a text with a NUL
\* character in it; "date"; "flag"; "none".

\* dict.get.
Get(v, key) == IF key \in DOMAIN v.fields THEN v.fields[key] ELSE Null

-----------------------------------------------------------------------------
(* The contract: the annotations of OrderIN and of its groups.             *)

ItemNumbers == {"quantity", "unit_price", "cost_price", "discount_pct", "shipping_fee"}

CustomerInfo ==
    [customer_id |-> "str", customer_name |-> "str", age |-> "int", gender |-> "str",
     membership_tier |-> "str", registration_date |-> "date", acquisition_channel |-> "str",
     newsletter_subscribed |-> "bool", preferred_payment_method |-> "str",
     preferred_device |-> "str"]

OrderIN ==
    [order_id |-> "str", order_date |-> "date", ship_mode |-> "str", order_status |-> "str",
     delivery_date |-> "date", delivery_days |-> "int", returned |-> "bool",
     customer |-> "CustomerInfo", address |-> "AddressInfo", items |-> "list",
     payment |-> "PaymentInfo", behavior |-> "BehaviorInfo"]

Contract ==
    [OrderIN |-> OrderIN,
     CustomerInfo |-> CustomerInfo,
     AddressInfo |-> [country |-> "str", region |-> "str", state |-> "str", city |-> "str",
                      postal_code |-> "str"],
     ProductInfo |-> [product_id |-> "str", product_name |-> "str", category |-> "str",
                      sub_category |-> "str", brand |-> "str", condition |-> "str"],
     PaymentInfo |-> [payment_method |-> "str", tax_pct |-> "float"],
     OrderItemInfo |-> [product |-> "ProductInfo", quantity |-> "int", unit_price |-> "float",
                        cost_price |-> "float", discount_pct |-> "float",
                        shipping_fee |-> "float"],
     BehaviorInfo |-> [device_used |-> "str", is_repeat_customer |-> "bool",
                       customer_rating |-> "float"]]

Models == DOMAIN Contract

ASSUME DottedAssumption ==
    /\ \A name \in DOMAIN Dotted : Dotted[name] \in Seq(STRING) /\ Len(Dotted[name]) > 1
    /\ \A model \in Models : DOMAIN Contract[model] \cap DOMAIN Dotted = {}

-----------------------------------------------------------------------------
(* Pydantic in lax mode: the scalars that a declared type takes, and the   *)
(* value it makes of them.                                                 *)

Numeric == {"whole", "fraction", "huge", "nonfinite"}

Takes(type, v) ==
    CASE type = "str" -> v.kind = "string"
      [] type = "int" -> v.form \in {"whole", "huge"} \/ v.kind = "boolean"
      [] type = "float" -> v.form \in Numeric \/ v.kind = "boolean"
      [] type = "bool" -> v.form = "flag" \/ (v.form = "whole" /\ v.n \in {0, 1})
      [] type = "date" -> v.form = "date" \/ (v.form = "whole" /\ v.n = 0)

\* A column keeps the form and the number; nothing else of the JSON is left.
Column(form, n) == [form |-> form, n |-> n]
None == Column("none", 0)

Coerced(type, v) ==
    CASE v = Null -> None
      [] v # Null /\ type = "bool" -> Column("flag", v.n)
      [] v # Null /\ type = "date" -> Column("date", v.n)
      [] v # Null /\ type \in {"int", "float"} /\ v.kind = "boolean" -> Column("whole", v.n)
      [] OTHER -> Column(v.form, v.n)

\* The contract is three models deep: a scalar, a model of scalars, an item with its
\* product, the order.  All of them are optional.
ScalarFits(type, v) == v = Null \/ (v.kind \notin {"object", "array"} /\ Takes(type, v))

ModelFits(model, v, FieldFits(_, _)) ==
    \/ v = Null
    \/ v.kind = "object"
       /\ \A f \in DOMAIN Contract[model] : FieldFits(Contract[model][f], Get(v, f))

GroupFits(type, v) == IF type \in Models THEN ModelFits(type, v, ScalarFits) ELSE ScalarFits(type, v)

ItemsFit(v) ==
    \/ v = Null
    \/ v.kind = "array" /\ \A i \in DOMAIN v.elems :
          v.elems[i] # Null /\ ModelFits("OrderItemInfo", v.elems[i], GroupFits)

Fits(type, v) == IF type = "list" THEN ItemsFit(v) ELSE GroupFits(type, v)

\* Mutant of Accepted: order_id is as optional as the rest.
AcceptedWithoutKey(p) == p.kind = "object" /\ ModelFits("OrderIN", p, Fits)

\* OrderIN validates: every field is optional but order_id.
Accepted(p) ==
    /\ p.kind = "object"
    /\ ModelFits("OrderIN", p, Fits)
    /\ Get(p, "order_id") # Null

-----------------------------------------------------------------------------
(* ODSOrder.from_nested.                                                   *)

\* The columns that are read from the order itself and from each of its groups.
OrderColumns ==
    {"order_id", "order_date", "ship_mode", "order_status", "delivery_date", "delivery_days",
     "returned"}

Groups ==
    [customer |-> {"customer_id", "customer_name", "age", "gender", "membership_tier",
                   "registration_date", "acquisition_channel", "newsletter_subscribed",
                   "preferred_payment_method", "preferred_device"},
     address |-> {"country", "region", "state", "city", "postal_code"},
     payment |-> {"payment_method", "tax_pct"},
     behavior |-> {"device_used", "customer_rating", "is_repeat_customer"}]

\* The declared types of ODSOrder, items apart (Any).
ODSOrder ==
    [order_id |-> "str", order_date |-> "date", ship_mode |-> "str", order_status |-> "str",
     delivery_date |-> "date", delivery_days |-> "int", returned |-> "bool",
     customer_id |-> "str", customer_name |-> "str", age |-> "int", gender |-> "str",
     membership_tier |-> "str", registration_date |-> "date", acquisition_channel |-> "str",
     newsletter_subscribed |-> "bool", preferred_payment_method |-> "str",
     preferred_device |-> "str", country |-> "str", region |-> "str", state |-> "str",
     city |-> "str", postal_code |-> "str", payment_method |-> "str", tax_pct |-> "float",
     device_used |-> "str", customer_rating |-> "float", is_repeat_customer |-> "bool"]

Columns == DOMAIN ODSOrder

\* A group that is not an object counts as an empty one.
AsDict(v) == IF v.kind = "object" THEN v ELSE Obj(<< >>)

GroupOf(c) == CHOOSE g \in DOMAIN Groups : c \in Groups[g]

\* The JSON value that from_nested hands to a column.
Read(p, c) == IF c \in OrderColumns THEN Get(p, c) ELSE Get(AsDict(Get(p, GroupOf(c))), c)

\* cls(...) raises no ValidationError.
Flattens(p) ==
    /\ \A c \in Columns : Read(p, c) = Null \/ (Read(p, c).kind \notin {"object", "array"}
                                                /\ Takes(ODSOrder[c], Read(p, c)))
    /\ Read(p, "order_id") # Null

FromNested(p) ==
    [columns |-> [c \in Columns |-> Coerced(ODSOrder[c], Read(p, c))],
     items |-> Get(p, "items")]

-----------------------------------------------------------------------------
(* detect_schema_drift: the messages and the unmapped fields of a walk     *)
(* through the contract and the payload together.                          *)

Kind(type) ==
    CASE type \in {"str", "date"} -> "string"
      [] type = "int" -> "integer"
      [] type = "float" -> "number"
      [] type = "bool" -> "boolean"

TypeCompatible(expected, actual) ==
    actual = expected \/ (expected = "number" /\ actual = "integer")

Message(code, path) == [code |-> code, path |-> path]

\* An array is entered by position.
Index(i) == ToString(i)

Nothing == [messages |-> {}, unmapped |-> {}]
Said(code, path) == [messages |-> {Message(code, path)}, unmapped |-> {}]
Joined(found) == [messages |-> UNION {w.messages : w \in found},
                  unmapped |-> UNION {w.unmapped : w \in found}]

\* One object and its model: the fields that the model does not know, and each of
\* the known ones that has a value.
Walk(model, data, path, Into(_, _, _)) ==
    LET fields == Contract[model]
        extra == DOMAIN data.fields \ DOMAIN fields
        known == {f \in DOMAIN fields : Get(data, f) # Null}
        new == [messages |-> {Message("unexpected_field", Append(path, f)) : f \in extra},
                unmapped |-> {<<Append(path, f), data.fields[f]>> : f \in extra}]
    IN Joined({new} \cup {Into(fields[f], Get(data, f), Append(path, f)) : f \in known})

ScalarDrift(type, v, path) ==
    IF TypeCompatible(Kind(type), v.kind) THEN Nothing ELSE Said("type_drift", path)

GroupDrift(type, v, path) ==
    IF type \notin Models THEN ScalarDrift(type, v, path)
    ELSE IF v.kind = "object" THEN Walk(type, v, path, ScalarDrift)
    ELSE Said("non_object_group", path)

ItemDrift(v, path) ==
    IF v.kind = "object" THEN Walk("OrderItemInfo", v, path, GroupDrift)
    ELSE Said("non_object_group", path)

ItemsDrift(v, path) ==
    IF v.kind = "array"
    THEN Joined({ItemDrift(v.elems[i], Append(path, Index(i))) : i \in DOMAIN v.elems})
    ELSE Said("non_object_group", path)

FieldDrift(type, v, path) == IF type = "list" THEN ItemsDrift(v, path) ELSE GroupDrift(type, v, path)

\* A payload that is not an object is not looked at.
Walked(p) == IF p.kind = "object" THEN Walk("OrderIN", p, << >>, FieldDrift) ELSE Nothing

\* The string that the code makes of a path: it does not tell a step from a dot in
\* a name.
Spelled(path) ==
    FlattenSeq([i \in DOMAIN path |->
                   IF path[i] \in DOMAIN Dotted THEN Dotted[path[i]] ELSE <<path[i]>>])

\* unmapped is a dict with those strings for keys: of the fields that are spelled alike
\* it keeps the one that is written last, and an object's own fields are written
\* before those of the objects in it.
Kept(written) ==
    {u \in written :
        ~\E w \in written : Spelled(w[1]) = Spelled(u[1]) /\ Len(w[1]) > Len(u[1])}

\* Mutant of DetectSchemaDrift: an unexpected field is reported, its value not kept.
DriftWithoutValues(p) == [Walked(p) EXCEPT !.unmapped = {}]

DetectSchemaDrift(p) ==
    [messages |-> Walked(p).messages, unmapped |-> Kept(Walked(p).unmapped)]

-----------------------------------------------------------------------------
(* The places of a JSON value: every value in it, with its path.           *)

Inside(x) ==
    CASE x.v.kind = "object" ->
            {[path |-> Append(x.path, f), v |-> x.v.fields[f]] : f \in DOMAIN x.v.fields}
      [] x.v.kind = "array" ->
            {[path |-> Append(x.path, Index(i)), v |-> x.v.elems[i]] : i \in DOMAIN x.v.elems}
      [] OTHER -> {}

Below(places) == UNION {Inside(x) : x \in places}

\* BOUND: six levels, two more than the contract has.
Places(v) ==
    LET root == {[path |-> << >>, v |-> v]}
        one == Below(root)
        two == Below(one)
        three == Below(two)
        four == Below(three)
        five == Below(four)
        six == Below(five)
    IN root \cup one \cup two \cup three \cup four \cup five \cup six

IsScalar(v) == v.kind \notin {"object", "array"}

\* The scalars that json.loads returns.
JsonScalars ==
    {Null}
    \cup [kind : {"boolean"}, form : {"flag"}, n : {0, 1}]
    \cup [kind : {"integer"}, form : {"whole", "huge"}, n : Int]
    \cup [kind : {"number"}, form : {"whole", "fraction", "huge", "nonfinite"}, n : Int]
    \cup [kind : {"string"}, n : Int,
          form : {"text", "blank", "nul", "date", "whole", "nonfinite", "flag"}]

\* A JSON value that the bound covers.
IsJson(v) ==
    /\ Below(Places(v)) \subseteq Places(v)
    /\ \A x \in Places(v) : IsScalar(x.v) => x.v \in JsonScalars
=============================================================================
