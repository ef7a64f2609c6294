--------------------------- MODULE Judging_proofs ---------------------------
(***************************************************************************)
(* Proofs about one order from its payload to its verdicts, for every set  *)
(* of JSON payloads, every set of rule sets and every number of midnights: *)
(* what the declarations of schema.py promise each other, what of a        *)
(* payload lands where, and what a verdict and a promotion rest on.        *)
(***************************************************************************)
EXTENDS Judging, SequenceTheorems, TLAPS

-----------------------------------------------------------------------------
(* The columns of ods and the contract. *)

\* The columns of an ODS row are those of the order and those of its groups, and a
\* column has the type that the contract gives to the field it is read from.
LEMMA ColumnsOfGroups ==
    /\ OrderColumns \subseteq Columns
    /\ \A c \in Columns \ OrderColumns : \E g \in DOMAIN Groups : c \in Groups[g]
    /\ \A g \in DOMAIN Groups : \A c \in Groups[g] :
          /\ c \in Columns /\ c \notin OrderColumns
          /\ \A h \in DOMAIN Groups : c \in Groups[h] => h = g
BY DEF OrderColumns, Columns, ODSOrder, Groups

\* A column of a group is read from the field of its name in that group.
LEMMA ReadOfGroup ==
    ASSUME NEW p, NEW g \in DOMAIN Groups, NEW c \in Groups[g]
    PROVE  GroupOf(c) = g /\ Read(p, c) = Get(AsDict(Get(p, g)), c)
BY ColumnsOfGroups DEF GroupOf, Read

\* The two declarations of schema.py agree on the type of every column.
LEMMA DeclarationsAgree ==
    /\ OrderColumns = {f \in DOMAIN OrderIN : OrderIN[f] \notin Models \cup {"list"}}
    /\ \A c \in OrderColumns : ODSOrder[c] = OrderIN[c]
    /\ DOMAIN Groups = {f \in DOMAIN OrderIN : OrderIN[f] \in Models}
    /\ \A g \in DOMAIN Groups :
          /\ Groups[g] = DOMAIN Contract[OrderIN[g]]
          /\ \A c \in Groups[g] : /\ Contract[OrderIN[g]][c] \notin Models
                                  /\ ODSOrder[c] = Contract[OrderIN[g]][c]
    /\ Contract["OrderIN"] = OrderIN
    /\ OrderIN["items"] = "list" /\ "list" \notin Models
<1>1. OrderColumns = {f \in DOMAIN OrderIN : OrderIN[f] \notin Models \cup {"list"}}
  BY DEF OrderColumns, OrderIN, Models, Contract
<1>2. \A c \in OrderColumns : ODSOrder[c] = OrderIN[c]
  BY DEF OrderColumns, OrderIN, ODSOrder
<1>3. DOMAIN Groups = {f \in DOMAIN OrderIN : OrderIN[f] \in Models}
  BY DEF Groups, OrderIN, Models, Contract
<1>4. ASSUME NEW g \in DOMAIN Groups
      PROVE  /\ Groups[g] = DOMAIN Contract[OrderIN[g]]
             /\ \A c \in Groups[g] : /\ Contract[OrderIN[g]][c] \notin Models
                                     /\ ODSOrder[c] = Contract[OrderIN[g]][c]
  <2>1. CASE g = "customer"
    BY <2>1 DEF Groups, OrderIN, Models, Contract, CustomerInfo, ODSOrder
  <2>2. CASE g = "address"
    BY <2>2 DEF Groups, OrderIN, Models, Contract, ODSOrder
  <2>3. CASE g = "payment"
    BY <2>3 DEF Groups, OrderIN, Models, Contract, ODSOrder
  <2>4. CASE g = "behavior"
    BY <2>4 DEF Groups, OrderIN, Models, Contract, ODSOrder
  <2>5. QED
    BY <2>1, <2>2, <2>3, <2>4 DEF Groups
<1>5. /\ Contract["OrderIN"] = OrderIN
      /\ OrderIN["items"] = "list" /\ "list" \notin Models
  BY DEF Contract, Models, OrderIN
<1>6. QED
  BY <1>1, <1>2, <1>3, <1>4, <1>5

\* Every field of an accepted order fits.
LEMMA AcceptedFields ==
    ASSUME NEW p, Accepted(p)
    PROVE  /\ p.kind = "object" /\ Get(p, "order_id") # Null
           /\ \A c \in OrderColumns : ScalarFits(ODSOrder[c], Get(p, c))
           /\ \A g \in DOMAIN Groups : ModelFits(OrderIN[g], Get(p, g), ScalarFits)
           /\ ItemsFit(Get(p, "items"))
<1>1. p # Null
  BY DEF Accepted, Null, Scalar
<1>2. \A f \in DOMAIN OrderIN : Fits(OrderIN[f], Get(p, f))
  BY <1>1, DeclarationsAgree DEF Accepted, ModelFits
<1>3. ASSUME NEW c \in OrderColumns PROVE ScalarFits(ODSOrder[c], Get(p, c))
  BY <1>2, DeclarationsAgree DEF Fits, GroupFits
<1>4. ASSUME NEW g \in DOMAIN Groups PROVE ModelFits(OrderIN[g], Get(p, g), ScalarFits)
  BY <1>2, DeclarationsAgree DEF Fits, GroupFits
<1>5. ItemsFit(Get(p, "items"))
  BY <1>2, DeclarationsAgree DEF Fits, OrderIN
<1>6. QED
  BY <1>3, <1>4, <1>5 DEF Accepted

\* An accepted order can be flattened and its items gone through.
LEMMA AcceptedIsBuildable ==
    ASSUME NEW p, Accepted(p)
    PROVE  Buildable(p)
<1>1. ASSUME NEW c \in Columns PROVE ScalarFits(ODSOrder[c], Read(p, c))
  <2>1. CASE c \in OrderColumns
    BY <2>1, AcceptedFields DEF Read
  <2>2. CASE c \notin OrderColumns
    <3>1. PICK g \in DOMAIN Groups : c \in Groups[g]
      BY <2>2, ColumnsOfGroups
    <3>2. Read(p, c) = Get(AsDict(Get(p, g)), c)
      BY <3>1, ReadOfGroup
    <3>3. CASE Get(p, g) = Null
      <4>1. Get(p, g).kind # "object"
        BY <3>3 DEF Null, Scalar
      <4>2. Read(p, c) = Null
        BY <3>2, <4>1 DEF AsDict, Obj, Get
      <4>3. QED
        BY <4>2 DEF ScalarFits
    <3>4. CASE Get(p, g) # Null
      BY <3>1, <3>2, <3>4, AcceptedFields, DeclarationsAgree DEF ModelFits, AsDict
    <3>5. QED
      BY <3>3, <3>4
  <2>3. QED
    BY <2>1, <2>2
<1>2. Flattens(p)
  <2>1. "order_id" \in OrderColumns
    BY DEF OrderColumns
  <2>2. Read(p, "order_id") # Null
    BY <2>1, AcceptedFields DEF Read
  <2>3. QED
    BY <1>1, <2>2 DEF Flattens, ScalarFits
<1>3. Iterable(Get(p, "items"))
  <2> DEFINE items == Get(p, "items")
  <2>1. CASE items = Null
    BY <2>1 DEF Iterable, Falsy, Null, Scalar
  <2>2. CASE items # Null
    <3>1. items.kind = "array" /\ \A i \in DOMAIN items.elems :
            items.elems[i] # Null /\ ModelFits("OrderItemInfo", items.elems[i], GroupFits)
      BY <2>2, AcceptedFields DEF ItemsFit
    <3>2. \A i \in DOMAIN items.elems : items.elems[i].kind = "object"
      BY <3>1 DEF ModelFits
    <3>3. QED
      BY <3>1, <3>2 DEF Iterable
  <2>3. QED
    BY <2>1, <2>2
<1>4. QED
  BY <1>2, <1>3, AcceptedFields DEF Buildable

-----------------------------------------------------------------------------
(* The verdict of a row and of what is left of it. *)

\* Only the two float columns of a row are normalised, and only when not finite.
LEMMA CleanColumns ==
    ASSUME NEW row, NEW f \in Columns
    PROVE  BusinessClean(row).columns[f]
             = IF f \in {"tax_pct", "customer_rating"} /\ row.columns[f].form = "nonfinite"
               THEN None ELSE row.columns[f]
BY DEF BusinessClean

\* A float column loses the error of a number that is not finite, and no other.
LEMMA CleanFloat ==
    ASSUME NEW row, NEW f \in {"tax_pct", "customer_rating"}, NEW code, NEW range,
           code \notin NonReproducibleCodes
    PROVE  FloatErrors(BusinessClean(row), f, code, range)
             = {e \in FloatErrors(row, f, code, range) : e.code \notin NonReproducibleCodes}
<1>1. f \in Columns
  BY DEF Columns, ODSOrder
<1>2. CASE row.columns[f].form = "nonfinite"
  <2>1. BusinessClean(row).columns[f] = None
    BY <1>1, <1>2, CleanColumns
  <2>2. row.columns[f] # None
    BY <1>2 DEF None, Column
  <2>3. FloatErrors(row, f, code, range) = {Error("non_finite_number", f)}
    BY <1>2, <2>2 DEF FloatErrors
  <2>4. FloatErrors(BusinessClean(row), f, code, range) = {}
    <3>1. None.form # "nonfinite"
      BY DEF None, Column
    <3>2. QED
      BY <2>1, <3>1 DEF FloatErrors
  <2>5. QED
    BY <2>3, <2>4 DEF Error, NonReproducibleCodes
<1>3. CASE row.columns[f].form # "nonfinite"
  <2>1. BusinessClean(row).columns[f] = row.columns[f]
    BY <1>1, <1>3, CleanColumns
  <2>2. FloatErrors(BusinessClean(row), f, code, range) = FloatErrors(row, f, code, range)
    BY <2>1 DEF FloatErrors
  <2>3. \A e \in FloatErrors(row, f, code, range) : e.code = code
    BY <1>3 DEF FloatErrors, Error
  <2>4. QED
    BY <2>2, <2>3
<1>4. QED
  BY <1>2, <1>3

\* So do the columns as a whole.
LEMMA CleanColumnErrors ==
    ASSUME NEW row, NEW asOf, NEW version \in DOMAIN AgeMax
    PROVE  ColumnErrors(BusinessClean(row), asOf, version)
             = {e \in ColumnErrors(row, asOf, version) : e.code \notin NonReproducibleCodes}
<1> DEFINE clean == BusinessClean(row)
           late(r) == IF r.columns["delivery_date"] # None /\ r.columns["order_date"] # None
                         /\ r.columns["delivery_date"].n < r.columns["order_date"].n
                      THEN {Error("delivery_before_order", "delivery_date")} ELSE {}
           aged(r) == IF r.columns["age"] # None /\ r.columns["age"].n \notin 0..AgeMax[version]
                      THEN {Error("age_out_of_range", "age")} ELSE {}
           soft == SoftMaxLengths(version)
           long(r) == {Error("field_too_long", f) : f \in {f \in DOMAIN soft :
                          r.columns[f].form = "text" /\ r.columns[f].n > soft[f]}}
           tax(r) == FloatErrors(r, "tax_pct", "tax_pct_out_of_range", 0..100)
           rating(r) == FloatErrors(r, "customer_rating", "customer_rating_out_of_range", 1..5)
           future(r) == FutureErrors(r, asOf)
<1>1. \A f \in {"delivery_date", "order_date", "age", "customer_name", "city"} :
        clean.columns[f] = row.columns[f]
  BY CleanColumns DEF Columns, ODSOrder
<1>2. late(clean) = late(row) /\ aged(clean) = aged(row) /\ future(clean) = future(row)
  BY <1>1 DEF FutureErrors
<1>3. DOMAIN soft = {"customer_name", "city"}
  BY DEF SoftMaxLengths
<1>4. long(clean) = long(row)
  BY <1>1, <1>3
<1>5. \A e \in late(row) \cup aged(row) \cup future(row) \cup long(row) :
        e.code \notin NonReproducibleCodes
  BY DEF FutureErrors, Error, NonReproducibleCodes
<1>6. /\ tax(clean) = {e \in tax(row) : e.code \notin NonReproducibleCodes}
      /\ rating(clean) = {e \in rating(row) : e.code \notin NonReproducibleCodes}
  BY CleanFloat DEF NonReproducibleCodes
<1>7. ASSUME NEW r
      PROVE  ColumnErrors(r, asOf, version)
               = tax(r) \cup late(r) \cup future(r) \cup rating(r) \cup aged(r) \cup long(r)
  BY DEF ColumnErrors
<1> HIDE DEF clean, late, aged, soft, long, tax, rating, future
<1>8. ColumnErrors(clean, asOf, version)
        = {e \in ColumnErrors(row, asOf, version) : e.code \notin NonReproducibleCodes}
  BY <1>2, <1>4, <1>5, <1>6, <1>7
<1>9. QED
  BY <1>8 DEF clean

\* And so does an item.
LEMMA CleanItemErrors ==
    ASSUME NEW item
    PROVE  ItemErrors(Sanitized(item))
             = {e \in ItemErrors(item) : e.code \notin NonReproducibleCodes}
<1> DEFINE clean == Sanitized(item)
<1>1. \A f : f \in NotFinite(item) => Get(clean, f) = Null
  BY DEF Sanitized, Get, Obj
<1>2. \A f : f \notin NotFinite(item) => Get(clean, f) = Get(item, f)
  BY DEF Sanitized, Get, Obj
<1>3. NotFinite(clean) = {}
  BY <1>1, <1>2 DEF NotFinite, IsNumber, Null, Scalar
<1>4. ASSUME NEW f \in ItemNumbers
      PROVE  /\ IsNumber(Get(clean, f)) => Get(clean, f) = Get(item, f)
             /\ IsNumber(Get(item, f)) /\ Get(item, f).form # "nonfinite"
                => Get(clean, f) = Get(item, f)
  BY <1>1, <1>2 DEF NotFinite, IsNumber, Null, Scalar
<1>5. ItemRanges(clean) = ItemRanges(item)
  BY <1>4 DEF ItemRanges, ItemNumbers, Error
<1>6. \A e \in ItemRanges(item) : e.code \notin NonReproducibleCodes
  BY DEF ItemRanges, Error, NonReproducibleCodes
<1>7. \A e \in {Error("non_finite_number", f) : f \in NotFinite(item)} : e.code \in NonReproducibleCodes
  BY DEF Error, NonReproducibleCodes
<1>8. QED
  BY <1>3, <1>5, <1>6, <1>7 DEF ItemErrors

\* What business_clean reports of a row, it reports again of what it leaves of the
\* row, but for the numbers that were not finite.
LEMMA CleanRowErrors ==
    ASSUME NEW row, Iterable(row.items), NEW asOf, NEW version \in DOMAIN AgeMax
    PROVE  BusinessErrors(BusinessClean(row), asOf, version)
             = {e \in BusinessErrors(row, asOf, version) : e.code \notin NonReproducibleCodes}
<1> DEFINE clean == BusinessClean(row)
           found(items) == IF Falsy(items) THEN {}
                           ELSE UNION {ItemErrors(items.elems[i]) : i \in DOMAIN items.elems}
<1>1. clean.items = SanitizedItems(row.items)
  BY DEF BusinessClean
<1>2. found(clean.items) = {e \in found(row.items) : e.code \notin NonReproducibleCodes}
  <2>1. CASE Falsy(row.items)
    BY <1>1, <2>1 DEF SanitizedItems
  <2>2. CASE ~Falsy(row.items)
    <3>1. row.items.kind = "array" /\ DOMAIN row.items.elems # {}
      BY <2>2 DEF Iterable, Falsy
    <3>2. /\ clean.items.kind = "array" /\ DOMAIN clean.items.elems = DOMAIN row.items.elems
          /\ \A i \in DOMAIN row.items.elems : clean.items.elems[i] = Sanitized(row.items.elems[i])
      BY <1>1, <2>2 DEF SanitizedItems, Arr
    <3>3. ~Falsy(clean.items)
      BY <3>1, <3>2 DEF Falsy
    <3>4. \A i \in DOMAIN row.items.elems :
            ItemErrors(clean.items.elems[i])
              = {e \in ItemErrors(row.items.elems[i]) : e.code \notin NonReproducibleCodes}
      BY <3>2, CleanItemErrors
    <3>5. QED
      BY <2>2, <3>2, <3>3, <3>4
  <2>3. QED
    BY <2>1, <2>2
<1>3. ColumnErrors(clean, asOf, version)
        = {e \in ColumnErrors(row, asOf, version) : e.code \notin NonReproducibleCodes}
  BY CleanColumnErrors
<1>4. ASSUME NEW r PROVE BusinessErrors(r, asOf, version) = ColumnErrors(r, asOf, version) \cup found(r.items)
  BY DEF BusinessErrors
<1> HIDE DEF clean, found
<1>5. QED
  BY <1>2, <1>3, <1>4 DEF clean

\* Of the errors that a rule set finds in a row, another one finds, as of the same
\* day, all but those of the two thresholds that versions changed.
LEMMA ErrorsOfVersions ==
    ASSUME NEW row, NEW asOf, NEW v \in DOMAIN AgeMax, NEW w \in DOMAIN AgeMax,
           NEW e \in BusinessErrors(row, asOf, v),
           e.code \notin {"age_out_of_range", "field_too_long"}
    PROVE  e \in BusinessErrors(row, asOf, w)
<1>1. \/ e \in ColumnErrors(row, asOf, v)
      \/ e \in BusinessErrors(row, asOf, w)
  BY DEF BusinessErrors
<1>2. ASSUME e \in ColumnErrors(row, asOf, v) PROVE e \in ColumnErrors(row, asOf, w)
  <2>1. \/ e \in FloatErrors(row, "tax_pct", "tax_pct_out_of_range", 0..100)
        \/ e \in (IF row.columns["delivery_date"] # None /\ row.columns["order_date"] # None
                     /\ row.columns["delivery_date"].n < row.columns["order_date"].n
                  THEN {Error("delivery_before_order", "delivery_date")} ELSE {})
        \/ e \in FutureErrors(row, asOf)
        \/ e \in FloatErrors(row, "customer_rating", "customer_rating_out_of_range", 1..5)
        \/ e.code \in {"age_out_of_range", "field_too_long"}
    BY <1>2 DEF ColumnErrors, Error
  <2>2. QED
    BY <2>1 DEF ColumnErrors
<1>3. QED
  BY <1>1, <1>2 DEF BusinessErrors

-----------------------------------------------------------------------------
(* What an order has gone through. *)

\* What the build makes of a payload on a day, by a rule set.
JudgedBy(p, on, by) ==
    LET row == FormatClean(FromNested(p))
    IN [on |-> on, by |-> by, row |-> BusinessClean(row),
        errors |-> BusinessErrors(row, on, by),
        drift |-> DetectSchemaDrift(Cleaned(p))]

\* The inductive invariant: where an order is says what its payload is like, and what
\* has been built is the judgement of that payload; a promoted row has once been
\* found without errors, as of received_at, by rules that were deployed.
Reached ==
    /\ order \in Orders /\ rules \in Versions
    /\ phase \in {"sent", "rejected", "err500"} \/ order.door = "db" \/ Accepted(Payload)
    /\ phase = "malformed" => ~Buildable(Payload)
    /\ phase \in {"built", "stored", "unstorable"} =>
          /\ Buildable(Payload)
          /\ built.by \in Versions
          /\ built = JudgedBy(Payload, built.on, built.by)
    /\ phase = "unstorable" => ~Storable(built.row, built.drift.unmapped)
    /\ phase # "stored" => state = "none"
    /\ state = "promoted" =>
          /\ \E v \in Versions : BusinessErrors(built.row, begun, v) = {}
          /\ Codes(built.errors) \cap NonReproducibleCodes = {}

\* The invariant is inductive.
LEMMA ReachedIsInvariant == Spec => []Reached
<1>1. Init => Reached
  BY JudgingAssumption DEF Init, Reached
<1>2. ASSUME Reached, [Next]_vars PROVE Reached'
  <2>0. order' = order /\ Payload' = Payload
    BY <1>2 DEF Next, Post, ReadRaw, Build, Commit, Reevaluate, Midnight, Deploy, GoTo, vars, Payload
  <2>1. CASE Post
    <3>1. phase' = "raw" => Accepted(Payload)
      BY <2>1 DEF Post, GoTo
    <3>2. phase = "sent" /\ phase' \in {"rejected", "err500", "raw"} /\ rules' = rules
          /\ state' = state /\ built' = built /\ begun' = begun
      <4>1. CASE ~Accepted(Payload)
        BY <2>1, <4>1 DEF Post, GoTo
      <4>2. CASE Accepted(Payload)
        BY <2>1, <4>2 DEF Post, GoTo
      <4>3. QED
        BY <4>1, <4>2
    <3>3. QED
      BY <1>2, <2>0, <3>1, <3>2 DEF Reached
  <2>2. CASE ReadRaw
    BY <1>2, <2>0, <2>2 DEF Reached, ReadRaw, GoTo
  <2>3. CASE Build
    <3>1. /\ phase = "read" /\ phase' \in {"built", "malformed"} /\ rules' = rules
          /\ state' = state
          /\ phase' = "built" => Buildable(Payload) /\ built' = Judged(Payload)
          /\ phase' = "malformed" => ~Buildable(Payload)
      BY <2>3 DEF Build, GoTo
    <3>2. Judged(Payload) = JudgedBy(Payload, day, rules)
      BY DEF Judged, JudgedBy
    <3>3. JudgedBy(Payload, day, rules).on = day /\ JudgedBy(Payload, day, rules).by = rules
      BY DEF JudgedBy
    <3>4. state = "none" /\ rules \in Versions
      BY <1>2, <3>1 DEF Reached
    <3>5. phase' = "built" => built'.by \in Versions /\ built' = JudgedBy(Payload, built'.on, built'.by)
      BY <3>1, <3>2, <3>3, <3>4
    <3>6. QED
      BY <1>2, <2>0, <3>1, <3>4, <3>5 DEF Reached
  <2>4. CASE Commit
    <3>1. /\ phase = "built" /\ phase' \in {"stored", "unstorable"} /\ rules' = rules
          /\ built' = built
          /\ phase' = "unstorable" => state' = state /\ ~Storable(built.row, built.drift.unmapped)
          /\ phase' = "stored" => state' \in {"clean", "quarantined"}
      BY <2>4 DEF Commit, GoTo
    <3>2. state = "none" /\ state' # "promoted"
      BY <1>2, <3>1 DEF Reached
    <3>3. QED
      BY <1>2, <2>0, <3>1, <3>2 DEF Reached
  <2>5. CASE Reevaluate
    <3>1. /\ phase = "stored" /\ phase' = phase /\ rules' = rules /\ built' = built
          /\ begun' = begun
          /\ state' = "promoted" => Passes
      BY <2>5 DEF Reevaluate
    <3>2. state' = "promoted" => BusinessErrors(built.row, begun, rules) = {}
                                 /\ Codes(built.errors) \cap NonReproducibleCodes = {}
      BY <3>1 DEF Passes, Rejudged
    <3>3. QED
      BY <1>2, <2>0, <3>1, <3>2 DEF Reached
  <2>6. CASE Midnight
    BY <1>2, <2>0, <2>6 DEF Reached, Midnight
  <2>7. CASE Deploy
    BY <1>2, <2>0, <2>7 DEF Reached, Deploy
  <2>8. CASE UNCHANGED vars
    BY <1>2, <2>0, <2>8 DEF Reached, vars
  <2>9. QED
    BY <1>2, <2>1, <2>2, <2>3, <2>4, <2>5, <2>6, <2>7, <2>8 DEF Next
<1>3. QED
  BY <1>1, <1>2, PTL DEF Spec

\* What POST /orders has accepted never ends in an error before it is judged: the
\* declarations of OrderIN and of ODSOrder and from_nested between them agree.
THEOREM AcceptedIsAlwaysBuilt == Spec => []AcceptedIsBuilt
<1>1. Reached => AcceptedIsBuilt
  BY AcceptedIsBuildable DEF Reached, AcceptedIsBuilt
<1>2. QED
  BY <1>1, ReachedIsInvariant, PTL

\* The rules that judged an order find the same errors in what is stored of it, as of
\* received_at, but for the numbers that were normalised.
THEOREM VerdictIsAlwaysReproducible == Spec => []VerdictIsReproducible
<1>1. ASSUME Reached, phase = "stored", rules = built.by, begun = built.on
      PROVE  Rejudged(built.row, begun) = {e \in built.errors : e.code \notin NonReproducibleCodes}
  <2> DEFINE row == FormatClean(FromNested(Payload))
  <2>1. /\ built.row = BusinessClean(row)
        /\ built.errors = BusinessErrors(row, begun, rules)
    BY <1>1 DEF Reached, JudgedBy
  <2>2. row.items = Get(Payload, "items")
    BY DEF FormatClean, FromNested
  <2>3. Iterable(row.items) /\ rules \in DOMAIN AgeMax
    BY <1>1, <2>2, JudgingAssumption DEF Reached, Buildable
  <2> HIDE DEF row
  <2>4. QED
    BY <2>1, <2>3, CleanRowErrors DEF Rejudged
<1>2. Reached => VerdictIsReproducible
  BY <1>1 DEF VerdictIsReproducible
<1>3. QED
  BY <1>2, ReachedIsInvariant, PTL

\* A promotion comes from looser rules and from nothing else, unless the commit came
\* on a later day than the judgement.
THEOREM PromotionIsAlwaysEarned == Spec => []PromotionIsEarned
<1>1. ASSUME Reached, state = "promoted", begun = built.on, NEW e \in built.errors,
             e.code \notin {"age_out_of_range", "field_too_long"}
      PROVE  FALSE
  <2> DEFINE row == FormatClean(FromNested(Payload))
  <2>1. /\ built.row = BusinessClean(row)
        /\ built.errors = BusinessErrors(row, begun, built.by)
        /\ built.by \in DOMAIN AgeMax
    BY <1>1, JudgingAssumption DEF Reached, JudgedBy
  <2>2. row.items = Get(Payload, "items")
    BY DEF FormatClean, FromNested
  <2>3. Iterable(row.items)
    BY <1>1, <2>2 DEF Reached, Buildable
  <2> HIDE DEF row
  <2>4. PICK v \in Versions : BusinessErrors(built.row, begun, v) = {}
    BY <1>1 DEF Reached
  <2>5. e.code \notin NonReproducibleCodes
    BY <1>1 DEF Reached, Codes
  <2>6. e \in BusinessErrors(built.row, begun, built.by)
    BY <1>1, <2>1, <2>3, <2>5, CleanRowErrors
  <2>7. e \in BusinessErrors(built.row, begun, v)
    BY <1>1, <2>1, <2>6, ErrorsOfVersions, JudgingAssumption
  <2>8. QED
    BY <2>4, <2>7
<1>2. Reached => PromotionIsEarned
  BY <1>1 DEF PromotionIsEarned, RelaxedCodes, Codes
<1>3. QED
  BY <1>2, ReachedIsInvariant, PTL

-----------------------------------------------------------------------------
(* The places of a JSON value. *)

Root(v) == [path |-> << >>, v |-> v]
Level1(v) == Below({Root(v)})
Level2(v) == Below(Level1(v))
Level3(v) == Below(Level2(v))
Level4(v) == Below(Level3(v))
Level5(v) == Below(Level4(v))
Level6(v) == Below(Level5(v))

\* The places of a value by how deep they lie.
LEMMA PlacesAreLevels ==
    ASSUME NEW v
    PROVE  Places(v) = {Root(v)} \cup Level1(v) \cup Level2(v) \cup Level3(v)
                                 \cup Level4(v) \cup Level5(v) \cup Level6(v)
BY DEF Places, Root, Level1, Level2, Level3, Level4, Level5, Level6

\* Induction over the places: what holds of the root and is handed down holds of all.
LEMMA PlacesInduction ==
    ASSUME NEW v, NEW T, Root(v) \in T,
           \A x \in T \cap Places(v) : Inside(x) \cap Places(v) \subseteq T
    PROVE  Places(v) \subseteq T
<1>1. ASSUME NEW S \in SUBSET (T \cap Places(v)), Below(S) \subseteq Places(v)
      PROVE  Below(S) \in SUBSET (T \cap Places(v))
  BY <1>1 DEF Below
<1>2. /\ Level1(v) \subseteq Places(v) /\ Level2(v) \subseteq Places(v)
      /\ Level3(v) \subseteq Places(v) /\ Level4(v) \subseteq Places(v)
      /\ Level5(v) \subseteq Places(v) /\ Level6(v) \subseteq Places(v)
  BY PlacesAreLevels
<1>3. {Root(v)} \in SUBSET (T \cap Places(v))
  BY PlacesAreLevels
<1>4. Level1(v) \in SUBSET (T \cap Places(v))
  BY <1>1, <1>2, <1>3 DEF Level1
<1>5. Level2(v) \in SUBSET (T \cap Places(v))
  BY <1>1, <1>2, <1>4 DEF Level2
<1>6. Level3(v) \in SUBSET (T \cap Places(v))
  BY <1>1, <1>2, <1>5 DEF Level3
<1>7. Level4(v) \in SUBSET (T \cap Places(v))
  BY <1>1, <1>2, <1>6 DEF Level4
<1>8. Level5(v) \in SUBSET (T \cap Places(v))
  BY <1>1, <1>2, <1>7 DEF Level5
<1>9. Level6(v) \in SUBSET (T \cap Places(v))
  BY <1>1, <1>2, <1>8 DEF Level6
<1>10. QED
  BY <1>3, <1>4, <1>5, <1>6, <1>7, <1>8, <1>9, PlacesAreLevels

\* What the paths of the places are made of.
Names(v) == UNION {DOMAIN x.v.fields : x \in Places(v)}
Positions(v) == UNION {DOMAIN x.v.elems : x \in Places(v)}
Keys(v) == Names(v) \cup {Index(i) : i \in Positions(v)}

\* What is inside a place: one step down, by a field or by an index.
LEMMA InsideOf ==
    ASSUME NEW x, NEW y \in Inside(x)
    PROVE  \/ /\ x.v.kind = "object"
              /\ \E f \in DOMAIN x.v.fields : /\ y.path = Append(x.path, f)
                                              /\ y.v = x.v.fields[f]
                                              /\ y = [path |-> y.path, v |-> y.v]
           \/ /\ x.v.kind = "array"
              /\ \E i \in DOMAIN x.v.elems : /\ y.path = Append(x.path, Index(i))
                                             /\ y.v = x.v.elems[i]
                                             /\ y = [path |-> y.path, v |-> y.v]
<1>1. CASE x.v.kind = "object"
  BY <1>1 DEF Inside
<1>2. CASE x.v.kind = "array"
  BY <1>2 DEF Inside
<1>3. CASE x.v.kind \notin {"object", "array"}
  BY <1>3 DEF Inside
<1>4. QED
  BY <1>1, <1>2, <1>3

\* The key of that step.
LEMMA KeyOfStep ==
    ASSUME NEW v, NEW x \in Places(v), NEW y \in Inside(x)
    PROVE  \E k \in Keys(v) : y.path = Append(x.path, k)
<1>1. \A f \in DOMAIN x.v.fields : f \in Keys(v)
  BY DEF Keys, Names
<1>2. \A i \in DOMAIN x.v.elems : i \in Positions(v)
  BY DEF Positions
<1>3. QED
  BY <1>1, <1>2, InsideOf DEF Keys

\* Paths are sequences of keys.
LEMMA PathsAreSequences ==
    ASSUME NEW v
    PROVE  \A y \in Places(v) : y.path \in Seq(Keys(v)) /\ y = [path |-> y.path, v |-> y.v]
<1> DEFINE T == {y \in Places(v) : y.path \in Seq(Keys(v)) /\ y = [path |-> y.path, v |-> y.v]}
<1>1. Root(v) \in T
  <2>1. Root(v) \in Places(v)
    BY PlacesAreLevels
  <2>2. Root(v).path = << >> /\ Root(v) = [path |-> Root(v).path, v |-> Root(v).v]
    BY DEF Root
  <2>3. << >> \in Seq(Keys(v))
    OBVIOUS
  <2>4. QED
    BY <2>1, <2>2, <2>3
<1>2. ASSUME NEW x \in T \cap Places(v), NEW y \in Inside(x) \cap Places(v)
      PROVE  y \in T
  <2>1. PICK k \in Keys(v) : y.path = Append(x.path, k)
    BY KeyOfStep
  <2>2. y = [path |-> y.path, v |-> y.v]
    BY InsideOf
  <2>3. QED
    BY <2>1, <2>2
<1>3. Places(v) \subseteq T
  <2> HIDE DEF T
  <2>1. QED
    BY <1>1, <1>2, PlacesInduction
<1>4. QED
  BY <1>3

\* A path is under itself.
LEMMA UnderItself ==
    ASSUME NEW K, NEW s \in Seq(K)
    PROVE  Under(s, s)
BY DEF Under

\* What is a step further is under what it was under.
LEMMA UnderStep ==
    ASSUME NEW K, NEW s \in Seq(K), NEW t \in Seq(K), NEW k \in K, Under(s, t)
    PROVE  Under(Append(s, k), t)
BY DEF Under

\* A level lies one step below the one above it.
LEMMA LengthsBelow ==
    ASSUME NEW v, NEW n \in Nat, NEW S \in SUBSET Places(v), \A x \in S : Len(x.path) = n
    PROVE  \A y \in Below(S) : Len(y.path) = n + 1
<1>1. ASSUME NEW y \in Below(S) PROVE Len(y.path) = n + 1
  <2>1. PICK x \in S : y \in Inside(x)
    BY DEF Below
  <2>2. PICK k \in Keys(v) : y.path = Append(x.path, k)
    BY <2>1, KeyOfStep
  <2>3. x.path \in Seq(Keys(v)) /\ Len(x.path) = n
    BY PathsAreSequences
  <2>4. QED
    BY <2>2, <2>3
<1>2. QED
  BY <1>1

\* How deep the places of each level lie.
LEMMA LengthsOfLevels ==
    ASSUME NEW v
    PROVE  /\ \A z \in {Root(v)} : Len(z.path) = 0
           /\ \A z \in Level1(v) : Len(z.path) = 1
           /\ \A z \in Level2(v) : Len(z.path) = 2
           /\ \A z \in Level3(v) : Len(z.path) = 3
           /\ \A z \in Level4(v) : Len(z.path) = 4
           /\ \A z \in Level5(v) : Len(z.path) = 5
           /\ \A z \in Level6(v) : Len(z.path) = 6
<1>1. /\ {Root(v)} \subseteq Places(v) /\ Level1(v) \subseteq Places(v)
      /\ Level2(v) \subseteq Places(v) /\ Level3(v) \subseteq Places(v)
      /\ Level4(v) \subseteq Places(v) /\ Level5(v) \subseteq Places(v)
      /\ Level6(v) \subseteq Places(v)
  BY PlacesAreLevels
<1>2. \A z \in {Root(v)} : Len(z.path) = 0
  BY DEF Root
<1>3. \A z \in Level1(v) : Len(z.path) = 1
  BY <1>1, <1>2, LengthsBelow, 0 + 1 = 1 DEF Level1
<1>4. \A z \in Level2(v) : Len(z.path) = 2
  BY <1>1, <1>3, LengthsBelow, 1 + 1 = 2 DEF Level2
<1>5. \A z \in Level3(v) : Len(z.path) = 3
  BY <1>1, <1>4, LengthsBelow, 2 + 1 = 3 DEF Level3
<1>6. \A z \in Level4(v) : Len(z.path) = 4
  BY <1>1, <1>5, LengthsBelow, 3 + 1 = 4 DEF Level4
<1>7. \A z \in Level5(v) : Len(z.path) = 5
  BY <1>1, <1>6, LengthsBelow, 4 + 1 = 5 DEF Level5
<1>8. \A z \in Level6(v) : Len(z.path) = 6
  BY <1>1, <1>7, LengthsBelow, 5 + 1 = 6 DEF Level6
<1>9. QED
  BY <1>2, <1>3, <1>4, <1>5, <1>6, <1>7, <1>8

\* What is inside a place that is fewer than six steps down is a place as well.
LEMMA InsideOfShortPath ==
    ASSUME NEW v, NEW x \in Places(v), Len(x.path) < 6
    PROVE  Inside(x) \subseteq Places(v)
<1>1. x \in {Root(v)} \cup Level1(v) \cup Level2(v) \cup Level3(v) \cup Level4(v) \cup Level5(v)
  <2>1. \A z \in Level6(v) : Len(z.path) = 6
    BY LengthsOfLevels
  <2>2. x \notin Level6(v)
    <3>1. SUFFICES ASSUME x \in Level6(v) PROVE FALSE
      OBVIOUS
    <3>2. Len(x.path) = 6
      BY <2>1, <3>1
    <3>3. QED
      BY <3>2
  <2>3. QED
    BY <2>2, PlacesAreLevels
<1>2. Inside(x) \subseteq Level1(v) \cup Level2(v) \cup Level3(v) \cup Level4(v) \cup Level5(v) \cup Level6(v)
  BY <1>1 DEF Below, Level1, Level2, Level3, Level4, Level5, Level6
<1>3. QED
  BY <1>2, PlacesAreLevels

\* No path has more than six steps.
LEMMA PathsAreShort ==
    ASSUME NEW v
    PROVE  \A x \in Places(v) : Len(x.path) \in 0..6
BY LengthsOfLevels, PlacesAreLevels

-----------------------------------------------------------------------------
(* What the drift detection says of a payload. *)

\* What is joined is all there, and nothing else.
LEMMA JoinedIsAll ==
    ASSUME NEW found
    PROVE  /\ \A w \in found : /\ w.messages \subseteq Joined(found).messages
                               /\ w.unmapped \subseteq Joined(found).unmapped
           /\ \A u \in Joined(found).unmapped : \E w \in found : u \in w.unmapped
BY DEF Joined

\* Whatever a walk keeps is an unexpected field, and a message says so.
Announced(w) == \A u \in w.unmapped : Message("unexpected_field", u[1]) \in w.messages

\* What is put together of such findings is one of them.
LEMMA JoinedIsAnnounced ==
    ASSUME NEW found, \A w \in found : Announced(w)
    PROVE  Announced(Joined(found))
BY JoinedIsAll DEF Announced

\* A walk keeps the value of each field that its model does not know, says what is to
\* be said of each known field that has a value, and keeps nothing else; what it keeps
\* is announced if that of the known fields is.
WalksThrough(w, model, data, path, said) ==
    /\ \A f \in DOMAIN data.fields \ DOMAIN Contract[model] :
          <<Append(path, f), data.fields[f]>> \in w.unmapped
    /\ \A f \in DOMAIN Contract[model] : Get(data, f) # Null =>
          /\ said[f].messages \subseteq w.messages
          /\ said[f].unmapped \subseteq w.unmapped
    /\ \A u \in w.unmapped :
          \/ \E f \in DOMAIN data.fields \ DOMAIN Contract[model] :
                u = <<Append(path, f), data.fields[f]>>
          \/ \E f \in DOMAIN Contract[model] : Get(data, f) # Null /\ u \in said[f].unmapped
    /\ (\A f \in DOMAIN Contract[model] : Get(data, f) # Null => Announced(said[f]))
       => Announced(w)

\* The walk, as a function of what the known fields add.
WalkWith(model, data, path, said) ==
    LET extra == DOMAIN data.fields \ DOMAIN Contract[model]
        known == {f \in DOMAIN Contract[model] : Get(data, f) # Null}
        new == [messages |-> {Message("unexpected_field", Append(path, f)) : f \in extra},
                unmapped |-> {<<Append(path, f), data.fields[f]>> : f \in extra}]
    IN Joined({new} \cup {said[f] : f \in known})

\* It does so whatever they add.
LEMMA WalkWithWalksThrough ==
    ASSUME NEW model, NEW data, NEW path, NEW said
    PROVE  WalksThrough(WalkWith(model, data, path, said), model, data, path, said)
<1> DEFINE w == WalkWith(model, data, path, said)
           extra == DOMAIN data.fields \ DOMAIN Contract[model]
           known == {f \in DOMAIN Contract[model] : Get(data, f) # Null}
           kept == {<<Append(path, f), data.fields[f]>> : f \in extra}
           told == {Message("unexpected_field", Append(path, f)) : f \in extra}
           new == [messages |-> told, unmapped |-> kept]
           found == {new} \cup {said[f] : f \in known}
<1>1. w = Joined(found)
  BY DEF WalkWith
<1>0. \A u \in kept : Message("unexpected_field", u[1]) \in told
  <2>1. ASSUME NEW f \in extra
        PROVE  Message("unexpected_field", <<Append(path, f), data.fields[f]>>[1]) \in told
    <3>1. <<Append(path, f), data.fields[f]>>[1] = Append(path, f)
      OBVIOUS
    <3>2. Message("unexpected_field", Append(path, f)) \in told
      OBVIOUS
    <3> HIDE DEF told
    <3>3. QED
      BY <3>1, <3>2
  <2> HIDE DEF told
  <2>2. QED
    BY <2>1
<1>2. new \in found /\ new.unmapped = kept /\ new.messages = told
  OBVIOUS
<1>3. \A f \in known : said[f] \in found
  OBVIOUS
<1>4. \A x \in found : x = new \/ \E f \in known : x = said[f]
  OBVIOUS
<1>5. \A f \in extra : <<Append(path, f), data.fields[f]>> \in kept
  OBVIOUS
<1>6. \A u \in kept : \E f \in extra : u = <<Append(path, f), data.fields[f]>>
  OBVIOUS
<1> HIDE DEF kept, told, new, found, w
<1>7. kept \subseteq w.unmapped
  BY <1>1, <1>2, JoinedIsAll
<1>8. \A f \in known : said[f].messages \subseteq w.messages /\ said[f].unmapped \subseteq w.unmapped
  BY <1>1, <1>3, JoinedIsAll
<1>9. \A u \in w.unmapped : u \in kept \/ \E f \in known : u \in said[f].unmapped
  BY <1>1, <1>2, <1>4, JoinedIsAll
<1>10. (\A f \in known : Announced(said[f])) => Announced(w)
  <2>1. Announced(new)
    BY <1>0, <1>2 DEF Announced
  <2>2. QED
    BY <1>1, <1>4, <2>1, JoinedIsAnnounced
<1>11. WalksThrough(w, model, data, path, said)
  BY <1>5, <1>6, <1>7, <1>8, <1>9, <1>10 DEF WalksThrough
<1>12. QED
  BY <1>11 DEF w

\* So does the walk through a model of scalars.
LEMMA WalkOfScalars ==
    ASSUME NEW model, NEW data, NEW path
    PROVE  WalksThrough(Walk(model, data, path, ScalarDrift), model, data, path,
                        [f \in {f \in DOMAIN Contract[model] : Get(data, f) # Null} |->
                            ScalarDrift(Contract[model][f], Get(data, f), Append(path, f))])
<1> DEFINE known == {f \in DOMAIN Contract[model] : Get(data, f) # Null}
           said == [f \in known |-> ScalarDrift(Contract[model][f], Get(data, f), Append(path, f))]
<1>1. {said[f] : f \in known}
        = {ScalarDrift(Contract[model][f], Get(data, f), Append(path, f)) : f \in known}
  OBVIOUS
<1>2. Walk(model, data, path, ScalarDrift) = WalkWith(model, data, path, said)
  BY <1>1 DEF Walk, WalkWith
<1>3. QED
  BY <1>2, WalkWithWalksThrough

\* So does the walk through an item.
LEMMA WalkOfItem ==
    ASSUME NEW model, NEW data, NEW path
    PROVE  WalksThrough(Walk(model, data, path, GroupDrift), model, data, path,
                        [f \in {f \in DOMAIN Contract[model] : Get(data, f) # Null} |->
                            GroupDrift(Contract[model][f], Get(data, f), Append(path, f))])
<1> DEFINE known == {f \in DOMAIN Contract[model] : Get(data, f) # Null}
           said == [f \in known |-> GroupDrift(Contract[model][f], Get(data, f), Append(path, f))]
<1>1. {said[f] : f \in known}
        = {GroupDrift(Contract[model][f], Get(data, f), Append(path, f)) : f \in known}
  OBVIOUS
<1>2. Walk(model, data, path, GroupDrift) = WalkWith(model, data, path, said)
  BY <1>1 DEF Walk, WalkWith
<1>3. QED
  BY <1>2, WalkWithWalksThrough

\* So does the walk through the order.
LEMMA WalkOfOrder ==
    ASSUME NEW model, NEW data, NEW path
    PROVE  WalksThrough(Walk(model, data, path, FieldDrift), model, data, path,
                        [f \in {f \in DOMAIN Contract[model] : Get(data, f) # Null} |->
                            FieldDrift(Contract[model][f], Get(data, f), Append(path, f))])
<1> DEFINE known == {f \in DOMAIN Contract[model] : Get(data, f) # Null}
           said == [f \in known |-> FieldDrift(Contract[model][f], Get(data, f), Append(path, f))]
<1>1. {said[f] : f \in known}
        = {FieldDrift(Contract[model][f], Get(data, f), Append(path, f)) : f \in known}
  OBVIOUS
<1>2. Walk(model, data, path, FieldDrift) = WalkWith(model, data, path, said)
  BY <1>1 DEF Walk, WalkWith
<1>3. QED
  BY <1>2, WalkWithWalksThrough

\* A scalar leaves nothing behind.
LEMMA ScalarsAreMapped ==
    ASSUME NEW type, NEW v, NEW path
    PROVE  ScalarDrift(type, v, path).unmapped = {}
BY DEF ScalarDrift, Nothing, Said

\* What is found in a part is found in the whole.
Within(part, whole) ==
    part.messages \subseteq whole.messages /\ part.unmapped \subseteq whole.unmapped

\* The drift of an order: its own fields, its groups and its items.
LEMMA DriftOfOrder ==
    ASSUME NEW d, d.kind = "object"
    PROVE  /\ \A f \in DOMAIN d.fields \ DOMAIN OrderIN :
                 <<<<f>>, d.fields[f]>> \in Walked(d).unmapped
           /\ \A g \in DOMAIN Groups : Get(d, g) # Null =>
                 Within(GroupDrift(OrderIN[g], Get(d, g), <<g>>), Walked(d))
           /\ Get(d, "items") # Null =>
                 Within(ItemsDrift(Get(d, "items"), <<"items">>), Walked(d))
           /\ \A u \in Walked(d).unmapped :
                 \/ \E f \in DOMAIN d.fields \ DOMAIN OrderIN : u = <<<<f>>, d.fields[f]>>
                 \/ \E g \in DOMAIN Groups : /\ Get(d, g) # Null
                                             /\ u \in GroupDrift(OrderIN[g], Get(d, g), <<g>>).unmapped
                 \/ /\ Get(d, "items") # Null
                    /\ u \in ItemsDrift(Get(d, "items"), <<"items">>).unmapped
<1> DEFINE drift == Walked(d)
           known == {f \in DOMAIN OrderIN : Get(d, f) # Null}
           said == [f \in known |-> FieldDrift(OrderIN[f], Get(d, f), <<f>>)]
<1>0. Contract["OrderIN"] = OrderIN
  BY DeclarationsAgree
<1>1. \A f : Append(<< >>, f) = <<f>>
  OBVIOUS
<1>2. drift = Walk("OrderIN", d, << >>, FieldDrift)
  BY DEF Walked
<1>3. WalksThrough(drift, "OrderIN", d, << >>,
                   [f \in known |-> FieldDrift(OrderIN[f], Get(d, f), Append(<< >>, f))])
  BY <1>0, <1>2, WalkOfOrder
<1>4. [f \in known |-> FieldDrift(OrderIN[f], Get(d, f), Append(<< >>, f))] = said
  BY <1>1
<1>5. /\ \A f \in DOMAIN d.fields \ DOMAIN OrderIN : <<<<f>>, d.fields[f]>> \in drift.unmapped
      /\ \A f \in known : Within(said[f], drift)
      /\ \A u \in drift.unmapped :
            \/ \E f \in DOMAIN d.fields \ DOMAIN OrderIN : u = <<<<f>>, d.fields[f]>>
            \/ \E f \in known : u \in said[f].unmapped
  <2> HIDE DEF drift, said
  <2>1. WalksThrough(drift, "OrderIN", d, << >>, said)
    BY <1>3, <1>4
  <2>2. /\ \A f \in DOMAIN d.fields \ DOMAIN OrderIN :
              <<Append(<< >>, f), d.fields[f]>> \in drift.unmapped
        /\ \A f \in known : said[f].messages \subseteq drift.messages
                          /\ said[f].unmapped \subseteq drift.unmapped
        /\ \A u \in drift.unmapped :
              \/ \E f \in DOMAIN d.fields \ DOMAIN OrderIN :
                    u = <<Append(<< >>, f), d.fields[f]>>
              \/ \E f \in known : u \in said[f].unmapped
    BY <1>0, <2>1 DEF WalksThrough
  <2> HIDE DEF known
  <2>3. QED
    BY <1>1, <2>2 DEF Within
<1>6. \A f \in known : said[f] = FieldDrift(OrderIN[f], Get(d, f), <<f>>)
  OBVIOUS
<1>7. \A g \in DOMAIN Groups : g \in DOMAIN OrderIN
         /\ FieldDrift(OrderIN[g], Get(d, g), <<g>>) = GroupDrift(OrderIN[g], Get(d, g), <<g>>)
  BY DeclarationsAgree DEF FieldDrift
<1>8. "items" \in DOMAIN OrderIN
      /\ FieldDrift(OrderIN["items"], Get(d, "items"), <<"items">>) = ItemsDrift(Get(d, "items"), <<"items">>)
  BY DeclarationsAgree DEF FieldDrift, OrderIN
<1>9. ASSUME NEW f \in known PROVE f \in DOMAIN Groups \/ f = "items" \/ said[f].unmapped = {}
  <2>1. CASE OrderIN[f] \in Models
    BY <2>1, DeclarationsAgree
  <2>2. CASE OrderIN[f] = "list"
    BY <2>2 DEF OrderIN
  <2>3. CASE OrderIN[f] \notin Models \cup {"list"}
    BY <1>6, <2>3, ScalarsAreMapped DEF FieldDrift, GroupDrift
  <2>4. QED
    BY <2>1, <2>2, <2>3
<1> HIDE DEF drift, said
<1>10. QED
  BY <1>5, <1>6, <1>7, <1>8, <1>9 DEF drift

\* The drift of a group.
LEMMA DriftOfGroup ==
    ASSUME NEW type \in Models, NEW v, NEW path,
           \A f \in DOMAIN Contract[type] : Contract[type][f] \notin Models
    PROVE  /\ v.kind # "object" =>
                 /\ Message("non_object_group", path) \in GroupDrift(type, v, path).messages
                 /\ GroupDrift(type, v, path).unmapped = {}
           /\ v.kind = "object" =>
                 /\ \A h \in DOMAIN v.fields \ DOMAIN Contract[type] :
                       <<Append(path, h), v.fields[h]>> \in GroupDrift(type, v, path).unmapped
                 /\ \A u \in GroupDrift(type, v, path).unmapped :
                       \E h \in DOMAIN v.fields \ DOMAIN Contract[type] :
                          u = <<Append(path, h), v.fields[h]>>
<1>1. CASE v.kind # "object"
  BY <1>1 DEF GroupDrift, Said
<1>2. CASE v.kind = "object"
  <2> DEFINE drift == GroupDrift(type, v, path)
             known == {f \in DOMAIN Contract[type] : Get(v, f) # Null}
             said == [f \in known |-> ScalarDrift(Contract[type][f], Get(v, f), Append(path, f))]
  <2>1. drift = Walk(type, v, path, ScalarDrift)
    BY <1>2 DEF GroupDrift
  <2>2. WalksThrough(drift, type, v, path, said)
    BY <2>1, WalkOfScalars
  <2>3. \A f \in known : said[f].unmapped = {}
    BY ScalarsAreMapped
  <2> HIDE DEF drift, said
  <2>4. QED
    BY <1>2, <2>2, <2>3 DEF WalksThrough, drift
<1>3. QED
  BY <1>1, <1>2

\* The drift of the items.
LEMMA DriftOfItems ==
    ASSUME NEW v, NEW path
    PROVE  /\ v.kind # "array" =>
                 /\ Message("non_object_group", path) \in ItemsDrift(v, path).messages
                 /\ ItemsDrift(v, path).unmapped = {}
           /\ v.kind = "array" =>
                 /\ \A i \in DOMAIN v.elems :
                       Within(ItemDrift(v.elems[i], Append(path, Index(i))), ItemsDrift(v, path))
                 /\ \A u \in ItemsDrift(v, path).unmapped : \E i \in DOMAIN v.elems :
                       u \in ItemDrift(v.elems[i], Append(path, Index(i))).unmapped
<1>1. CASE v.kind # "array"
  BY <1>1 DEF ItemsDrift, Said
<1>2. CASE v.kind = "array"
  <2> DEFINE found == {ItemDrift(v.elems[i], Append(path, Index(i))) : i \in DOMAIN v.elems}
  <2>1. ItemsDrift(v, path) = Joined(found)
    BY <1>2 DEF ItemsDrift
  <2>2. \A i \in DOMAIN v.elems : ItemDrift(v.elems[i], Append(path, Index(i))) \in found
    OBVIOUS
  <2>3. \A w \in found : \E i \in DOMAIN v.elems : w = ItemDrift(v.elems[i], Append(path, Index(i)))
    OBVIOUS
  <2> HIDE DEF found
  <2>4. QED
    BY <1>2, <2>1, <2>2, <2>3, JoinedIsAll DEF Within
<1>3. QED
  BY <1>1, <1>2

\* The contract of an item: numbers and a product.
LEMMA ItemContract ==
    /\ DOMAIN Contract["OrderItemInfo"] = ItemNumbers \cup {"product"} /\ "product" \notin ItemNumbers
    /\ \A k \in ItemNumbers : /\ Contract["OrderItemInfo"][k] \in {"int", "float"}
                              /\ Contract["OrderItemInfo"][k] \notin Models
    /\ Contract["OrderItemInfo"]["product"] = "ProductInfo"
    /\ "ProductInfo" \in Models /\ "OrderItemInfo" \in Models
    /\ \A h \in DOMAIN Contract["ProductInfo"] : /\ Contract["ProductInfo"][h] = "str"
                                                 /\ Contract["ProductInfo"][h] \notin Models
BY DEF Contract, ItemNumbers, Models

\* The drift of an item that is an object: its fields, its numbers, its product.
LEMMA DriftOfItem ==
    ASSUME NEW item, item.kind = "object", NEW path
    PROVE  /\ \A k \in DOMAIN item.fields \ DOMAIN Contract["OrderItemInfo"] :
                 <<Append(path, k), item.fields[k]>> \in ItemDrift(item, path).unmapped
           /\ \A k \in ItemNumbers : Get(item, k).kind = "string" =>
                 Message("type_drift", Append(path, k)) \in ItemDrift(item, path).messages
           /\ Get(item, "product") # Null =>
                 Within(GroupDrift("ProductInfo", Get(item, "product"), Append(path, "product")),
                        ItemDrift(item, path))
           /\ \A u \in ItemDrift(item, path).unmapped :
                 \/ \E k \in DOMAIN item.fields \ DOMAIN Contract["OrderItemInfo"] :
                       u = <<Append(path, k), item.fields[k]>>
                 \/ /\ Get(item, "product") # Null
                    /\ u \in GroupDrift("ProductInfo", Get(item, "product"),
                                        Append(path, "product")).unmapped
<1> DEFINE drift == ItemDrift(item, path)
           known == {k \in DOMAIN Contract["OrderItemInfo"] : Get(item, k) # Null}
           said == [k \in known |-> GroupDrift(Contract["OrderItemInfo"][k], Get(item, k), Append(path, k))]
<1>1. WalksThrough(drift, "OrderItemInfo", item, path, said)
  BY WalkOfItem DEF ItemDrift
<1>2. \A k \in known : said[k] = GroupDrift(Contract["OrderItemInfo"][k], Get(item, k), Append(path, k))
  OBVIOUS
<1> HIDE DEF drift, said
<1>3. \A k \in ItemNumbers : GroupDrift(Contract["OrderItemInfo"][k], Get(item, k), Append(path, k))
                               = ScalarDrift(Contract["OrderItemInfo"][k], Get(item, k), Append(path, k))
  BY ItemContract DEF GroupDrift
<1>4. ASSUME NEW k \in ItemNumbers, Get(item, k).kind = "string"
      PROVE  k \in known /\ Message("type_drift", Append(path, k)) \in said[k].messages
  <2>1. k \in known
    BY <1>4, ItemContract DEF Null, Scalar
  <2>2. ~TypeCompatible(Kind(Contract["OrderItemInfo"][k]), "string")
    <3>1. CASE Contract["OrderItemInfo"][k] = "int"
      BY <3>1 DEF TypeCompatible, Kind
    <3>2. CASE Contract["OrderItemInfo"][k] = "float"
      BY <3>2 DEF TypeCompatible, Kind
    <3>3. QED
      BY <3>1, <3>2, ItemContract
  <2>3. ScalarDrift(Contract["OrderItemInfo"][k], Get(item, k), Append(path, k))
          = Said("type_drift", Append(path, k))
    BY <1>4, <2>2 DEF ScalarDrift
  <2>4. said[k] = Said("type_drift", Append(path, k))
    BY <1>2, <1>3, <2>1, <2>3
  <2>5. QED
    BY <2>1, <2>4 DEF Said
<1>5. \A k \in known : k = "product" \/ said[k].unmapped = {}
  BY <1>2, <1>3, ItemContract, ScalarsAreMapped
<1>6. QED
  BY <1>1, <1>2, <1>4, <1>5, ItemContract DEF WalksThrough, Within, drift

-----------------------------------------------------------------------------
(* Where the values of a payload land. *)

\* Every unexpected field of an order is announced.
LEMMA FoundIsAnnounced ==
    ASSUME NEW p
    PROVE  Announced(Walked(p))
<1>0. Announced(Nothing) /\ \A code, path : Announced(Said(code, path))
  BY DEF Announced, Nothing, Said
<1>1. ASSUME NEW type, NEW v, NEW path PROVE Announced(ScalarDrift(type, v, path))
  BY ScalarsAreMapped DEF Announced
<1>2. ASSUME NEW type, NEW v, NEW path PROVE Announced(GroupDrift(type, v, path))
  <2> DEFINE said == [f \in {f \in DOMAIN Contract[type] : Get(v, f) # Null} |->
                         ScalarDrift(Contract[type][f], Get(v, f), Append(path, f))]
  <2>1. \A f \in DOMAIN Contract[type] : Get(v, f) # Null => Announced(said[f])
    BY <1>1
  <2>2. WalksThrough(Walk(type, v, path, ScalarDrift), type, v, path, said)
    BY WalkOfScalars
  <2>3. Announced(Walk(type, v, path, ScalarDrift))
    <3> HIDE DEF said
    <3>1. QED
      BY <2>1, <2>2 DEF WalksThrough
  <2>4. QED
    BY <1>0, <1>1, <2>3 DEF GroupDrift
<1>3. ASSUME NEW v, NEW path PROVE Announced(ItemDrift(v, path))
  <2> DEFINE type == "OrderItemInfo"
             said == [f \in {f \in DOMAIN Contract[type] : Get(v, f) # Null} |->
                         GroupDrift(Contract[type][f], Get(v, f), Append(path, f))]
  <2>1. \A f \in DOMAIN Contract[type] : Get(v, f) # Null => Announced(said[f])
    BY <1>2
  <2>2. WalksThrough(Walk(type, v, path, GroupDrift), type, v, path, said)
    BY WalkOfItem
  <2>3. Announced(Walk(type, v, path, GroupDrift))
    <3> HIDE DEF said, type
    <3>1. QED
      BY <2>1, <2>2 DEF WalksThrough
  <2>4. QED
    BY <1>0, <2>3 DEF ItemDrift
<1>4. ASSUME NEW v, NEW path PROVE Announced(ItemsDrift(v, path))
  <2> DEFINE found == {ItemDrift(v.elems[i], Append(path, Index(i))) : i \in DOMAIN v.elems}
  <2>1. Announced(Joined(found))
    <3>1. \A w \in found : Announced(w)
      BY <1>3
    <3> HIDE DEF found
    <3>2. QED
      BY <3>1, JoinedIsAnnounced
  <2>2. QED
    BY <1>0, <2>1 DEF ItemsDrift
<1>5. ASSUME NEW type, NEW v, NEW path PROVE Announced(FieldDrift(type, v, path))
  BY <1>2, <1>4 DEF FieldDrift
<1>6. QED
  <2> DEFINE type == "OrderIN"
             said == [f \in {f \in DOMAIN Contract[type] : Get(p, f) # Null} |->
                         FieldDrift(Contract[type][f], Get(p, f), Append(<< >>, f))]
  <2>1. \A f \in DOMAIN Contract[type] : Get(p, f) # Null => Announced(said[f])
    BY <1>5
  <2>2. WalksThrough(Walk(type, p, << >>, FieldDrift), type, p, << >>, said)
    BY WalkOfOrder
  <2>3. Announced(Walk(type, p, << >>, FieldDrift))
    <3> HIDE DEF said, type
    <3>1. QED
      BY <2>1, <2>2 DEF WalksThrough
  <2>4. QED
    BY <1>0, <2>3 DEF Walked

\* What the drift detection looks at: the payload, with its items as the rules have
\* left them.
LEMMA CleanedPayload ==
    ASSUME NEW p, p.kind = "object"
    PROVE  /\ Cleaned(p).kind = "object"
           /\ DOMAIN Cleaned(p).fields = DOMAIN p.fields
           /\ \A f : f # "items" => /\ Get(Cleaned(p), f) = Get(p, f)
                                    /\ f \in DOMAIN p.fields => Cleaned(p).fields[f] = p.fields[f]
           /\ Get(Cleaned(p), "items") = SanitizedItems(Get(p, "items"))
<1>1. CASE Falsy(Get(p, "items"))
  BY <1>1 DEF Cleaned, SanitizedItems
<1>2. CASE ~Falsy(Get(p, "items"))
  <2>1. "items" \in DOMAIN p.fields
    <3>1. Falsy(Null)
      BY DEF Falsy, Null, Scalar
    <3>2. QED
      BY <1>2, <3>1 DEF Get
  <2>2. Get(p, "items") = p.fields["items"]
    BY <2>1 DEF Get
  <2>3. Cleaned(p) = Obj([p.fields EXCEPT !["items"] = SanitizedItems(Get(p, "items"))])
    BY <1>2, <2>2 DEF Cleaned
  <2>4. QED
    BY <2>1, <2>3 DEF Obj, Get
<1>3. QED
  BY <1>1, <1>2

\* The items that land are those of the payload, each without its numbers that are
\* not finite.
LEMMA LandedItemsOf ==
    ASSUME NEW items, Iterable(items)
    PROVE  /\ Falsy(items) => SanitizedItems(items) = items
           /\ ~Falsy(items) => /\ items.kind = "array" /\ SanitizedItems(items).kind = "array"
                               /\ DOMAIN SanitizedItems(items).elems = DOMAIN items.elems
           /\ items.kind = "array" => \A i \in DOMAIN items.elems :
                 /\ ~Falsy(items)
                 /\ items.elems[i].kind = "object"
                 /\ SanitizedItems(items).elems[i] = Sanitized(items.elems[i])
           /\ items.kind = "array" <=> SanitizedItems(items).kind = "array"
<1>1. Falsy(items) => SanitizedItems(items) = items
  BY DEF SanitizedItems
<1>2. ASSUME ~Falsy(items)
      PROVE  /\ items.kind = "array" /\ SanitizedItems(items).kind = "array"
             /\ DOMAIN SanitizedItems(items).elems = DOMAIN items.elems
             /\ \A i \in DOMAIN items.elems :
                   /\ items.elems[i].kind = "object"
                   /\ SanitizedItems(items).elems[i] = Sanitized(items.elems[i])
  BY <1>2 DEF SanitizedItems, Arr, Iterable
<1>3. ASSUME items.kind = "array", NEW i \in DOMAIN items.elems PROVE ~Falsy(items)
  BY <1>3 DEF Falsy
<1>4. QED
  BY <1>1, <1>2, <1>3

\* An item keeps its fields and their values, those numbers apart.
LEMMA SanitizedFields ==
    ASSUME NEW item
    PROVE  /\ Sanitized(item).kind = "object" /\ DOMAIN Sanitized(item).fields = DOMAIN item.fields
           /\ \A k \in DOMAIN item.fields :
                 Sanitized(item).fields[k] = IF k \in NotFinite(item) THEN Null ELSE item.fields[k]
           /\ \A k : Get(Sanitized(item), k) = IF k \in NotFinite(item) THEN Null ELSE Get(item, k)
BY DEF Sanitized, Obj, Get

\* A value that is read for a column is in the column, or there is a mark: it was a
\* sentinel, delivery_days was computed, or an error names the column.
LEMMA ValueOfColumn ==
    ASSUME NEW p, NEW c \in Columns, NEW on, NEW by
    PROVE  LET column == JudgedBy(p, on, by).row.columns[c]
               v == Read(p, c)
           IN \/ column = Coerced(ODSOrder[c], v)
              \/ c = "delivery_days" /\ column # None /\ column.form = "whole"
              \/ v.form = "blank" /\ c \in NormalizedStrFields /\ column = None
              \/ /\ column = None
                 /\ \E e \in JudgedBy(p, on, by).errors : e.field = c
<1> DEFINE v == Read(p, c)
           flat == FromNested(p)
           row == FormatClean(flat)
           column == BusinessClean(row).columns[c]
<1>1. JudgedBy(p, on, by).row = BusinessClean(row) /\ JudgedBy(p, on, by).errors = BusinessErrors(row, on, by)
  BY DEF JudgedBy
<1>2. flat.columns[c] = Coerced(ODSOrder[c], v)
  BY DEF FromNested
<1>3. \/ row.columns[c] = flat.columns[c]
      \/ c = "delivery_days" /\ row.columns[c] # None /\ row.columns[c].form = "whole"
      \/ c \in NormalizedStrFields /\ flat.columns[c].form = "blank" /\ row.columns[c] = None
  <2>1. CASE c \in NormalizedStrFields /\ flat.columns[c].form = "blank"
    <3>1. c # "delivery_days"
      BY <2>1 DEF NormalizedStrFields
    <3>2. row.columns[c] = None
      BY <2>1, <3>1 DEF FormatClean
    <3>3. QED
      BY <2>1, <3>2
  <2>2. CASE c = "delivery_days" /\ flat.columns["order_date"] # None /\ flat.columns["delivery_date"] # None
    <3>1. c \notin NormalizedStrFields
      BY <2>2 DEF NormalizedStrFields
    <3>2. row.columns[c] = Column("whole", flat.columns["delivery_date"].n - flat.columns["order_date"].n)
      BY <2>2, <3>1 DEF FormatClean
    <3>3. QED
      BY <2>2, <3>2 DEF Column, None
  <2>3. CASE /\ ~(c \in NormalizedStrFields /\ flat.columns[c].form = "blank")
             /\ ~(c = "delivery_days" /\ flat.columns["order_date"] # None
                  /\ flat.columns["delivery_date"] # None)
    BY <2>3 DEF FormatClean
  <2>4. QED
    BY <2>1, <2>2, <2>3
<1>4. ASSUME c \in NormalizedStrFields, flat.columns[c].form = "blank" PROVE v.form = "blank"
  <2>1. ODSOrder[c] = "str"
    BY <1>4 DEF NormalizedStrFields, ODSOrder
  <2>2. CASE v = Null
    BY <1>2, <1>4, <2>1, <2>2 DEF Coerced, None, Column
  <2>3. CASE v # Null
    BY <1>2, <1>4, <2>1, <2>3 DEF Coerced, Column
  <2>4. QED
    BY <2>2, <2>3
<1>5. CASE c \in {"tax_pct", "customer_rating"} /\ row.columns[c].form = "nonfinite"
  <2>1. column = None
    BY <1>5, CleanColumns
  <2>2. row.columns[c] # None
    BY <1>5 DEF None, Column
  <2>3. \A code, range : FloatErrors(row, c, code, range) = {Error("non_finite_number", c)}
    BY <1>5, <2>2 DEF FloatErrors
  <2>4. Error("non_finite_number", c) \in ColumnErrors(row, on, by)
    <3>1. \/ Error("non_finite_number", c) \in FloatErrors(row, "tax_pct", "tax_pct_out_of_range", 0..100)
          \/ Error("non_finite_number", c) \in
                FloatErrors(row, "customer_rating", "customer_rating_out_of_range", 1..5)
      BY <1>5, <2>3
    <3>2. QED
      BY <3>1 DEF ColumnErrors
  <2>5. Error("non_finite_number", c) \in BusinessErrors(row, on, by) /\ Error("non_finite_number", c).field = c
    BY <2>4 DEF BusinessErrors, Error
  <2>6. QED
    BY <1>1, <2>1, <2>5
<1>6. CASE ~(c \in {"tax_pct", "customer_rating"} /\ row.columns[c].form = "nonfinite")
  <2>1. column = row.columns[c]
    BY <1>6, CleanColumns
  <2> HIDE DEF row, flat
  <2>2. QED
    BY <1>1, <1>2, <1>3, <1>4, <2>1
<1>7. QED
  BY <1>5, <1>6

\* The short paths.
LEMMA ShortPaths ==
    /\ \A f : Append(<< >>, f) = <<f>> /\ Last(<<f>>) = f
    /\ \A g, h : Append(<<g>>, h) = <<g, h>> /\ Last(<<g, h>>) = h
    /\ \A f, i, k : Append(<<f, i>>, k) = <<f, i, k>> /\ Last(<<f, i, k>>) = k
    /\ \A f, i, k, h : Append(<<f, i, k>>, h) = <<f, i, k, h>>
<1>1. \A f : Append(<< >>, f) = <<f>>
  OBVIOUS
<1>2. ASSUME NEW g, NEW h
      PROVE  Append(<<g>>, h) = <<g, h>>
  <2>1. <<g>> \in Seq({g, h}) /\ <<g, h>> \in Seq({g, h})
    OBVIOUS
  <2>2. Append(<<g>>, h) \in Seq({g, h}) /\ Len(Append(<<g>>, h)) = Len(<<g, h>>)
    BY <2>1
  <2>3. \A j \in 1..Len(<<g, h>>) : Append(<<g>>, h)[j] = <<g, h>>[j]
    BY <2>1
  <2>4. QED
    BY <2>1, <2>2, <2>3, SeqEqual
<1>3. ASSUME NEW f, NEW i, NEW k
      PROVE  Append(<<f, i>>, k) = <<f, i, k>>
  <2>1. <<f, i>> \in Seq({f, i, k}) /\ <<f, i, k>> \in Seq({f, i, k})
    OBVIOUS
  <2>2. Append(<<f, i>>, k) \in Seq({f, i, k}) /\ Len(Append(<<f, i>>, k)) = Len(<<f, i, k>>)
    BY <2>1
  <2>3. \A j \in 1..Len(<<f, i, k>>) : Append(<<f, i>>, k)[j] = <<f, i, k>>[j]
    BY <2>1
  <2>4. QED
    BY <2>1, <2>2, <2>3, SeqEqual
<1>4. ASSUME NEW f, NEW i, NEW k, NEW h
      PROVE  Append(<<f, i, k>>, h) = <<f, i, k, h>>
  <2>1. <<f, i, k>> \in Seq({f, i, k, h}) /\ <<f, i, k, h>> \in Seq({f, i, k, h})
    OBVIOUS
  <2>2. Append(<<f, i, k>>, h) \in Seq({f, i, k, h}) /\ Len(Append(<<f, i, k>>, h)) = Len(<<f, i, k, h>>)
    BY <2>1
  <2>3. \A j \in 1..Len(<<f, i, k, h>>) : Append(<<f, i, k>>, h)[j] = <<f, i, k, h>>[j]
    BY <2>1
  <2>4. QED
    BY <2>1, <2>2, <2>3, SeqEqual
<1>5. \A f : Last(<<f>>) = f
  BY DEF Last
<1>6. \A g, h : Last(<<g, h>>) = h
  BY DEF Last
<1>7. \A f, i, k : Last(<<f, i, k>>) = k
  BY DEF Last
<1>8. QED
  BY <1>1, <1>2, <1>3, <1>4, <1>5, <1>6, <1>7

\* A column is read from the field of that name, at its path in the payload.
LEMMA PathOfColumn ==
    ASSUME NEW p, p.kind = "object"
    PROVE  /\ \A c \in OrderColumns : /\ Read(p, c) = Get(p, c)
                                      /\ IsColumn(<<c>>) /\ Last(<<c>>) = c
           /\ \A g \in DOMAIN Groups : \A c \in Groups[g] :
                 /\ Get(p, g).kind = "object" => Read(p, c) = Get(Get(p, g), c)
                 /\ Get(p, g).kind # "object" => Read(p, c) = Null
                 /\ IsColumn(<<g, c>>) /\ Last(<<g, c>>) = c
<1>1. ASSUME NEW c \in OrderColumns
      PROVE  Read(p, c) = Get(p, c) /\ IsColumn(<<c>>) /\ Last(<<c>>) = c
  BY ShortPaths DEF Read, IsColumn
<1>2. ASSUME NEW g \in DOMAIN Groups, NEW c \in Groups[g]
      PROVE  /\ Get(p, g).kind = "object" => Read(p, c) = Get(Get(p, g), c)
             /\ Get(p, g).kind # "object" => Read(p, c) = Null
             /\ IsColumn(<<g, c>>) /\ Last(<<g, c>>) = c
  <2>1. Read(p, c) = Get(AsDict(Get(p, g)), c)
    BY ReadOfGroup
  <2>2. Get(Obj(<< >>), c) = Null
    BY DEF Get, Obj
  <2>3. IsColumn(<<g, c>>) /\ Last(<<g, c>>) = c
    BY ShortPaths DEF IsColumn
  <2>4. QED
    BY <2>1, <2>2, <2>3 DEF AsDict
<1>3. QED
  BY <1>1, <1>2

\* What the property asks of a value.
Accounted(leaf) ==
    \/ InColumn(leaf) \/ InItemsOfRow(leaf)
    \/ InUnmapped(leaf.path) \/ Overwritten(leaf.path)
    \/ Drifted("non_object_group", leaf.path)
    \/ Reported(Last(leaf.path))
    \/ leaf.v.form = "blank" /\ Last(leaf.path) \in NormalizedStrFields

\* A value with the path of a column is accounted for.
LEMMA ColumnsAccounted ==
    ASSUME NEW p, p.kind = "object", built = JudgedBy(p, built.on, built.by),
           NEW c \in Columns, NEW y, IsColumn(y.path), Last(y.path) = c, y.v = Read(p, c)
    PROVE  Accounted(y)
<1>1. \/ built.row.columns[c] = Coerced(ODSOrder[c], y.v)
      \/ c = "delivery_days" /\ built.row.columns[c] # None
      \/ y.v.form = "blank" /\ c \in NormalizedStrFields
      \/ \E e \in built.errors : e.field = c
  BY ValueOfColumn
<1>2. QED
  BY <1>1 DEF Accounted, InColumn, Reported

\* What the walk through a payload finds; the row keeps of it what unmapped_fields
\* has a place for.
Found(p) == Walked(Cleaned(p))

\* A value is among the unexpected fields that are found, or something says that the group it belongs to is
\* not an object: at its place or above.
Unmapped(p, y) ==
    \E u \in Found(p).unmapped : u[1] \in Seq(Keys(p)) /\ Under(y.path, u[1])
NotAGroup(p, y) ==
    \E m \in Found(p).messages :
        m.code = "non_object_group" /\ m.path \in Seq(Keys(p)) /\ Under(y.path, m.path)

\* What is inside it is there with it.
LEMMA HandedDown ==
    ASSUME NEW p, NEW x \in Places(p), NEW y \in Inside(x)
    PROVE  /\ Unmapped(p, x) => Unmapped(p, y)
           /\ NotAGroup(p, x) => NotAGroup(p, y)
<1>1. PICK k \in Keys(p) : y.path = Append(x.path, k)
  BY KeyOfStep
<1>2. x.path \in Seq(Keys(p))
  BY PathsAreSequences
<1>3. \A t \in Seq(Keys(p)) : Under(x.path, t) => Under(y.path, t)
  BY <1>1, <1>2, UnderStep
<1>4. QED
  BY <1>3 DEF Unmapped, NotAGroup

\* A place that is in the drift itself.
LEMMA FoundThere ==
    ASSUME NEW p, NEW y \in Places(p)
    PROVE  /\ \A v : <<y.path, v>> \in Found(p).unmapped => Unmapped(p, y)
           /\ Message("non_object_group", y.path) \in Found(p).messages => NotAGroup(p, y)
<1>1. y.path \in Seq(Keys(p)) /\ Under(y.path, y.path)
  BY PathsAreSequences, UnderItself
<1>2. \A v : <<y.path, v>>[1] = y.path
  OBVIOUS
<1>3. Message("non_object_group", y.path).code = "non_object_group"
      /\ Message("non_object_group", y.path).path = y.path
  BY DEF Message
<1>4. QED
  BY <1>1, <1>2, <1>3 DEF Unmapped, NotAGroup

\* Where a place of the payload has gone: it is accounted for, or what is inside it is.
Traced(p, y) ==
    \/ y = Root(p)
    \/ Unmapped(p, y)
    \/ NotAGroup(p, y)
    \/ IsScalar(y.v) /\ (y.v = Null \/ Accounted(y))
    \/ \E g \in DOMAIN Groups : y.path = <<g>> /\ y.v = Get(p, g) /\ y.v.kind = "object"
    \/ y.path = <<"items">> /\ y.v = Get(p, "items") /\ y.v.kind = "array"
    \/ /\ Get(p, "items").kind = "array"
       /\ \E i \in DOMAIN Get(p, "items").elems :
             y.path = <<"items", Index(i)>> /\ y.v = Get(p, "items").elems[i]
    \/ y \in Places(LandedItems)

\* The fields of the order.
LEMMA TracedFromRoot ==
    ASSUME NEW p, Buildable(p), built = JudgedBy(p, built.on, built.by),
           NEW y \in Places(p), y \in Inside(Root(p))
    PROVE  Traced(p, y)
<1> DEFINE d == Cleaned(p)
<1>1. Found(p) = Walked(d)
  BY DEF Found
<1>2. p.kind = "object"
  BY DEF Buildable
<1>3. PICK f \in DOMAIN p.fields : y.path = <<f>> /\ y.v = Get(p, f)
  BY <1>2, InsideOf, ShortPaths DEF Root, Get
<1>4. d.kind = "object" /\ f \in DOMAIN d.fields
  BY <1>2, <1>3, CleanedPayload
<1>5. CASE f \notin DOMAIN OrderIN
  BY <1>1, <1>3, <1>4, <1>5, DriftOfOrder, FoundThere DEF Traced
<1>6. CASE f \in OrderColumns
  <2>1. Read(p, f) = y.v /\ IsColumn(y.path) /\ Last(y.path) = f /\ f \in Columns
    BY <1>2, <1>3, <1>6, PathOfColumn, ColumnsOfGroups
  <2>2. y.v = Null \/ IsScalar(y.v)
    BY <2>1 DEF Buildable, Flattens, IsScalar
  <2>3. Accounted(y)
    BY <1>2, <2>1, ColumnsAccounted
  <2>4. QED
    BY <2>2, <2>3 DEF Traced, IsScalar, Null, Scalar
<1>7. CASE f \in DOMAIN Groups
  <2>1. CASE y.v.kind = "object"
    BY <1>3, <1>7, <2>1 DEF Traced
  <2>2. CASE y.v = Null
    BY <2>2 DEF Traced, IsScalar, Null, Scalar
  <2>3. CASE y.v.kind # "object" /\ y.v # Null
    <3>1. Get(d, f) = y.v
      BY <1>2, <1>3, <1>7, CleanedPayload DEF Groups
    <3>2. Within(GroupDrift(OrderIN[f], Get(d, f), <<f>>), Found(p))
      BY <1>1, <1>4, <1>7, <2>3, <3>1, DriftOfOrder
    <3>3. Message("non_object_group", <<f>>) \in GroupDrift(OrderIN[f], Get(d, f), <<f>>).messages
      BY <1>7, <2>3, <3>1, DriftOfGroup, DeclarationsAgree
    <3>4. QED
      BY <1>3, <3>2, <3>3, FoundThere DEF Traced, Within
  <2>4. QED
    BY <2>1, <2>2, <2>3
<1>8. CASE f = "items"
  <2>0. Iterable(Get(p, "items"))
    BY DEF Buildable
  <2>1. CASE y.v.kind = "array"
    BY <1>3, <1>8, <2>1 DEF Traced
  <2>2. CASE y.v = Null
    BY <2>2 DEF Traced, IsScalar, Null, Scalar
  <2>3. CASE y.v.kind # "array" /\ y.v # Null
    <3>1. Get(d, "items") = y.v
      BY <1>2, <1>3, <1>8, <2>0, <2>3, CleanedPayload, LandedItemsOf
    <3>2. Within(ItemsDrift(Get(d, "items"), <<"items">>), Found(p))
      BY <1>1, <1>4, <2>3, <3>1, DriftOfOrder
    <3>3. Message("non_object_group", <<"items">>) \in ItemsDrift(Get(d, "items"), <<"items">>).messages
      BY <2>3, <3>1, DriftOfItems
    <3>4. QED
      BY <1>3, <1>8, <3>2, <3>3, FoundThere DEF Traced, Within
  <2>4. QED
    BY <2>1, <2>2, <2>3
<1>9. f \in DOMAIN OrderIN => f \in OrderColumns \/ f \in DOMAIN Groups \/ f = "items"
  BY DEF OrderIN, OrderColumns, Groups
<1>10. QED
  BY <1>5, <1>6, <1>7, <1>8, <1>9

\* The fields of a group.
LEMMA TracedFromGroup ==
    ASSUME NEW p, Buildable(p), built = JudgedBy(p, built.on, built.by),
           NEW g \in DOMAIN Groups, NEW x \in Places(p), x.path = <<g>>, x.v = Get(p, g),
           x.v.kind = "object", NEW y \in Places(p), y \in Inside(x)
    PROVE  Traced(p, y)
<1> DEFINE d == Cleaned(p)
<1>1. Found(p) = Walked(d)
  BY DEF Found
<1>2. p.kind = "object"
  BY DEF Buildable
<1>3. PICK h \in DOMAIN x.v.fields : y.path = <<g, h>> /\ y.v = x.v.fields[h] /\ y.v = Get(x.v, h)
  BY InsideOf, ShortPaths DEF Get
<1>4. CASE h \notin Groups[g]
  <2>1. Get(d, g) = x.v /\ Get(d, g) # Null
    BY <1>2, CleanedPayload DEF Groups, Null, Scalar
  <2>2. Within(GroupDrift(OrderIN[g], x.v, <<g>>), Found(p))
    BY <1>1, <1>2, <2>1, DriftOfOrder, CleanedPayload
  <2>3. <<Append(<<g>>, h), x.v.fields[h]>> \in GroupDrift(OrderIN[g], x.v, <<g>>).unmapped
    <3>1. /\ OrderIN[g] \in Models /\ Groups[g] = DOMAIN Contract[OrderIN[g]]
          /\ \A c \in DOMAIN Contract[OrderIN[g]] : Contract[OrderIN[g]][c] \notin Models
      BY DeclarationsAgree
    <3>2. \A c \in DOMAIN x.v.fields \ DOMAIN Contract[OrderIN[g]] :
            <<Append(<<g>>, c), x.v.fields[c]>> \in GroupDrift(OrderIN[g], x.v, <<g>>).unmapped
      BY <3>1, DriftOfGroup
    <3>3. QED
      BY <1>3, <1>4, <3>1, <3>2
  <2>4. <<y.path, y.v>> \in Found(p).unmapped
    BY <1>3, <2>2, <2>3, ShortPaths DEF Within
  <2>5. QED
    BY <2>4, FoundThere DEF Traced
<1>5. CASE h \in Groups[g]
  <2>1. Read(p, h) = y.v /\ IsColumn(y.path) /\ Last(y.path) = h /\ h \in Columns
    BY <1>2, <1>3, <1>5, PathOfColumn, ColumnsOfGroups
  <2>2. y.v = Null \/ IsScalar(y.v)
    BY <2>1 DEF Buildable, Flattens, IsScalar
  <2>3. Accounted(y)
    BY <1>2, <2>1, ColumnsAccounted
  <2>4. QED
    BY <2>2, <2>3 DEF Traced, IsScalar, Null, Scalar
<1>6. QED
  BY <1>4, <1>5

\* Fields and elements are inside.
LEMMA FieldsAndElements ==
    ASSUME NEW x
    PROVE  /\ x.v.kind = "object" => \A f \in DOMAIN x.v.fields :
                 [path |-> Append(x.path, f), v |-> x.v.fields[f]] \in Inside(x)
           /\ x.v.kind = "array" => \A i \in DOMAIN x.v.elems :
                 [path |-> Append(x.path, Index(i)), v |-> x.v.elems[i]] \in Inside(x)
<1>1. CASE x.v.kind = "object"
  BY <1>1 DEF Inside
<1>2. CASE x.v.kind = "array"
  BY <1>2 DEF Inside
<1>3. QED
  BY <1>1, <1>2

\* The items that land, with their fields, at the paths that they had in the payload.
LEMMA PlacesOfLandedItems ==
    ASSUME NEW items, Iterable(items), items.kind = "array", built.row.items = SanitizedItems(items),
           NEW i \in DOMAIN items.elems, NEW k \in DOMAIN items.elems[i].fields
    PROVE  [path |-> <<"items", Index(i), k>>, v |-> Sanitized(items.elems[i]).fields[k]]
             \in Places(LandedItems)
<1> DEFINE root == Root(LandedItems)
           one == [path |-> <<"items">>, v |-> SanitizedItems(items)]
           two == [path |-> <<"items", Index(i)>>, v |-> Sanitized(items.elems[i])]
           three == [path |-> <<"items", Index(i), k>>, v |-> Sanitized(items.elems[i]).fields[k]]
<1>1. root \in Places(LandedItems) /\ Len(root.path) = 0
  BY PlacesAreLevels DEF Root
<1>2. one \in Inside(root)
  <2>1. /\ root.v.kind = "object" /\ "items" \in DOMAIN root.v.fields
        /\ root.v.fields["items"] = SanitizedItems(items) /\ root.path = << >>
    BY DEF Root, LandedItems, Obj
  <2>2. QED
    BY <2>1, FieldsAndElements, ShortPaths
<1>3. one \in Places(LandedItems) /\ Len(one.path) = 1
  BY <1>1, <1>2, InsideOfShortPath
<1>4. /\ one.v.kind = "array" /\ DOMAIN one.v.elems = DOMAIN items.elems
      /\ one.v.elems[i] = Sanitized(items.elems[i])
  BY LandedItemsOf
<1>5. two \in Inside(one)
  BY <1>4, FieldsAndElements, ShortPaths
<1>6. two \in Places(LandedItems) /\ Len(two.path) = 2
  BY <1>3, <1>5, InsideOfShortPath
<1>7. two.v.kind = "object" /\ k \in DOMAIN two.v.fields
  BY SanitizedFields
<1>8. three \in Inside(two)
  BY <1>7, FieldsAndElements, ShortPaths
<1>9. Inside(two) \subseteq Places(LandedItems)
  <2>1. Len(two.path) < 6
    BY <1>6
  <2> HIDE DEF two
  <2>2. QED
    BY <1>6, <2>1, InsideOfShortPath
<1>10. QED
  BY <1>8, <1>9

\* What is inside what has landed has landed.
LEMMA TracedFromLanded ==
    ASSUME NEW p, NEW x \in Places(LandedItems), NEW y \in Places(p), y \in Inside(x)
    PROVE  y \in Places(LandedItems)
<1>1. PICK k \in Keys(LandedItems) : y.path = Append(x.path, k)
  BY KeyOfStep
<1>2. x.path \in Seq(Keys(LandedItems)) /\ Len(x.path) \in 0..6
  BY PathsAreSequences, PathsAreShort
<1>3. Len(y.path) = Len(x.path) + 1
  BY <1>1, <1>2
<1>4. Len(y.path) \in 0..6
  BY PathsAreShort
<1>5. Len(x.path) < 6
  BY <1>2, <1>3, <1>4
<1>6. QED
  BY <1>5, InsideOfShortPath

\* The fields of an item: a number that is not finite is an error, the rest lands.
LEMMA TracedFromItem ==
    ASSUME NEW p, Buildable(p), built = JudgedBy(p, built.on, built.by),
           NEW items, items = Get(p, "items"), items.kind = "array", NEW i \in DOMAIN items.elems,
           NEW x \in Places(p), x.path = <<"items", Index(i)>>, x.v = items.elems[i],
           NEW y \in Places(p), y \in Inside(x)
    PROVE  Traced(p, y)
<1>1. /\ Iterable(items) /\ ~Falsy(items) /\ x.v.kind = "object"
  BY LandedItemsOf DEF Buildable
<1>2. PICK k \in DOMAIN x.v.fields :
         y = [path |-> <<"items", Index(i), k>>, v |-> x.v.fields[k]]
  <2>1. PICK k \in DOMAIN x.v.fields : /\ y.path = Append(<<"items", Index(i)>>, k)
                                       /\ y.v = x.v.fields[k]
                                       /\ y = [path |-> y.path, v |-> y.v]
    BY <1>1, InsideOf
  <2>2. y.path = <<"items", Index(i), k>>
    BY <2>1, ShortPaths
  <2>3. QED
    BY <2>1, <2>2
<1>3. /\ built.row.items = SanitizedItems(items)
      /\ built.errors = BusinessErrors(FormatClean(FromNested(p)), built.on, built.by)
      /\ FormatClean(FromNested(p)).items = items
  <2>1. FormatClean(FromNested(p)).items = items
    BY DEF FormatClean, FromNested
  <2>2. JudgedBy(p, built.on, built.by).row = BusinessClean(FormatClean(FromNested(p)))
        /\ JudgedBy(p, built.on, built.by).errors
             = BusinessErrors(FormatClean(FromNested(p)), built.on, built.by)
    BY DEF JudgedBy
  <2>3. BusinessClean(FormatClean(FromNested(p))).items = SanitizedItems(items)
    BY <2>1 DEF BusinessClean
  <2>4. QED
    BY <2>1, <2>2, <2>3
<1>4. CASE k \in NotFinite(x.v)
  <2>1. Error("non_finite_number", k) \in ItemErrors(items.elems[i])
    BY <1>4 DEF ItemErrors
  <2>2. Error("non_finite_number", k) \in built.errors
    BY <1>1, <1>3, <2>1 DEF BusinessErrors
  <2>3. IsScalar(y.v)
    BY <1>2, <1>4 DEF NotFinite, IsNumber, Get, IsScalar
  <2>4. Reported(k) /\ Last(y.path) = k
    BY <1>2, <2>2, ShortPaths DEF Reported, Error
  <2>5. QED
    BY <2>3, <2>4 DEF Traced, Accounted
<1>5. CASE k \notin NotFinite(x.v)
  <2>1. Sanitized(x.v).fields[k] = x.v.fields[k]
    BY <1>5, SanitizedFields
  <2>2. y \in Places(LandedItems)
    BY <1>1, <1>2, <1>3, <2>1, PlacesOfLandedItems
  <2>3. QED
    BY <2>2 DEF Traced
<1>6. QED
  BY <1>4, <1>5

\* Every place of a payload that has been judged is traced.
LEMMA AllIsTraced ==
    ASSUME NEW p, Buildable(p), built = JudgedBy(p, built.on, built.by)
    PROVE  \A y \in Places(p) : Traced(p, y)
<1> DEFINE T == {y \in Places(p) : Traced(p, y)}
           items == Get(p, "items")
<1>1. Root(p) \in T
  BY PlacesAreLevels DEF Traced
<1>2. ASSUME NEW x \in T \cap Places(p), NEW y \in Inside(x) \cap Places(p)
      PROVE  y \in T
  <2>0. x \in Places(p) /\ Traced(p, x) /\ y \in Places(p) /\ y \in Inside(x)
    BY <1>2
  <2>1. CASE x = Root(p)
    BY <2>0, <2>1, TracedFromRoot
  <2>2. CASE Unmapped(p, x) \/ NotAGroup(p, x)
    BY <2>0, <2>2, HandedDown DEF Traced
  <2>3. CASE IsScalar(x.v)
    BY <2>0, <2>3, InsideOf DEF IsScalar
  <2>4. CASE \E g \in DOMAIN Groups : x.path = <<g>> /\ x.v = Get(p, g) /\ x.v.kind = "object"
    BY <2>0, <2>4, TracedFromGroup
  <2>5. CASE x.path = <<"items">> /\ x.v = items /\ x.v.kind = "array"
    <3>1. PICK i \in DOMAIN items.elems : y.path = Append(<<"items">>, Index(i)) /\ y.v = items.elems[i]
      BY <2>0, <2>5, InsideOf
    <3>2. y.path = <<"items", Index(i)>>
      BY <3>1, ShortPaths
    <3>3. QED
      BY <2>0, <2>5, <3>1, <3>2 DEF Traced
  <2>6. CASE /\ items.kind = "array"
             /\ \E i \in DOMAIN items.elems : x.path = <<"items", Index(i)>> /\ x.v = items.elems[i]
    BY <2>0, <2>6, TracedFromItem
  <2>7. CASE x \in Places(LandedItems)
    BY <2>0, <2>7, TracedFromLanded DEF Traced
  <2>8. QED
    BY <2>0, <2>1, <2>2, <2>3, <2>4, <2>5, <2>6, <2>7 DEF Traced
<1>3. Places(p) \subseteq T
  <2> HIDE DEF T
  <2>1. QED
    BY <1>1, <1>2, PlacesInduction
<1>4. QED
  BY <1>3

\* What is found is in the row, but for the values that were overwritten.
LEMMA FoundIsReported ==
    ASSUME NEW p, built = JudgedBy(p, built.on, built.by)
    PROVE  /\ built.drift.messages = Found(p).messages
           /\ built.drift.unmapped = Kept(Found(p).unmapped)
<1>1. JudgedBy(p, built.on, built.by).drift = DetectSchemaDrift(Cleaned(p))
  BY DEF JudgedBy
<1>2. QED
  BY <1>1 DEF DetectSchemaDrift, Found

\* An unexpected field that is not in unmapped_fields has been overwritten.
LEMMA KeptOrOverwritten ==
    ASSUME NEW p, built = JudgedBy(p, built.on, built.by), NEW y, Unmapped(p, y)
    PROVE  InUnmapped(y.path) \/ Overwritten(y.path)
<1>1. PICK u \in Found(p).unmapped : Under(y.path, u[1])
  BY DEF Unmapped
<1>2. CASE u \in Kept(Found(p).unmapped)
  BY <1>1, <1>2, FoundIsReported DEF InUnmapped
<1>3. CASE u \notin Kept(Found(p).unmapped)
  <2>1. PICK w \in Found(p).unmapped : Spelled(w[1]) = Spelled(u[1]) /\ Len(w[1]) > Len(u[1])
    BY <1>3 DEF Kept
  <2> DEFINE m == Message("unexpected_field", u[1])
             n == Message("unexpected_field", w[1])
  <2>2. m \in built.drift.messages /\ n \in built.drift.messages
    BY FoundIsAnnounced, FoundIsReported DEF Announced, Found
  <2>3. /\ m.code = "unexpected_field" /\ m.path = u[1]
        /\ n.code = "unexpected_field" /\ n.path = w[1]
    BY DEF Message
  <2> HIDE DEF m, n
  <2>4. QED
    BY <1>1, <2>1, <2>2, <2>3 DEF Overwritten
<1>4. QED
  BY <1>2, <1>3

\* No value of a landed order disappears silently, whatever the payload looks like: it
\* is in its column, in items or in unmapped_fields, or something says that it is not,
\* unless it is an unexpected field and a deeper one is spelled alike.
THEOREM NothingIsEverLost == Spec => []NothingIsLost
<1>1. ASSUME Reached, phase = "stored", NEW leaf \in Leaves(Payload)
      PROVE  Accounted(leaf)
  <2>1. /\ Buildable(Payload) /\ built = JudgedBy(Payload, built.on, built.by)
        /\ Iterable(Get(Payload, "items")) /\ Payload.kind = "object"
    BY <1>1 DEF Reached, Buildable
  <2>2. leaf \in Places(Payload) /\ IsScalar(leaf.v) /\ leaf.v # Null
    BY DEF Leaves
  <2>3. Traced(Payload, leaf)
    BY <2>1, <2>2, AllIsTraced
  <2>4. leaf # Root(Payload)
    BY <2>1, <2>2 DEF Root, IsScalar
  <2>5. Unmapped(Payload, leaf) => InUnmapped(leaf.path) \/ Overwritten(leaf.path)
    BY <2>1, KeptOrOverwritten
  <2>6. NotAGroup(Payload, leaf) => Drifted("non_object_group", leaf.path)
    BY <2>1, FoundIsReported DEF NotAGroup, Drifted
  <2>7. leaf \in Places(LandedItems) => InItemsOfRow(leaf)
    BY <2>2 DEF InItemsOfRow, Leaves
  <2>8. Get(Payload, "items").kind = "array" =>
           \A i \in DOMAIN Get(Payload, "items").elems : leaf.v # Get(Payload, "items").elems[i]
    BY <2>1, <2>2, LandedItemsOf DEF IsScalar
  <2>9. QED
    BY <2>2, <2>3, <2>4, <2>5, <2>6, <2>7, <2>8 DEF Traced, Accounted, IsScalar
<1>2. Reached => NothingIsLost
  BY <1>1 DEF NothingIsLost, Accounted
<1>3. QED
  BY <1>2, ReachedIsInvariant, PTL

-----------------------------------------------------------------------------
(* The numbers that the warehouse reads. *)

\* A place of the items that land: the items, an item, a field of an item, or deeper.
LandedAt(items, y) ==
    \/ y = Root(LandedItems)
    \/ y.path = <<"items">> /\ y.v = SanitizedItems(items)
    \/ /\ items.kind = "array"
       /\ \E i \in DOMAIN items.elems :
             y.path = <<"items", Index(i)>> /\ y.v = Sanitized(items.elems[i])
    \/ /\ items.kind = "array"
       /\ \E i \in DOMAIN items.elems : \E k \in DOMAIN items.elems[i].fields :
             /\ y.path = <<"items", Index(i), k>>
             /\ y.v = Sanitized(items.elems[i]).fields[k]
    \/ Len(y.path) > 3

\* There is nothing else.
LEMMA AllIsLandedAt ==
    ASSUME NEW items, Iterable(items), built.row.items = SanitizedItems(items)
    PROVE  \A y \in Places(LandedItems) : LandedAt(items, y)
<1> DEFINE T == {y \in Places(LandedItems) : LandedAt(items, y)}
<1>1. Root(LandedItems) \in T
  BY PlacesAreLevels DEF LandedAt
<1>2. ASSUME NEW x \in T \cap Places(LandedItems), NEW y \in Inside(x) \cap Places(LandedItems)
      PROVE  y \in T
  <2>0. /\ x \in Places(LandedItems) /\ LandedAt(items, x)
        /\ y \in Places(LandedItems) /\ y \in Inside(x)
    BY <1>2
  <2>1. CASE x = Root(LandedItems)
    <3>1. /\ x.v.kind = "object" /\ DOMAIN x.v.fields = {"items"} /\ x.path = << >>
          /\ x.v.fields["items"] = SanitizedItems(items)
      BY <2>1 DEF Root, LandedItems, Obj
    <3>2. y.path = Append(<< >>, "items") /\ y.v = SanitizedItems(items)
      BY <2>0, <3>1, InsideOf
    <3>3. y.path = <<"items">>
      BY <3>2, ShortPaths
    <3>4. QED
      BY <2>0, <3>2, <3>3 DEF LandedAt
  <2>2. CASE x.path = <<"items">> /\ x.v = SanitizedItems(items)
    <3>1. x.v.kind = "object" => DOMAIN x.v.fields = {}
      BY <2>2, LandedItemsOf DEF Falsy
    <3>2. x.v.kind = "array" /\ items.kind = "array"
      BY <2>0, <2>2, <3>1, InsideOf, LandedItemsOf
    <3>3. PICK i \in DOMAIN x.v.elems : y.path = Append(<<"items">>, Index(i)) /\ y.v = x.v.elems[i]
      <4>1. x.v.kind # "object"
        BY <3>2
      <4>2. \E i \in DOMAIN x.v.elems : y.path = Append(x.path, Index(i)) /\ y.v = x.v.elems[i]
        BY <2>0, <4>1, InsideOf
      <4>3. QED
        BY <2>2, <4>2
    <3>4. i \in DOMAIN items.elems /\ x.v.elems[i] = Sanitized(items.elems[i])
      BY <2>2, <3>2, <3>3, LandedItemsOf
    <3>5. y.path = <<"items", Index(i)>>
      BY <3>3, ShortPaths
    <3>6. QED
      BY <2>0, <3>2, <3>3, <3>4, <3>5 DEF LandedAt
  <2>3. CASE /\ items.kind = "array"
             /\ \E i \in DOMAIN items.elems :
                   x.path = <<"items", Index(i)>> /\ x.v = Sanitized(items.elems[i])
    <3>1. PICK i \in DOMAIN items.elems : x.path = <<"items", Index(i)>> /\ x.v = Sanitized(items.elems[i])
      BY <2>3
    <3>2. x.v.kind = "object" /\ DOMAIN x.v.fields = DOMAIN items.elems[i].fields
      BY <3>1, SanitizedFields
    <3>3. PICK k \in DOMAIN items.elems[i].fields :
             y.path = Append(<<"items", Index(i)>>, k) /\ y.v = Sanitized(items.elems[i]).fields[k]
      BY <2>0, <3>1, <3>2, InsideOf
    <3>4. y.path = <<"items", Index(i), k>>
      BY <3>3, ShortPaths
    <3>5. QED
      BY <2>0, <2>3, <3>3, <3>4 DEF LandedAt
  <2>4. CASE Len(x.path) >= 3
    <3>1. PICK k \in Keys(LandedItems) : y.path = Append(x.path, k)
      BY <2>0, KeyOfStep
    <3>2. x.path \in Seq(Keys(LandedItems)) /\ Len(x.path) \in Nat
      BY <2>0, PathsAreSequences
    <3>3. Len(y.path) = Len(x.path) + 1
      BY <3>1, <3>2
    <3>4. Len(y.path) > 3
      BY <2>4, <3>2, <3>3
    <3>5. QED
      BY <2>0, <3>4 DEF LandedAt
  <2>5. Len(x.path) > 3 => Len(x.path) >= 3
    <3>1. Len(x.path) \in 0..6
      BY <2>0, PathsAreShort
    <3>2. QED
      BY <3>1
  <2>6. \A f, i, k : x.path = <<f, i, k>> => Len(x.path) >= 3
    OBVIOUS
  <2>7. QED
    BY <2>0, <2>1, <2>2, <2>3, <2>4, <2>5, <2>6 DEF LandedAt
<1>3. Places(LandedItems) \subseteq T
  <2> HIDE DEF T
  <2>1. QED
    BY <1>1, <1>2, PlacesInduction
<1>4. QED
  BY <1>3

\* The fields of the items are places of the payload.
LEMMA PlacesOfItems ==
    ASSUME NEW p, p.kind = "object", NEW items, items = Get(p, "items"), items.kind = "array",
           NEW i \in DOMAIN items.elems, items.elems[i].kind = "object"
    PROVE  /\ [path |-> <<"items">>, v |-> items] \in Places(p)
           /\ [path |-> <<"items", Index(i)>>, v |-> items.elems[i]] \in Places(p)
           /\ \A k \in DOMAIN items.elems[i].fields :
                 [path |-> <<"items", Index(i), k>>, v |-> items.elems[i].fields[k]] \in Places(p)
<1> DEFINE root == Root(p)
           one == [path |-> <<"items">>, v |-> items]
           two == [path |-> <<"items", Index(i)>>, v |-> items.elems[i]]
           three(k) == [path |-> <<"items", Index(i), k>>, v |-> items.elems[i].fields[k]]
<1>1. root \in Places(p) /\ Len(root.path) < 6 /\ root.path = << >> /\ root.v = p
  BY PlacesAreLevels DEF Root
<1>2. "items" \in DOMAIN p.fields /\ p.fields["items"] = items
  BY DEF Get, Null, Scalar
<1>3. one \in Inside(root)
  BY <1>1, <1>2, FieldsAndElements, ShortPaths
<1>4. one \in Places(p) /\ Len(one.path) < 6
  BY <1>1, <1>3, InsideOfShortPath
<1>5. two \in Inside(one)
  BY FieldsAndElements, ShortPaths
<1>6. Inside(one) \subseteq Places(p)
  <2> HIDE DEF one
  <2>1. QED
    BY <1>4, InsideOfShortPath
<1>7. two \in Places(p) /\ Len(two.path) < 6
  BY <1>5, <1>6
<1>8. \A k \in DOMAIN items.elems[i].fields : three(k) \in Inside(two)
  BY FieldsAndElements, ShortPaths
<1>9. Inside(two) \subseteq Places(p)
  <2> HIDE DEF two
  <2>1. QED
    BY <1>7, InsideOfShortPath
<1>10. QED
  BY <1>4, <1>7, <1>8, <1>9

\* A number of an item that is out of its range is an error.
LEMMA RangesReported ==
    ASSUME NEW item, NEW f, IsNumber(Get(item, f)), Get(item, f).form # "nonfinite",
           OutOfRange(f, Get(item, f).n)
    PROVE  \E e \in ItemErrors(item) : e.field = f
<1>1. CASE f = "quantity"
  <2>1. Error("quantity_non_positive", f) \in ItemRanges(item)
    BY <1>1 DEF ItemRanges, OutOfRange, Error
  <2>2. QED
    BY <2>1 DEF ItemErrors, Error
<1>2. CASE f = "unit_price"
  <2>1. Error("unit_price_negative", f) \in ItemRanges(item)
    BY <1>2 DEF ItemRanges, OutOfRange, Error
  <2>2. QED
    BY <2>1 DEF ItemErrors, Error
<1>3. CASE f = "discount_pct"
  <2>1. Error("discount_pct_out_of_range", f) \in ItemRanges(item)
    BY <1>3 DEF ItemRanges, OutOfRange, Error
  <2>2. QED
    BY <2>1 DEF ItemErrors, Error
<1>4. f \in {"quantity", "unit_price", "discount_pct"}
  BY DEF OutOfRange
<1>5. QED
  BY <1>1, <1>2, <1>3, <1>4

\* What the build makes of the parts of a payload.
LEMMA PartsOfJudgement ==
    ASSUME NEW p, Buildable(p), built = JudgedBy(p, built.on, built.by)
    PROVE  /\ p.kind = "object" /\ Iterable(Get(p, "items"))
           /\ built.row.items = SanitizedItems(Get(p, "items"))
           /\ Found(p) = Walked(Cleaned(p))
           /\ ~Falsy(Get(p, "items")) => \A i \in DOMAIN Get(p, "items").elems :
                 ItemErrors(Get(p, "items").elems[i]) \subseteq built.errors
<1> DEFINE row == FormatClean(FromNested(p))
           items == Get(p, "items")
<1>1. row.items = items
  BY DEF FormatClean, FromNested
<1>2. /\ JudgedBy(p, built.on, built.by).row = BusinessClean(row)
      /\ JudgedBy(p, built.on, built.by).errors = BusinessErrors(row, built.on, built.by)
  BY DEF JudgedBy
<1>3. BusinessClean(row).items = SanitizedItems(items)
  BY <1>1 DEF BusinessClean
<1>4. ~Falsy(items) => \A i \in DOMAIN items.elems :
         ItemErrors(items.elems[i]) \subseteq BusinessErrors(row, built.on, built.by)
  BY <1>1 DEF BusinessErrors
<1>5. QED
  BY <1>2, <1>3, <1>4 DEF Buildable, Found

\* The drift of an item is part of the drift of the order.
LEMMA DriftOfItemIsThere ==
    ASSUME NEW p, Buildable(p), built = JudgedBy(p, built.on, built.by),
           NEW items, items = Get(p, "items"), items.kind = "array", NEW i \in DOMAIN items.elems
    PROVE  Within(ItemDrift(Sanitized(items.elems[i]), <<"items", Index(i)>>), Found(p))
<1> DEFINE item == items.elems[i]
           landed == SanitizedItems(items)
<1>1. /\ p.kind = "object" /\ Iterable(items) /\ Found(p) = Walked(Cleaned(p))
  BY PartsOfJudgement
<1>2. /\ landed.kind = "array" /\ i \in DOMAIN landed.elems /\ landed.elems[i] = Sanitized(item)
  BY <1>1, LandedItemsOf
<1>3. Cleaned(p).kind = "object" /\ Get(Cleaned(p), "items") = landed
  BY <1>1, CleanedPayload
<1>4. Within(ItemsDrift(landed, <<"items">>), Found(p))
  <2>1. landed # Null
    BY <1>2 DEF Null, Scalar
  <2>2. QED
    BY <1>1, <1>3, <2>1, DriftOfOrder
<1>5. Within(ItemDrift(Sanitized(item), <<"items", Index(i)>>), ItemsDrift(landed, <<"items">>))
  <2>1. Within(ItemDrift(landed.elems[i], Append(<<"items">>, Index(i))), ItemsDrift(landed, <<"items">>))
    BY <1>2, DriftOfItems
  <2>2. QED
    BY <1>2, <2>1, ShortPaths
<1>6. QED
  BY <1>4, <1>5 DEF Within

\* A string where an item should have a number is a drift.
LEMMA StringsDrift ==
    ASSUME NEW p, Buildable(p), built = JudgedBy(p, built.on, built.by),
           NEW items, items = Get(p, "items"), items.kind = "array",
           NEW i \in DOMAIN items.elems, NEW k \in ItemNumbers,
           Get(items.elems[i], k).kind = "string"
    PROVE  Message("type_drift", <<"items", Index(i), k>>) \in Found(p).messages
<1> DEFINE item == items.elems[i]
<1>1. Within(ItemDrift(Sanitized(item), <<"items", Index(i)>>), Found(p))
  BY DriftOfItemIsThere
<1>2. k \notin NotFinite(item)
  BY DEF NotFinite, IsNumber
<1>3. Sanitized(item).kind = "object" /\ Get(Sanitized(item), k).kind = "string"
  BY <1>2, SanitizedFields
<1>4. Message("type_drift", Append(<<"items", Index(i)>>, k))
         \in ItemDrift(Sanitized(item), <<"items", Index(i)>>).messages
  BY <1>3, DriftOfItem
<1>5. QED
  BY <1>1, <1>4, ShortPaths DEF Within

\* No number out of its range is read by the warehouse without a mark on its row.
THEOREM EveryBadNumberIsAlwaysMarked == Spec => []EveryBadNumberIsMarked
<1>1. ASSUME Reached, phase = "stored", NEW leaf \in Leaves(LandedItems), Len(leaf.path) = 3,
             SqlReads(leaf.v), OutOfRange(Last(leaf.path), leaf.v.n)
      PROVE  \/ Reported(Last(leaf.path))
             \/ leaf.v.kind = "string" /\ Drifted("type_drift", leaf.path)
  <2> DEFINE p == Payload
             items == Get(Payload, "items")
  <2>1. /\ Buildable(p) /\ built = JudgedBy(p, built.on, built.by) /\ p.kind = "object"
        /\ Iterable(items) /\ built.row.items = SanitizedItems(items) /\ IsJson(p)
    BY <1>1, PartsOfJudgement, JudgingAssumption DEF Reached, Payload
  <2>2. leaf \in Places(LandedItems) /\ IsScalar(leaf.v) /\ leaf.v # Null
    BY DEF Leaves
  <2>3. LandedAt(items, leaf)
    BY <2>1, <2>2, AllIsLandedAt
  <2>4. /\ leaf # Root(LandedItems) /\ leaf.path # <<"items">>
        /\ \A j : leaf.path # <<"items", Index(j)>>
        /\ ~(Len(leaf.path) > 3)
    <3>1. Len(Root(LandedItems).path) = 0 /\ Len(<<"items">>) = 1
      BY DEF Root
    <3>2. \A j : Len(<<"items", Index(j)>>) = 2
      OBVIOUS
    <3>3. QED
      BY <1>1, <3>1, <3>2
  <2>5. PICK i \in DOMAIN items.elems : /\ items.kind = "array"
                                       /\ \E k \in DOMAIN items.elems[i].fields :
                                             /\ leaf.path = <<"items", Index(i), k>>
                                             /\ leaf.v = Sanitized(items.elems[i]).fields[k]
    BY <2>3, <2>4 DEF LandedAt
  <2> DEFINE item == items.elems[i]
  <2>6. /\ ~Falsy(items) /\ item.kind = "object"
    BY <2>1, <2>5, LandedItemsOf
  <2> PICK k \in DOMAIN item.fields : /\ leaf.path = <<"items", Index(i), k>>
                                     /\ leaf.v = Sanitized(item).fields[k]
    BY <2>5
  <2>7. k \notin NotFinite(item) /\ leaf.v = item.fields[k] /\ leaf.v = Get(item, k)
    <3>1. leaf.v = IF k \in NotFinite(item) THEN Null ELSE item.fields[k]
      BY SanitizedFields
    <3>2. leaf.v # Null
      BY <2>2
    <3>3. Get(item, k) = item.fields[k]
      BY DEF Get
    <3>4. QED
      BY <3>1, <3>2, <3>3
  <2>8. Last(leaf.path) = k
    BY <2>5, ShortPaths
  <2>9. k \in ItemNumbers
    BY <1>1, <2>8 DEF OutOfRange, ItemNumbers
  <2>10. [path |-> <<"items", Index(i), k>>, v |-> item.fields[k]] \in Places(p)
    BY <2>1, <2>5, <2>6, PlacesOfItems
  <2>11. leaf.v \in JsonScalars
    BY <2>1, <2>2, <2>7, <2>10 DEF IsJson
  <2>12. leaf.v.kind = "string" \/ (IsNumber(leaf.v) /\ leaf.v.form # "nonfinite")
    <3>1. leaf.v.form \in {"whole", "fraction", "huge"}
      BY <1>1 DEF SqlReads
    <3>2. QED
      BY <2>2, <2>11, <3>1 DEF JsonScalars, IsNumber
  <2>13. CASE leaf.v.kind = "string"
    <3>1. Message("type_drift", leaf.path) \in Found(p).messages
      BY <2>1, <2>5, <2>7, <2>9, <2>13, StringsDrift
    <3>2. Under(leaf.path, leaf.path)
      BY <2>2, PathsAreSequences, UnderItself
    <3>3. QED
      BY <2>1, <2>13, <3>1, <3>2, FoundIsReported DEF Drifted, Message
  <2>14. CASE IsNumber(leaf.v) /\ leaf.v.form # "nonfinite"
    <3>1. \E e \in ItemErrors(item) : e.field = k
      <4>1. IsNumber(Get(item, k)) /\ Get(item, k).form # "nonfinite"
        BY <2>7, <2>14
      <4>2. OutOfRange(k, Get(item, k).n)
        BY <1>1, <2>7, <2>8
      <4>3. QED
        BY <4>1, <4>2, RangesReported
    <3>2. ItemErrors(item) \subseteq built.errors
      BY <2>1, <2>5, <2>6, PartsOfJudgement
    <3>3. QED
      BY <2>8, <3>1, <3>2 DEF Reported
  <2>15. QED
    BY <2>12, <2>13, <2>14
<1>2. Reached => EveryBadNumberIsMarked
  BY <1>1 DEF EveryBadNumberIsMarked
<1>3. QED
  BY <1>2, ReachedIsInvariant, PTL

-----------------------------------------------------------------------------
(* What ods cannot hold. *)

\* A scalar that JSONB cannot hold.
BadScalar(v) == IsScalar(v) /\ (v.form = "nul" \/ (v.form = "nonfinite" /\ IsNumber(v)))

\* What JSONB cannot hold has such a scalar in it.
LEMMA JsonHoldsNoBadScalar ==
    ASSUME NEW v
    PROVE  JsonHolds(v) <=> \A x \in Places(v) : ~BadScalar(x.v)
BY DEF JsonHolds, BadScalar

\* Null is no such scalar, and neither is an object or an array.
LEMMA NullIsNotBad == ~BadScalar(Null) /\ \A v : v.kind \in {"object", "array"} => ~BadScalar(v)
BY DEF BadScalar, Null, Scalar, IsScalar

\* The places of a JSON value are closed: a field or an element of one is another.
LEMMA PlacesOfJson ==
    ASSUME NEW p, IsJson(p), NEW x \in Places(p), NEW y \in Inside(x)
    PROVE  y \in Places(p)
BY DEF IsJson, Below

\* Equal values hold equal values, wherever they are.
LEMMA SameInside ==
    ASSUME NEW x, NEW z, z.v = x.v, NEW y \in Inside(x)
    PROVE  \E u \in Inside(z) : u.v = y.v
<1>1. CASE x.v.kind = "object"
  <2>1. PICK f \in DOMAIN x.v.fields : y.v = x.v.fields[f]
    BY <1>1, InsideOf
  <2>2. [path |-> Append(z.path, f), v |-> z.v.fields[f]] \in Inside(z)
    BY <1>1, <2>1, FieldsAndElements
  <2>3. QED
    BY <2>1, <2>2
<1>2. CASE x.v.kind = "array"
  <2>1. PICK i \in DOMAIN x.v.elems : y.v = x.v.elems[i]
    BY <1>2, InsideOf
  <2>2. [path |-> Append(z.path, Index(i)), v |-> z.v.elems[i]] \in Inside(z)
    BY <1>2, <2>1, FieldsAndElements
  <2>3. QED
    BY <2>1, <2>2
<1>3. QED
  BY <1>1, <1>2, InsideOf

\* What is in a value of the payload that was kept as unmapped is in the payload, under
\* the path that it was kept with.
LEMMA InsideUnmapped ==
    ASSUME NEW p, IsJson(p), NEW z \in Places(p), Unmapped(p, z)
    PROVE  \A x \in Places(z.v) : \E y \in Places(p) : y.v = x.v /\ Unmapped(p, y)
<1> DEFINE T == {x \in Places(z.v) : \E y \in Places(p) : y.v = x.v /\ Unmapped(p, y)}
<1>1. Root(z.v) \in T
  <2>1. Root(z.v) \in Places(z.v) /\ Root(z.v).v = z.v
    BY PlacesAreLevels DEF Root
  <2>2. QED
    BY <2>1
<1>2. ASSUME NEW x \in T \cap Places(z.v), NEW w \in Inside(x) \cap Places(z.v)
      PROVE  w \in T
  <2>1. PICK y \in Places(p) : y.v = x.v /\ Unmapped(p, y)
    BY <1>2
  <2>2. \E u \in Inside(y) : u.v = w.v
    BY <1>2, <2>1, SameInside
  <2>3. PICK u \in Inside(y) : u.v = w.v
    BY <2>2
  <2>4. u \in Places(p) /\ Unmapped(p, u)
    BY <2>1, <2>3, PlacesOfJson, HandedDown
  <2>5. QED
    BY <1>2, <2>3, <2>4
<1>3. Places(z.v) \subseteq T
  <2> HIDE DEF T
  <2>1. QED
    BY <1>1, <1>2, PlacesInduction
<1>4. QED
  BY <1>3

\* A scalar of the payload that JSONB cannot hold, under an unmapped path, is what the
\* property allows.
LEMMA UnmappedIsBeyond ==
    ASSUME NEW p, built = JudgedBy(p, built.on, built.by),
           NEW y \in Places(p), Unmapped(p, y), BadScalar(y.v)
    PROVE  y \in Leaves(p) /\ Beyond(y)
<1>1. Drifted("unexpected_field", y.path)
  <2>1. PICK u \in Found(p).unmapped : Under(y.path, u[1])
    BY DEF Unmapped
  <2> DEFINE m == Message("unexpected_field", u[1])
  <2>2. m \in built.drift.messages
    BY FoundIsAnnounced, FoundIsReported DEF Announced, Found
  <2>3. m.code = "unexpected_field" /\ m.path = u[1]
    BY DEF Message
  <2> HIDE DEF m
  <2>4. QED
    BY <2>1, <2>2, <2>3 DEF Drifted
<1>2. y.v # Null /\ IsScalar(y.v)
  BY NullIsNotBad DEF BadScalar
<1>3. QED
  BY <1>1, <1>2 DEF Leaves, Beyond, BadScalar

\* What is kept as unmapped was there in the payload.
LEMMA UnmappedWasThere ==
    ASSUME NEW p, IsJson(p), Buildable(p), built = JudgedBy(p, built.on, built.by),
           NEW u \in Found(p).unmapped
    PROVE  \E z \in Places(p) : z.path = u[1] /\ z.v = u[2] /\ Unmapped(p, z)
<1> DEFINE d == Cleaned(p)
           items == Get(p, "items")
<1>1. /\ p.kind = "object" /\ Iterable(items) /\ Found(p) = Walked(d)
      /\ d.kind = "object"
  BY PartsOfJudgement, CleanedPayload
<1>2. Root(p) \in Places(p) /\ Root(p).path = << >> /\ Root(p).v = p
  BY PlacesAreLevels DEF Root
<1>3. ASSUME NEW f \in DOMAIN p.fields PROVE [path |-> <<f>>, v |-> p.fields[f]] \in Places(p)
  <2>1. [path |-> Append(<< >>, f), v |-> p.fields[f]] \in Inside(Root(p))
    BY <1>1, <1>2, FieldsAndElements
  <2>2. QED
    BY <1>2, <2>1, PlacesOfJson, ShortPaths
<1>4. ASSUME NEW path, NEW v, u = <<path, v>>, [path |-> path, v |-> v] \in Places(p)
      PROVE  \E z \in Places(p) : z.path = u[1] /\ z.v = u[2] /\ Unmapped(p, z)
  <2> DEFINE z == [path |-> path, v |-> v]
  <2>1. u[1] = path /\ u[2] = v /\ z.path = path /\ z.v = v
    BY <1>4
  <2>2. Unmapped(p, z)
    <3>1. <<z.path, v>> \in Found(p).unmapped
      BY <1>4, <2>1
    <3> HIDE DEF z
    <3>2. QED
      BY <1>4, <3>1, FoundThere DEF z
  <2>3. QED
    BY <1>4, <2>1, <2>2
<1>5. CASE \E f \in DOMAIN d.fields \ DOMAIN OrderIN : u = <<<<f>>, d.fields[f]>>
  <2>1. PICK f \in DOMAIN d.fields \ DOMAIN OrderIN : u = <<<<f>>, d.fields[f]>>
    BY <1>5
  <2>2. f # "items"
    BY <2>1 DEF OrderIN
  <2>3. f \in DOMAIN p.fields /\ d.fields[f] = p.fields[f]
    BY <1>1, <2>1, <2>2, CleanedPayload
  <2>4. QED
    BY <1>3, <1>4, <2>1, <2>3
<1>6. CASE \E g \in DOMAIN Groups : /\ Get(d, g) # Null
                                    /\ u \in GroupDrift(OrderIN[g], Get(d, g), <<g>>).unmapped
  <2>1. PICK g \in DOMAIN Groups : /\ Get(d, g) # Null
                                   /\ u \in GroupDrift(OrderIN[g], Get(d, g), <<g>>).unmapped
    BY <1>6
  <2>2. Get(d, g) = Get(p, g)
    BY <1>1, CleanedPayload DEF Groups
  <2>3. /\ OrderIN[g] \in Models
        /\ \A c \in DOMAIN Contract[OrderIN[g]] : Contract[OrderIN[g]][c] \notin Models
    BY DeclarationsAgree
  <2>4. Get(p, g).kind = "object"
        /\ \E h \in DOMAIN Get(p, g).fields : u = <<Append(<<g>>, h), Get(p, g).fields[h]>>
    BY <2>1, <2>2, <2>3, DriftOfGroup
  <2>5. PICK h \in DOMAIN Get(p, g).fields : u = <<Append(<<g>>, h), Get(p, g).fields[h]>>
    BY <2>4
  <2>6. g \in DOMAIN p.fields /\ Get(p, g) = p.fields[g]
    BY <2>4 DEF Get, Null, Scalar
  <2> DEFINE x == [path |-> <<g>>, v |-> Get(p, g)]
  <2>7. x \in Places(p)
    BY <1>3, <2>6
  <2>8. [path |-> Append(<<g>>, h), v |-> Get(p, g).fields[h]] \in Inside(x)
    BY <2>4, FieldsAndElements
  <2>9. [path |-> Append(<<g>>, h), v |-> Get(p, g).fields[h]] \in Places(p)
    <3> HIDE DEF x
    <3>1. QED
      BY <2>7, <2>8, PlacesOfJson
  <2>10. QED
    BY <1>4, <2>5, <2>9
<1>7. CASE Get(d, "items") # Null /\ u \in ItemsDrift(Get(d, "items"), <<"items">>).unmapped
  <2> DEFINE landed == SanitizedItems(items)
  <2>1. Get(d, "items") = landed
    BY <1>1, CleanedPayload
  <2>2. landed.kind = "array"
        /\ \E i \in DOMAIN landed.elems : u \in ItemDrift(landed.elems[i], Append(<<"items">>, Index(i))).unmapped
    BY <1>7, <2>1, DriftOfItems
  <2>3. items.kind = "array"
    BY <1>1, <2>2, LandedItemsOf
  <2>4. PICK i \in DOMAIN landed.elems : u \in ItemDrift(landed.elems[i], <<"items", Index(i)>>).unmapped
    BY <2>2, ShortPaths
  <2>5. /\ i \in DOMAIN items.elems /\ items.elems[i].kind = "object"
        /\ landed.elems[i] = Sanitized(items.elems[i])
    <3>1. DOMAIN landed.elems = DOMAIN items.elems
      <4>1. CASE Falsy(items)
        BY <1>1, <4>1, LandedItemsOf
      <4>2. CASE ~Falsy(items)
        BY <1>1, <4>2, LandedItemsOf
      <4>3. QED
        BY <4>1, <4>2
    <3>2. QED
      BY <1>1, <2>3, <3>1, LandedItemsOf
  <2> DEFINE item == items.elems[i]
             clean == Sanitized(item)
             x == [path |-> <<"items", Index(i)>>, v |-> item]
  <2>6. x \in Places(p) /\ \A k \in DOMAIN item.fields :
           [path |-> <<"items", Index(i), k>>, v |-> item.fields[k]] \in Places(p)
    BY <1>1, <2>3, <2>5, PlacesOfItems
  <2>7. clean.kind = "object" /\ DOMAIN clean.fields = DOMAIN item.fields
        /\ \A k : k \notin ItemNumbers =>
              /\ Get(clean, k) = Get(item, k)
              /\ k \in DOMAIN item.fields => clean.fields[k] = item.fields[k]
    BY SanitizedFields DEF NotFinite
  <2>8. \/ \E k \in DOMAIN clean.fields \ DOMAIN Contract["OrderItemInfo"] :
              u = <<Append(<<"items", Index(i)>>, k), clean.fields[k]>>
        \/ /\ Get(clean, "product") # Null
           /\ u \in GroupDrift("ProductInfo", Get(clean, "product"),
                               Append(<<"items", Index(i)>>, "product")).unmapped
    <3> HIDE DEF clean
    <3>1. QED
      BY <2>4, <2>5, <2>7, DriftOfItem DEF clean
  <2>9. CASE \E k \in DOMAIN clean.fields \ DOMAIN Contract["OrderItemInfo"] :
                u = <<Append(<<"items", Index(i)>>, k), clean.fields[k]>>
    <3>1. PICK k \in DOMAIN item.fields : /\ k \notin ItemNumbers
                                          /\ u = <<<<"items", Index(i), k>>, clean.fields[k]>>
      BY <2>7, <2>9, ItemContract, ShortPaths
    <3>2. u = <<<<"items", Index(i), k>>, item.fields[k]>>
      BY <2>7, <3>1
    <3>3. QED
      BY <1>4, <2>6, <3>2
  <2>10. CASE /\ Get(clean, "product") # Null
              /\ u \in GroupDrift("ProductInfo", Get(clean, "product"),
                                  Append(<<"items", Index(i)>>, "product")).unmapped
    <3> DEFINE product == Get(item, "product")
               place == <<"items", Index(i), "product">>
               z == [path |-> place, v |-> product]
    <3>1. Get(clean, "product") = product
      BY <2>7, ItemContract
    <3>2. u \in GroupDrift("ProductInfo", product, place).unmapped
      BY <2>10, <3>1, ShortPaths
    <3>3. product.kind = "object"
          /\ \E h \in DOMAIN product.fields : u = <<Append(place, h), product.fields[h]>>
      <4> HIDE DEF product, place
      <4>1. QED
        BY <3>2, ItemContract, DriftOfGroup
    <3>4. PICK h \in DOMAIN product.fields : u = <<Append(place, h), product.fields[h]>>
      BY <3>3
    <3>5. "product" \in DOMAIN item.fields /\ product = item.fields["product"]
      BY <3>3 DEF Get, Null, Scalar
    <3>6. z \in Places(p)
      BY <2>6, <3>5
    <3>7. [path |-> Append(place, h), v |-> product.fields[h]] \in Inside(z)
      BY <3>3, FieldsAndElements
    <3>8. [path |-> Append(place, h), v |-> product.fields[h]] \in Places(p)
      <4> HIDE DEF z
      <4>1. QED
        BY <3>6, <3>7, PlacesOfJson
    <3>9. QED
      BY <1>4, <3>4, <3>8
  <2>11. QED
    BY <2>8, <2>9, <2>10
<1>8. QED
  BY <1>1, <1>5, <1>6, <1>7, DriftOfOrder

\* A column that cannot hold its value: the payload has the value at the path of the
\* column, and it is wider than that.
LEMMA ColumnIsBeyond ==
    ASSUME NEW p, p.kind = "object", Buildable(p), IsJson(p),
           built = JudgedBy(p, built.on, built.by),
           NEW c \in Columns, ~ColumnHolds(c, built.row.columns[c])
    PROVE  \E leaf \in Leaves(p) : Beyond(leaf)
<1> DEFINE v == Read(p, c)
<1>1. ~ColumnHolds(c, Coerced(ODSOrder[c], v))
  <2>1. ColumnHolds(c, None)
    BY DEF ColumnHolds, None, Column
  <2>2. built.row.columns[c].form # "whole"
    BY DEF ColumnHolds
  <2>3. built.row.columns[c] # None
    BY <2>1
  <2>4. built.row.columns[c] = Coerced(ODSOrder[c], v)
    BY <2>2, <2>3, ValueOfColumn
  <2>5. QED
    BY <2>4
<1>2. v # Null
  <2>1. ColumnHolds(c, None)
    BY DEF ColumnHolds, None, Column
  <2>2. v = Null => Coerced(ODSOrder[c], v) = None
    BY DEF Coerced
  <2>3. QED
    BY <1>1, <2>1, <2>2
<1>3. IsScalar(v)
  BY <1>2 DEF Buildable, Flattens, IsScalar
<1>4. ASSUME NEW leaf \in Places(p), leaf.v = v, IsColumn(leaf.path), Last(leaf.path) = c
      PROVE  leaf \in Leaves(p) /\ Beyond(leaf)
  BY <1>1, <1>2, <1>3, <1>4 DEF Leaves, Beyond
<1>5. Root(p) \in Places(p) /\ Root(p).path = << >> /\ Root(p).v = p
  BY PlacesAreLevels DEF Root
<1>6. ASSUME NEW f \in DOMAIN p.fields PROVE [path |-> <<f>>, v |-> p.fields[f]] \in Places(p)
  <2>1. [path |-> Append(<< >>, f), v |-> p.fields[f]] \in Inside(Root(p))
    BY <1>5, FieldsAndElements
  <2>2. QED
    BY <1>5, <2>1, PlacesOfJson, ShortPaths
<1>7. CASE c \in OrderColumns
  <2>1. Read(p, c) = Get(p, c) /\ IsColumn(<<c>>) /\ Last(<<c>>) = c
    BY <1>7, PathOfColumn
  <2>2. c \in DOMAIN p.fields /\ p.fields[c] = v
    BY <1>2, <2>1 DEF Get
  <2> DEFINE leaf == [path |-> <<c>>, v |-> v]
  <2>3. leaf \in Places(p)
    BY <1>6, <2>2
  <2>4. leaf.path = <<c>> /\ leaf.v = v
    OBVIOUS
  <2> HIDE DEF leaf, v
  <2>5. QED
    BY <1>4, <2>1, <2>3, <2>4
<1>8. CASE c \notin OrderColumns
  <2>1. PICK g \in DOMAIN Groups : c \in Groups[g]
    BY <1>8, ColumnsOfGroups
  <2> DEFINE group == Get(p, g)
  <2>2. /\ group.kind = "object" /\ v = Get(group, c)
        /\ IsColumn(<<g, c>>) /\ Last(<<g, c>>) = c
    BY <1>2, <2>1, PathOfColumn
  <2>3. g \in DOMAIN p.fields /\ p.fields[g] = group
    BY <2>2 DEF Get, Null, Scalar
  <2>4. c \in DOMAIN group.fields /\ group.fields[c] = v
    BY <1>2, <2>2 DEF Get
  <2> DEFINE x == [path |-> <<g>>, v |-> group]
             leaf == [path |-> <<g, c>>, v |-> v]
  <2>5. x \in Places(p)
    BY <1>6, <2>3
  <2>6. leaf \in Inside(x)
    <3>1. [path |-> Append(x.path, c), v |-> x.v.fields[c]] \in Inside(x)
      BY <2>2, <2>4, FieldsAndElements
    <3>2. x.path = <<g>> /\ x.v.fields[c] = v
      BY <2>4
    <3> HIDE DEF v, group, x
    <3>3. QED
      BY <3>1, <3>2, ShortPaths
  <2>7. leaf.path = <<g, c>> /\ leaf.v = v
    OBVIOUS
  <2> HIDE DEF leaf, v, x
  <2>8. leaf \in Places(p)
    BY <2>5, <2>6, PlacesOfJson
  <2>9. QED
    BY <1>4, <2>2, <2>7, <2>8
<1>9. QED
  BY <1>7, <1>8

\* What the items that land have in them: the items and their products, nulls, values of
\* unmapped fields, and scalars that are no number or a finite one.
FineInItems(p, items, x) ==
    \/ x.v = SanitizedItems(items)
    \/ items.kind = "array" /\ \E i \in DOMAIN items.elems : x.v = Sanitized(items.elems[i])
    \/ x.v = Null
    \/ \E z \in Places(p) : z.v = x.v /\ Unmapped(p, z)
    \/ /\ items.kind = "array"
       /\ \E i \in DOMAIN items.elems : x.v = Get(items.elems[i], "product") /\ x.v.kind = "object"
    \/ /\ IsScalar(x.v) /\ ~(x.v.form = "nonfinite" /\ IsNumber(x.v))
       /\ \E z \in Places(p) : z.v = x.v

\* The fields of an item that has been accepted.
LEMMA FineFromItem ==
    ASSUME NEW p, IsJson(p), Accepted(p), built = JudgedBy(p, built.on, built.by),
           NEW items, items = Get(p, "items"), items.kind = "array", NEW i \in DOMAIN items.elems,
           NEW k \in DOMAIN items.elems[i].fields, NEW x, x.v = Sanitized(items.elems[i]).fields[k]
    PROVE  FineInItems(p, items, x)
<1> DEFINE item == items.elems[i]
           y == [path |-> <<"items", Index(i), k>>, v |-> item.fields[k]]
<1>1. Buildable(p) /\ p.kind = "object" /\ ItemsFit(items)
  BY AcceptedIsBuildable, AcceptedFields
<1>2. ModelFits("OrderItemInfo", item, GroupFits) /\ item.kind = "object"
  <2>1. items # Null
    BY DEF Null, Scalar
  <2>2. item # Null /\ ModelFits("OrderItemInfo", item, GroupFits)
    BY <1>1, <2>1 DEF ItemsFit
  <2>3. QED
    BY <2>2 DEF ModelFits
<1>3. y \in Places(p) /\ y.v = item.fields[k]
  BY <1>1, <1>2, PlacesOfItems
<1>4. k \notin NotFinite(item) => x.v = item.fields[k]
  BY SanitizedFields
<1>5. CASE k \in NotFinite(item)
  BY <1>5, SanitizedFields DEF FineInItems
<1>6. CASE k \notin DOMAIN Contract["OrderItemInfo"]
  <2>1. k \notin NotFinite(item)
    BY <1>6, ItemContract DEF NotFinite
  <2>2. Within(ItemDrift(Sanitized(item), <<"items", Index(i)>>), Found(p))
    BY <1>1, DriftOfItemIsThere
  <2>3. Sanitized(item).kind = "object" /\ DOMAIN Sanitized(item).fields = DOMAIN item.fields
    BY SanitizedFields
  <2>4. <<Append(<<"items", Index(i)>>, k), Sanitized(item).fields[k]>>
          \in ItemDrift(Sanitized(item), <<"items", Index(i)>>).unmapped
    BY <1>6, <2>3, DriftOfItem
  <2>5. <<y.path, x.v>> \in Found(p).unmapped
    BY <2>2, <2>4, ShortPaths DEF Within
  <2>6. Unmapped(p, y)
    <3> HIDE DEF y
    <3>1. QED
      BY <1>3, <2>5, FoundThere
  <2>7. QED
    BY <1>3, <1>4, <2>1, <2>6 DEF FineInItems
<1>7. CASE k \in ItemNumbers /\ k \notin NotFinite(item)
  <2>1. GroupFits(Contract["OrderItemInfo"][k], item.fields[k])
    <3>1. item # Null
      BY <1>2 DEF Null, Scalar
    <3>2. QED
      BY <1>2, <1>7, <3>1, ItemContract DEF ModelFits, Get
  <2>2. item.fields[k] = Null \/ IsScalar(item.fields[k])
    BY <1>7, <2>1, ItemContract DEF GroupFits, ScalarFits, IsScalar
  <2>3. ~(IsNumber(item.fields[k]) /\ item.fields[k].form = "nonfinite")
    BY <1>7 DEF NotFinite, Get
  <2>4. QED
    BY <1>3, <1>4, <1>7, <2>2, <2>3 DEF FineInItems
<1>8. CASE k = "product"
  <2>1. k \notin NotFinite(item)
    BY <1>8, ItemContract DEF NotFinite
  <2>2. x.v = Get(item, "product")
    BY <1>4, <1>8, <2>1 DEF Get
  <2>3. ModelFits("ProductInfo", Get(item, "product"), ScalarFits)
    <3>1. item # Null
      BY <1>2 DEF Null, Scalar
    <3>2. GroupFits("ProductInfo", Get(item, "product"))
      BY <1>2, <3>1, ItemContract DEF ModelFits
    <3>3. QED
      BY <3>2, ItemContract DEF GroupFits
  <2>4. x.v = Null \/ x.v.kind = "object"
    BY <2>2, <2>3 DEF ModelFits
  <2>5. QED
    BY <2>2, <2>4 DEF FineInItems
<1>9. QED
  BY <1>5, <1>6, <1>7, <1>8, ItemContract

\* The fields of a product that has been accepted.
LEMMA FineFromProduct ==
    ASSUME NEW p, IsJson(p), Accepted(p), built = JudgedBy(p, built.on, built.by),
           NEW items, items = Get(p, "items"), items.kind = "array", NEW i \in DOMAIN items.elems,
           NEW product, product = Get(items.elems[i], "product"), product.kind = "object",
           NEW h \in DOMAIN product.fields, NEW x, x.v = product.fields[h]
    PROVE  FineInItems(p, items, x)
<1> DEFINE item == items.elems[i]
           place == <<"items", Index(i), "product">>
           z == [path |-> place, v |-> product]
           y == [path |-> Append(place, h), v |-> product.fields[h]]
<1>1. Buildable(p) /\ p.kind = "object" /\ ItemsFit(items)
  BY AcceptedIsBuildable, AcceptedFields
<1>2. ModelFits("OrderItemInfo", item, GroupFits) /\ item.kind = "object" /\ item # Null
  <2>1. items # Null
    BY DEF Null, Scalar
  <2>2. item # Null /\ ModelFits("OrderItemInfo", item, GroupFits)
    BY <1>1, <2>1 DEF ItemsFit
  <2>3. QED
    BY <2>2 DEF ModelFits
<1>3. "product" \in DOMAIN item.fields /\ product = item.fields["product"]
  BY DEF Get, Null, Scalar
<1>4. z \in Places(p)
  BY <1>1, <1>2, <1>3, PlacesOfItems
<1>5. y \in Inside(z)
  BY FieldsAndElements
<1>6. y \in Places(p) /\ y.v = x.v
  <2>1. y.v = x.v
    OBVIOUS
  <2> HIDE DEF y, z
  <2>2. QED
    BY <1>4, <1>5, <2>1, PlacesOfJson
<1>7. CASE h \in DOMAIN Contract["ProductInfo"]
  <2>1. GroupFits("ProductInfo", product)
    BY <1>2, ItemContract DEF ModelFits
  <2>2. ModelFits("ProductInfo", product, ScalarFits) /\ product # Null
    BY <2>1, ItemContract DEF GroupFits, Null, Scalar
  <2>3. ScalarFits("str", x.v)
    BY <1>7, <2>2, ItemContract DEF ModelFits, Get
  <2>4. x.v = Null \/ (IsScalar(x.v) /\ ~IsNumber(x.v))
    BY <2>3 DEF ScalarFits, Takes, IsScalar, IsNumber
  <2>5. QED
    BY <1>6, <2>4 DEF FineInItems
<1>8. CASE h \notin DOMAIN Contract["ProductInfo"]
  <2>1. Within(ItemDrift(Sanitized(item), <<"items", Index(i)>>), Found(p))
    BY <1>1, DriftOfItemIsThere
  <2>2. /\ Sanitized(item).kind = "object" /\ Get(Sanitized(item), "product") = product
        /\ product # Null
    BY SanitizedFields, ItemContract DEF NotFinite, Null, Scalar
  <2>3. Within(GroupDrift("ProductInfo", product, place), ItemDrift(Sanitized(item), <<"items", Index(i)>>))
    BY <2>2, DriftOfItem, ShortPaths
  <2>4. <<Append(place, h), product.fields[h]>> \in GroupDrift("ProductInfo", product, place).unmapped
    <3> HIDE DEF place
    <3>1. QED
      BY <1>8, ItemContract, DriftOfGroup
  <2>5. <<y.path, x.v>> \in Found(p).unmapped
    BY <2>1, <2>3, <2>4 DEF Within
  <2>6. Unmapped(p, y)
    <3> HIDE DEF y
    <3>1. QED
      BY <1>6, <2>5, FoundThere
  <2>7. QED
    BY <1>6, <2>6 DEF FineInItems
<1>9. QED
  BY <1>7, <1>8

\* Nothing else is in the items that land of an accepted order.
LEMMA AcceptedItemsAreFine ==
    ASSUME NEW p, IsJson(p), Accepted(p), built = JudgedBy(p, built.on, built.by),
           NEW items, items = Get(p, "items")
    PROVE  \A x \in Places(SanitizedItems(items)) : FineInItems(p, items, x)
<1> DEFINE landed == SanitizedItems(items)
           T == {x \in Places(landed) : FineInItems(p, items, x)}
<1>1. Buildable(p) /\ Iterable(items) /\ ItemsFit(items)
  BY AcceptedIsBuildable, AcceptedFields DEF Buildable
<1>2. Root(landed) \in T
  <2>1. Root(landed) \in Places(landed) /\ Root(landed).v = landed
    BY PlacesAreLevels DEF Root
  <2>2. QED
    BY <2>1 DEF FineInItems
<1>3. ASSUME NEW x \in T \cap Places(landed), NEW y \in Inside(x) \cap Places(landed)
      PROVE  y \in T
  <2>0. FineInItems(p, items, x) /\ y \in Inside(x) /\ y \in Places(landed)
    BY <1>3
  <2>1. CASE x.v = landed
    <3>1. items = Null \/ items.kind = "array"
      BY <1>1 DEF ItemsFit
    <3>2. items.kind = "array"
      <4>1. CASE items = Null
        <5>1. Falsy(items)
          BY <4>1 DEF Falsy, Null, Scalar
        <5>2. landed.kind = "null"
          BY <1>1, <4>1, <5>1, LandedItemsOf DEF Null, Scalar
        <5>3. QED
          BY <2>0, <2>1, <5>2, InsideOf
      <4>2. QED
        BY <3>1, <4>1
    <3>3. landed.kind = "array" /\ DOMAIN landed.elems = DOMAIN items.elems
      <4>1. CASE Falsy(items)
        BY <1>1, <3>2, <4>1, LandedItemsOf
      <4>2. CASE ~Falsy(items)
        BY <1>1, <4>2, LandedItemsOf
      <4>3. QED
        BY <4>1, <4>2
    <3>4. PICK i \in DOMAIN landed.elems : y.v = landed.elems[i]
      BY <2>0, <2>1, <3>3, InsideOf
    <3>5. i \in DOMAIN items.elems /\ y.v = Sanitized(items.elems[i])
      BY <1>1, <3>2, <3>3, <3>4, LandedItemsOf
    <3>6. QED
      BY <2>0, <3>2, <3>5 DEF FineInItems
  <2>2. CASE items.kind = "array" /\ \E i \in DOMAIN items.elems : x.v = Sanitized(items.elems[i])
    <3>1. PICK i \in DOMAIN items.elems : x.v = Sanitized(items.elems[i])
      BY <2>2
    <3>2. x.v.kind = "object" /\ DOMAIN x.v.fields = DOMAIN items.elems[i].fields
      BY <3>1, SanitizedFields
    <3>3. PICK k \in DOMAIN items.elems[i].fields : y.v = Sanitized(items.elems[i]).fields[k]
      BY <2>0, <3>1, <3>2, InsideOf
    <3>4. QED
      BY <2>0, <2>2, <3>3, FineFromItem
  <2>3. CASE IsScalar(x.v)
    BY <2>0, <2>3, InsideOf DEF IsScalar
  <2>4. CASE \E z \in Places(p) : z.v = x.v /\ Unmapped(p, z)
    <3>1. PICK z \in Places(p) : z.v = x.v /\ Unmapped(p, z)
      BY <2>4
    <3>2. \E u \in Inside(z) : u.v = y.v
      BY <2>0, <3>1, SameInside
    <3>3. PICK u \in Inside(z) : u.v = y.v
      BY <3>2
    <3>4. u \in Places(p) /\ Unmapped(p, u)
      BY <3>1, <3>3, PlacesOfJson, HandedDown
    <3>5. QED
      BY <2>0, <3>3, <3>4 DEF FineInItems
  <2>5. CASE /\ items.kind = "array"
             /\ \E i \in DOMAIN items.elems : x.v = Get(items.elems[i], "product") /\ x.v.kind = "object"
    <3>1. PICK i \in DOMAIN items.elems : x.v = Get(items.elems[i], "product") /\ x.v.kind = "object"
      BY <2>5
    <3>2. PICK h \in DOMAIN x.v.fields : y.v = x.v.fields[h]
      BY <2>0, <3>1, InsideOf
    <3>3. QED
      BY <2>0, <2>5, <3>1, <3>2, FineFromProduct
  <2>6. x.v = Null => IsScalar(x.v)
    BY DEF IsScalar, Null, Scalar
  <2>7. QED
    BY <2>0, <2>1, <2>2, <2>3, <2>4, <2>5, <2>6 DEF FineInItems
<1>4. Places(landed) \subseteq T
  <2> HIDE DEF T
  <2>1. QED
    BY <1>2, <1>3, PlacesInduction
<1>5. QED
  BY <1>4

\* A scalar of those items that JSONB cannot hold was in the payload, and is what the
\* property allows.
LEMMA ItemsAreBeyond ==
    ASSUME NEW p, IsJson(p), Accepted(p), built = JudgedBy(p, built.on, built.by),
           NEW items, items = Get(p, "items"),
           NEW x \in Places(SanitizedItems(items)), BadScalar(x.v)
    PROVE  \E leaf \in Leaves(p) : Beyond(leaf)
<1>1. Buildable(p) /\ Iterable(items) /\ ItemsFit(items)
  BY AcceptedIsBuildable, AcceptedFields DEF Buildable
<1>2. FineInItems(p, items, x)
  BY AcceptedItemsAreFine
<1>3. x.v # SanitizedItems(items)
  <2>1. CASE items = Null
    <3>1. Falsy(items)
      BY <2>1 DEF Falsy, Null, Scalar
    <3>2. SanitizedItems(items) = Null
      BY <1>1, <2>1, <3>1, LandedItemsOf
    <3>3. QED
      BY <3>2, NullIsNotBad
  <2>2. CASE items.kind = "array"
    <3>1. SanitizedItems(items).kind = "array"
      BY <1>1, <2>2, LandedItemsOf
    <3>2. QED
      BY <3>1, NullIsNotBad
  <2>3. QED
    BY <1>1, <2>1, <2>2 DEF ItemsFit
<1>4. \A item : x.v # Sanitized(item)
  BY SanitizedFields, NullIsNotBad
<1>5. CASE \E z \in Places(p) : z.v = x.v /\ Unmapped(p, z)
  BY <1>5, UnmappedIsBeyond
<1>6. CASE /\ IsScalar(x.v) /\ ~(x.v.form = "nonfinite" /\ IsNumber(x.v))
           /\ \E z \in Places(p) : z.v = x.v
  <2>1. PICK z \in Places(p) : z.v = x.v
    BY <1>6
  <2>2. z.v.form = "nul" /\ IsScalar(z.v) /\ z.v # Null
    BY <1>6, <2>1, NullIsNotBad DEF BadScalar
  <2>3. QED
    BY <2>1, <2>2 DEF Leaves, Beyond
<1>7. QED
  BY <1>2, <1>3, <1>4, <1>5, <1>6, NullIsNotBad DEF FineInItems

\* The only accepted orders that ods cannot hold carry what no rule promises to
\* normalise: a NUL, a value wider than its column, or a number that is not finite
\* outside the contract.
THEOREM OnlyWallsEverStopAnOrder == Spec => []OnlyWallsStopAnOrder
<1>1. ASSUME Reached, phase = "unstorable", order.door = "api"
      PROVE  \E leaf \in Leaves(Payload) : Beyond(leaf)
  <2> DEFINE p == Payload
             items == Get(p, "items")
  <2>1. /\ Accepted(p) /\ IsJson(p) /\ Buildable(p) /\ p.kind = "object"
        /\ built = JudgedBy(p, built.on, built.by)
        /\ ~Storable(built.row, built.drift.unmapped)
        /\ built.row.items = SanitizedItems(items)
    BY <1>1, JudgingAssumption, PartsOfJudgement DEF Reached, Payload
  <2>2. CASE \E c \in Columns : ~ColumnHolds(c, built.row.columns[c])
    BY <2>1, <2>2, ColumnIsBeyond
  <2>3. CASE ~JsonHolds(built.row.items)
    <3>1. PICK x \in Places(SanitizedItems(items)) : BadScalar(x.v)
      BY <2>1, <2>3, JsonHoldsNoBadScalar
    <3>2. QED
      BY <2>1, <3>1, ItemsAreBeyond
  <2>4. CASE \E u \in built.drift.unmapped : ~JsonHolds(u[2])
    <3>1. PICK u \in Found(p).unmapped : ~JsonHolds(u[2])
      BY <2>1, <2>4, FoundIsReported DEF Kept
    <3>2. PICK z \in Places(p) : z.path = u[1] /\ z.v = u[2] /\ Unmapped(p, z)
      BY <2>1, <3>1, UnmappedWasThere
    <3>3. PICK x \in Places(z.v) : BadScalar(x.v)
      BY <3>1, <3>2, JsonHoldsNoBadScalar
    <3>4. PICK y \in Places(p) : y.v = x.v /\ Unmapped(p, y)
      BY <2>1, <3>2, <3>3, InsideUnmapped
    <3>5. y \in Leaves(p) /\ Beyond(y)
      BY <2>1, <3>3, <3>4, UnmappedIsBeyond
    <3>6. QED
      BY <3>5
  <2>5. QED
    BY <2>1, <2>2, <2>3, <2>4 DEF Storable
<1>2. Reached => OnlyWallsStopAnOrder
  BY <1>1 DEF OnlyWallsStopAnOrder
<1>3. QED
  BY <1>2, ReachedIsInvariant, PTL
=============================================================================
