--------------------------- MODULE MCEventRouting ----------------------------
(***************************************************************************)
(* Every shape of event that a validation tells apart, published once: by  *)
(* the content-based router or its lesson, built by make_event or by hand  *)
(* with any one part of the envelope wrong; or by the callback-confirmed   *)
(* producer, under schemas whose identifier and key are two fields or one. *)
(***************************************************************************)
EXTENDS LessonEvents, EventSchema, FiniteSets

CONSTANTS
  Names,        (* strings that name orders, customers, payments, skus     *)
  MaxCount      (* bound: the stock levels and reorder points tried        *)

(* What ToString makes of the number 0 is neither blank nor unencodable.   *)
ASSUME RoutingAssumption ==
  /\ MaxCount \in Nat
  /\ ToString(0) \notin {"", " ", "lone surrogate"}

Texts  == {None, Num(0), Blank} \cup {Str(n) : n \in Names}
Counts == {None, Bool(TRUE)} \cup {Num(n) : n \in -1 .. MaxCount}
States == PaymentStatuses \cup {None, Str("LOST"), Unhashable}
Extras == {"json", "nan", "object", "surrogate"}

NoData == [isDict |-> TRUE, extra |-> "json", order_id |-> None, customer_id |-> None,
           payment_id |-> None, status |-> None, sku |-> None,
           available_units |-> None, reorder_point |-> None]

OrderData(o, c, x)      == [NoData EXCEPT !.order_id = o, !.customer_id = c, !.extra = x]
PaymentData(p, o, s, x) == [NoData EXCEPT !.payment_id = p, !.order_id = o, !.status = s, !.extra = x]
StockData(k, u, r)      == [NoData EXCEPT !.sku = k, !.available_units = u, !.reorder_point = r]

Orders    == {OrderData(o, c, x) : o \in Texts, c \in Texts, x \in Extras}
Payments  == {PaymentData(p, o, s, x) : p \in Texts, o \in Texts, s \in States, x \in Extras}
Inventory == {StockData(k, u, r) : k \in Texts, u \in Counts, r \in Counts}

Made ==
  {MakeEvent(Str("order.created"), d, None) : d \in Orders}
    \cup {MakeEvent(Str("payment.updated"), d, Empty) : d \in Payments}
    \cup {MakeEvent(Str("inventory.changed"), d, Str("id")) : d \in Inventory}

Sample == MakeEvent(Str("order.created"),
                    [NoData EXCEPT !.order_id = Str("a"), !.customer_id = Str("a")], Str("id"))

Misshapen ==
  {[Sample EXCEPT !.event_id = v] : v \in {None, Empty, Blank}}
    \cup {[Sample EXCEPT !.event_type = v] : v \in {None, Blank, Str("order.deleted")}}
    \cup {[Sample EXCEPT !.occurred_at = v] : v \in {None, Blank}}
    \cup {[Sample EXCEPT !.isDict = FALSE], [Sample EXCEPT !.data.isDict = FALSE],
          MakeEvent(Str("order.created"), Sample.data, Blank)}

Schemas ==
  {s \in [id : {"event_id", "order_id", " "}, key : {"order_id", ""},
          other : {{}, {"event_type"}, {"event_id", "event_type"}}] : SchemaOK(s)}

FieldNames  == {"event_id", "order_id", "event_type"}
FieldValues == {None, Empty, Blank, Num(0), Bool(FALSE), Unhashable, Surrogate, Str("a")}

Dicts ==
  {[isDict |-> TRUE, fields |-> f, extra |-> x] :
     f \in UNION {[names -> FieldValues] : names \in SUBSET FieldNames}, x \in {"json", "nan"}}
NoDict == [isDict |-> FALSE, fields |-> <<>>, extra |-> "json"]

VARIABLES
  schema,    (* that of the producer; Router or Lesson, which have none      *)
  event,
  result

Router  == [id |-> "", key |-> "", other |-> {}]
Lesson  == [id |-> "", key |-> "", other |-> {"lesson"}]
Routers == {Router, Lesson}
Pending == [raises |-> "pending"]

Init ==
  /\ result = Pending
  /\ \/ schema \in Routers /\ event \in Made \cup Misshapen
     \/ schema \in Schemas /\ event \in Dicts \cup {NoDict}

PublishRouted ==
  /\ result = Pending /\ schema = Router
  /\ result' = Publish(event)
  /\ UNCHANGED <<schema, event>>

PublishLesson ==
  /\ result = Pending /\ schema = Lesson
  /\ result' = PublishOneEvent(event)
  /\ UNCHANGED <<schema, event>>

PublishUnderSchema ==
  /\ result = Pending /\ schema \notin Routers
  /\ result' = PublishEvent(schema, event)
  /\ UNCHANGED <<schema, event>>

Next == PublishRouted \/ PublishLesson \/ PublishUnderSchema

Spec == Init /\ [][Next]_<<schema, event, result>>

-----------------------------------------------------------------------------
(* The routing table of routing.py, one record per row                     *)

Type(e)     == e.event_type[2]
IsFailed(e) == e.data.status = Str("FAILED")

Sent   == result # Pending /\ result.sent \notin {NoDecision, NotSent}
Routed == schema \in Routers /\ Sent

Rows ==
  {topic \in {"orders", "payments.failed", "payments", "inventory.alerts", "inventory"} :
     CASE topic = "orders"           -> Type(event) = "order.created"
       [] topic = "payments.failed"  -> Type(event) = "payment.updated" /\ IsFailed(event)
       [] topic = "payments"         -> Type(event) = "payment.updated" /\ ~IsFailed(event)
       [] topic = "inventory.alerts" ->
            Type(event) = "inventory.changed"
              /\ event.data.reorder_point[2] - event.data.available_units[2] \in 0 .. MaxCount
       [] topic = "inventory"        ->
            Type(event) = "inventory.changed"
              /\ event.data.available_units[2] - event.data.reorder_point[2] \in 1 .. MaxCount}

(* "Keying by order_id keeps all events for one order on the same          *)
(* partition": in every topic that carries orders or payments, the key is  *)
(* the order, and inventory is kept together by sku.                       *)
Entity == IF Type(event) = "inventory.changed" THEN event.data.sku ELSE event.data.order_id

(* "One destination per event": what is sent matches one row of the table, *)
(* the rows overlap nowhere, they leave no valid event out, and the key    *)
(* keeps the events of one entity together.                                *)
RoutedByTheTable == Routed => Rows = {result.sent.topic} /\ result.sent.key = Entity

(* "We validate first so routing logic below can trust every field         *)
(* exists": the key is never empty, and the stock levels that are compared *)
(* are numbers, not None and not True.                                     *)
TrustIsJustified ==
  Routed => /\ NonEmptyString(result.sent.key)
            /\ Type(event) = "inventory.changed" =>
                 \A level \in {event.data.available_units, event.data.reorder_point} :
                   IsNum(level) /\ level[2] \in 0 .. MaxCount

(* What makes an event traceable and ordered: each name of the schema is   *)
(* there, and the identifier and the key say something.  A number says     *)
(* something, also 0, and so does False; the key must have an encoding.    *)
Sound ==
  /\ event.isDict /\ event.extra = "json"
  /\ \A name \in {schema.id, schema.key} \cup schema.other : name \in DOMAIN event.fields
  /\ {event.fields[schema.id], event.fields[schema.key]} \cap {None, Empty, Blank} = {}
  /\ event.fields[schema.key] # Surrogate

(* An exception and a message never come from one publish, "invalid event  *)
(* (nothing is sent)", and the schema turns away neither more nor less     *)
(* than it says: `None or "" would silently turn into the text "None" or   *)
(* ""`, and every other value is a good identifier and a good key.  What   *)
(* has no JSON, or no UTF-8, is not sent by anybody.                       *)
SentIffSound ==
  result # Pending =>
    /\ Sent <=> result.raises = ""
    /\ Routed => event.data.extra = "json"
    /\ schema \notin Routers => (Sent <=> Sound)

=============================================================================
