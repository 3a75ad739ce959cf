------------------------- MODULE MCEventRoutingProofs -------------------------
(***************************************************************************)
(* Validation, routing and encoding, for names of any number and stock     *)
(* levels of any size: what a publish hands on is what the routing table,  *)
(* or the schema, says of its event.                                       *)
(***************************************************************************)
EXTENDS MCEventRouting, TLAPS

Published ==
  CASE schema = Router -> Publish(event)
    [] schema = Lesson -> PublishOneEvent(event)
    [] OTHER           -> PublishEvent(schema, event)

RoutingInv ==
  /\ \/ schema \in Routers /\ event \in Made \cup Misshapen
     \/ schema \in Schemas \ Routers /\ event \in Dicts \cup {NoDict}
  /\ result # Pending => result = Published

LEMMA SchemasAreNoRouters == Schemas \cap Routers = {}
<1>1. \A s \in Schemas : s.id # ""
  BY DEF Schemas
<1>2. \A s \in Routers : s.id = ""
  <2>1. Router.id = "" /\ Lesson.id = ""
    BY DEF Router, Lesson
  <2> QED
    BY <2>1 DEF Routers
<1> QED
  BY <1>1, <1>2

LEMMA RoutingSafe == Spec => []RoutingInv
<1>1. Init => RoutingInv
  BY SchemasAreNoRouters DEF Init, RoutingInv
<1>2. RoutingInv /\ [Next]_<<schema, event, result>> => RoutingInv'
  <2> SUFFICES ASSUME RoutingInv, [Next]_<<schema, event, result>> PROVE RoutingInv'
    OBVIOUS
  <2>1. Router # Lesson
    BY DEF Router, Lesson
  <2>2. UNCHANGED <<schema, event>> /\ (result' = result \/ result' = Published)
    BY <2>1 DEF Next, PublishRouted, PublishLesson, PublishUnderSchema, Published, Routers
  <2>3. Published' = Published
    BY <2>2 DEF Published
  <2> QED
    BY <2>2, <2>3 DEF RoutingInv
<1> QED
  BY <1>1, <1>2, PTL DEF Spec

-----------------------------------------------------------------------------
(* The routed events: validation and encoding.                             *)

LEMMA ChecksAreNamed ==
  ASSUME NEW e
  PROVE  ValidateEvent(e) \in
           {"valid", "EventValidationError", "TypeError", "UnknownEventTypeError"}
BY DEF ValidateEvent, ValidateData, ValidateStatus, Require

(* The fields that routing trusts are there.                               *)
LEMMA ValidEvents ==
  ASSUME NEW e, ValidateEvent(e) = "valid"
  PROVE  \/ /\ e.event_type = Str("order.created")
            /\ NonEmptyString(e.data.order_id)
         \/ /\ e.event_type = Str("payment.updated")
            /\ NonEmptyString(e.data.order_id)
         \/ /\ e.event_type = Str("inventory.changed")
            /\ NonEmptyString(e.data.sku)
            /\ IsCount(e.data.available_units) /\ IsCount(e.data.reorder_point)
<1>1. ValidateData(e.event_type, e.data) = "valid"
  BY DEF ValidateEvent
<1>2. CASE e.event_type = Str("order.created")
  BY <1>1, <1>2 DEF ValidateData, Require, FieldsPresent
<1>3. CASE e.event_type = Str("payment.updated")
  BY <1>1, <1>3 DEF ValidateData, Require, FieldsPresent, Str
<1>4. CASE e.event_type = Str("inventory.changed")
  BY <1>1, <1>4 DEF ValidateData, Require, FieldsPresent, Str
<1>5. \/ e.event_type = Str("order.created") \/ e.event_type = Str("payment.updated")
      \/ e.event_type = Str("inventory.changed")
  BY <1>1 DEF ValidateData
<1> QED
  BY <1>2, <1>3, <1>4, <1>5

(* The levels are what the model tries, and the rest is of a known kind.   *)
LEMMA EventsTried ==
  ASSUME NEW e \in Made \cup Misshapen
  PROVE  /\ e.data.extra \in Extras
         /\ e.event_type = Str("inventory.changed") =>
              e.data.available_units \in Counts /\ e.data.reorder_point \in Counts
<1>0. /\ Str("order.created") # Str("inventory.changed")
      /\ Str("payment.updated") # Str("inventory.changed")
      /\ Str("order.deleted") # Str("inventory.changed")
      /\ None # Str("inventory.changed") /\ Blank # Str("inventory.changed")
  BY DEF Str, None, Blank
<1>1. CASE e \in Made
  <2>1. CASE \E d \in Orders : e = MakeEvent(Str("order.created"), d, None)
    <3>1. PICK d \in Orders : e = MakeEvent(Str("order.created"), d, None)
      BY <2>1
    <3>2. e.data = d /\ e.event_type = Str("order.created")
      BY <3>1 DEF MakeEvent
    <3>3. PICK o \in Texts, c \in Texts, x \in Extras : d = OrderData(o, c, x)
      BY DEF Orders
    <3>4. d.extra = x
      BY <3>3 DEF NoData, OrderData
    <3> QED
      BY <1>0, <3>2, <3>4
  <2>2. CASE \E d \in Payments : e = MakeEvent(Str("payment.updated"), d, Empty)
    <3>1. PICK d \in Payments : e = MakeEvent(Str("payment.updated"), d, Empty)
      BY <2>2
    <3>2. e.data = d /\ e.event_type = Str("payment.updated")
      BY <3>1 DEF MakeEvent
    <3>3. PICK p \in Texts, o \in Texts, s \in States, x \in Extras : d = PaymentData(p, o, s, x)
      BY DEF Payments
    <3>4. d.extra = x
      BY <3>3 DEF NoData, PaymentData
    <3> QED
      BY <1>0, <3>2, <3>4
  <2>3. CASE \E d \in Inventory : e = MakeEvent(Str("inventory.changed"), d, Str("id"))
    <3>1. PICK d \in Inventory : e = MakeEvent(Str("inventory.changed"), d, Str("id"))
      BY <2>3
    <3>2. e.data = d
      BY <3>1 DEF MakeEvent
    <3>3. PICK k \in Texts, u \in Counts, r \in Counts : d = StockData(k, u, r)
      BY DEF Inventory
    <3>4. d.extra = "json" /\ d.available_units = u /\ d.reorder_point = r
      BY <3>3 DEF NoData, StockData
    <3> QED
      BY <3>2, <3>4 DEF Extras
  <2> QED
    BY <1>1, <2>1, <2>2, <2>3 DEF Made
<1>2. CASE e \in Misshapen
  <2>1. Sample.event_type = Str("order.created") /\ Sample.data.extra = "json"
    BY DEF Sample, MakeEvent, NoData
  <2>2. ASSUME NEW v
        PROVE  /\ [Sample EXCEPT !.event_id = v].event_type = Str("order.created")
               /\ [Sample EXCEPT !.event_id = v].data.extra = "json"
               /\ [Sample EXCEPT !.occurred_at = v].event_type = Str("order.created")
               /\ [Sample EXCEPT !.occurred_at = v].data.extra = "json"
               /\ [Sample EXCEPT !.event_type = v].event_type = v
               /\ [Sample EXCEPT !.event_type = v].data.extra = "json"
    BY <2>1 DEF Sample, MakeEvent
  <2>3. /\ [Sample EXCEPT !.isDict = FALSE].event_type = Str("order.created")
        /\ [Sample EXCEPT !.isDict = FALSE].data.extra = "json"
        /\ [Sample EXCEPT !.data.isDict = FALSE].event_type = Str("order.created")
        /\ [Sample EXCEPT !.data.isDict = FALSE].data.extra = "json"
    BY DEF Sample, MakeEvent, NoData
  <2>4. /\ MakeEvent(Str("order.created"), Sample.data, Blank).event_type = Str("order.created")
        /\ MakeEvent(Str("order.created"), Sample.data, Blank).data.extra = "json"
    BY <2>1 DEF MakeEvent
  <2>5. \/ \E v : e = [Sample EXCEPT !.event_id = v] \/ e = [Sample EXCEPT !.occurred_at = v]
        \/ \E v \in {None, Blank, Str("order.deleted")} : e = [Sample EXCEPT !.event_type = v]
        \/ e = [Sample EXCEPT !.isDict = FALSE] \/ e = [Sample EXCEPT !.data.isDict = FALSE]
        \/ e = MakeEvent(Str("order.created"), Sample.data, Blank)
    BY <1>2 DEF Misshapen
  <2>6. e.data.extra = "json" /\ e.event_type # Str("inventory.changed")
    <3>1. CASE \E v : e = [Sample EXCEPT !.event_id = v] \/ e = [Sample EXCEPT !.occurred_at = v]
      <4>1. PICK v : e = [Sample EXCEPT !.event_id = v] \/ e = [Sample EXCEPT !.occurred_at = v]
        BY <3>1
      <4>2. e.event_type = Str("order.created") /\ e.data.extra = "json"
        BY <2>2, <4>1
      <4> QED
        BY <1>0, <4>2
    <3>2. CASE \E v \in {None, Blank, Str("order.deleted")} : e = [Sample EXCEPT !.event_type = v]
      <4>1. PICK v \in {None, Blank, Str("order.deleted")} : e = [Sample EXCEPT !.event_type = v]
        BY <3>2
      <4>2. e.event_type = v /\ e.data.extra = "json"
        BY <2>2, <4>1
      <4> QED
        BY <1>0, <4>2
    <3> QED
      BY <1>0, <2>3, <2>4, <2>5, <3>1, <3>2
  <2> QED
    BY <2>6 DEF Extras
<1> QED
  BY <1>1, <1>2

(* Either an exception, and nothing is sent, or a valid event and the      *)
(* decision of route_event; in the package and in the lesson.              *)
Decided(e, r) ==
  \/ r.raises # "" /\ r.sent = NoDecision
  \/ /\ r.raises = "" /\ r.sent = RouteEvent(e)
     /\ ValidateEvent(e) = "valid" /\ Serialize(e) = "encoded"

LEMMA PublishDecides ==
  ASSUME NEW e
  PROVE  Decided(e, Publish(e)) /\ Decided(e, PublishOneEvent(e))
<1>1. Decided(e, Publish(e))
  <2>1. Serialize(e) # ""
    BY DEF Serialize
  <2>2. ValidateEvent(e) # ""
    BY ChecksAreNamed
  <2> QED
    BY <2>1, <2>2 DEF Publish, Decided
<1>2. Decided(e, PublishOneEvent(e))
  <2>1. LessonSerialize(e) # "" /\ (LessonSerialize(e) = "encoded" => Serialize(e) = "encoded")
    BY DEF LessonSerialize
  <2>2. LessonValidateEvent(e) = ValidateEvent(e) /\ LessonRouteEvent(e) = RouteEvent(e)
        /\ ValidateEvent(e) # ""
    BY ChecksAreNamed DEF LessonValidateEvent, LessonRouteEvent
  <2> QED
    BY <2>1, <2>2 DEF PublishOneEvent, Decided
<1> QED
  BY <1>1, <1>2

LEMMA DecisionsAreSent ==
  ASSUME NEW e
  PROVE  RouteEvent(e) # NoDecision /\ RouteEvent(e) # NotSent /\ NoDecision # NotSent
<1>1. PICK topic \in {"orders", "payments.failed", "payments", "inventory.alerts", "inventory"},
           key \in {e.data.order_id, e.data.sku} : RouteEvent(e) = Decision(topic, key)
  BY DEF RouteEvent, RoutePayment, RouteInventory
<1>2. topic # ""
  OBVIOUS
<1>3. Decision(topic, key) # NoDecision
  BY <1>2 DEF Decision, NoDecision
<1>4. Decision(topic, key) # NotSent
  BY DEF Decision, NotSent
<1>5. NoDecision # NotSent
  BY DEF Decision, NoDecision, NotSent
<1> QED
  BY <1>1, <1>3, <1>4, <1>5

(* What a router has done with its event.                                  *)
LEMMA RouterResult ==
  ASSUME RoutingInv, schema \in Routers, result # Pending
  PROVE  /\ event \in Made \cup Misshapen
         /\ Sent <=> result.raises = ""
         /\ Sent => /\ ValidateEvent(event) = "valid" /\ Serialize(event) = "encoded"
                    /\ result.sent = RouteEvent(event)
<1>1. Decided(event, result)
  BY PublishDecides DEF RoutingInv, Published, Routers
<1>2. event \in Made \cup Misshapen
  BY DEF RoutingInv
<1> QED
  BY <1>1, <1>2, DecisionsAreSent DEF Decided, Sent

LEMMA CountsTried ==
  ASSUME NEW v \in Counts, IsCount(v)
  PROVE  IsNum(v) /\ v[2] \in 0 .. MaxCount
<1>1. None[1] # "int" /\ Bool(TRUE)[1] # "int"
  BY DEF None, Bool
<1>2. PICK n \in -1 .. MaxCount : v = Num(n)
  BY <1>1 DEF Counts, IsCount, IsNum
<1>3. v[2] = n /\ v[2] >= 0 /\ MaxCount \in Nat
  BY <1>2, RoutingAssumption DEF Num, IsCount
<1> QED
  BY <1>3 DEF IsCount

(* What can be said of the event that a router has sent, row by row.       *)
LEMMA RoutedEvents ==
  ASSUME RoutingInv, Routed
  PROVE  \/ /\ event.event_type = Str("order.created")
            /\ NonEmptyString(event.data.order_id)
            /\ result.sent = Decision("orders", event.data.order_id)
         \/ /\ event.event_type = Str("payment.updated")
            /\ NonEmptyString(event.data.order_id)
            /\ result.sent = RoutePayment(event.data)
         \/ /\ event.event_type = Str("inventory.changed")
            /\ NonEmptyString(event.data.sku)
            /\ IsNum(event.data.available_units) /\ IsNum(event.data.reorder_point)
            /\ event.data.available_units[2] \in 0 .. MaxCount
            /\ event.data.reorder_point[2] \in 0 .. MaxCount
            /\ result.sent = RouteInventory(event.data)
<1>1. /\ event \in Made \cup Misshapen /\ ValidateEvent(event) = "valid"
      /\ result.sent = RouteEvent(event)
  BY RouterResult DEF Routed, Sent
<1>2. /\ Str("order.created") # Str("payment.updated")
      /\ Str("order.created") # Str("inventory.changed")
      /\ Str("payment.updated") # Str("inventory.changed")
  BY DEF Str
<1>3. CASE event.event_type = Str("order.created")
  BY <1>1, <1>2, <1>3, ValidEvents DEF RouteEvent
<1>4. CASE event.event_type = Str("payment.updated")
  BY <1>1, <1>2, <1>4, ValidEvents DEF RouteEvent
<1>5. CASE event.event_type = Str("inventory.changed")
  <2>1. /\ NonEmptyString(event.data.sku)
        /\ IsCount(event.data.available_units) /\ IsCount(event.data.reorder_point)
    BY <1>1, <1>2, <1>5, ValidEvents
  <2>2. event.data.available_units \in Counts /\ event.data.reorder_point \in Counts
    BY <1>1, <1>5, EventsTried
  <2>3. result.sent = RouteInventory(event.data)
    BY <1>1, <1>2, <1>5 DEF RouteEvent
  <2> QED
    BY <1>5, <2>1, <2>2, <2>3, CountsTried
<1> QED
  BY <1>1, <1>3, <1>4, <1>5, ValidEvents

LEMMA TableIsFollowed ==
  ASSUME RoutingInv, Routed
  PROVE  Rows = {result.sent.topic} /\ result.sent.key = Entity
<1>1. CASE /\ event.event_type = Str("order.created")
           /\ result.sent = Decision("orders", event.data.order_id)
  <2>1. Type(event) = "order.created"
    BY <1>1 DEF Type, Str
  <2>2. result.sent.topic = "orders" /\ result.sent.key = event.data.order_id
    BY <1>1 DEF Decision
  <2>3. Entity = event.data.order_id
    BY <2>1 DEF Entity
  <2>4. Rows = {"orders"}
    BY <2>1 DEF Rows
  <2> QED
    BY <2>2, <2>3, <2>4
<1>2. CASE /\ event.event_type = Str("payment.updated")
           /\ result.sent = RoutePayment(event.data)
  <2>1. Type(event) = "payment.updated"
    BY <1>2 DEF Type, Str
  <2>2. /\ result.sent.topic = IF IsFailed(event) THEN "payments.failed" ELSE "payments"
        /\ result.sent.key = event.data.order_id
    BY <1>2 DEF RoutePayment, Decision, IsFailed
  <2>3. Entity = event.data.order_id
    BY <2>1 DEF Entity
  <2>4. Rows = {IF IsFailed(event) THEN "payments.failed" ELSE "payments"}
    BY <2>1 DEF Rows
  <2> QED
    BY <2>2, <2>3, <2>4
<1>3. CASE /\ event.event_type = Str("inventory.changed")
           /\ event.data.available_units[2] \in 0 .. MaxCount
           /\ event.data.reorder_point[2] \in 0 .. MaxCount
           /\ result.sent = RouteInventory(event.data)
  <2> DEFINE u == event.data.available_units[2]
             r == event.data.reorder_point[2]
  <2>1. Type(event) = "inventory.changed"
    BY <1>3 DEF Type, Str
  <2>2. /\ result.sent.topic = IF u <= r THEN "inventory.alerts" ELSE "inventory"
        /\ result.sent.key = event.data.sku
    BY <1>3 DEF RouteInventory, Decision
  <2>3. Entity = event.data.sku
    BY <2>1 DEF Entity
  <2>4. MaxCount \in Nat /\ u \in 0 .. MaxCount /\ r \in 0 .. MaxCount
    BY <1>3, RoutingAssumption
  <2>5. /\ u <= r <=> r - u \in 0 .. MaxCount
        /\ ~(u <= r) <=> u - r \in 1 .. MaxCount
    <3> HIDE DEF u, r
    <3> QED
      BY <2>4
  <2>6. Rows = {topic \in {"orders", "payments.failed", "payments", "inventory.alerts", "inventory"} :
                  \/ topic = "inventory.alerts" /\ u <= r
                  \/ topic = "inventory" /\ ~(u <= r)}
    BY <2>1, <2>5 DEF Rows
  <2> HIDE DEF u, r
  <2>7. Rows = {IF u <= r THEN "inventory.alerts" ELSE "inventory"}
    BY <2>6
  <2> QED
    BY <2>2, <2>3, <2>7
<1> QED
  BY <1>1, <1>2, <1>3, RoutedEvents

(* Every event that is sent matches exactly one row of the routing table,  *)
(* goes to the topic of that row, and is keyed by its order or its sku.    *)
THEOREM RoutesFollowTheTable == Spec => []RoutedByTheTable
<1>1. RoutingInv => RoutedByTheTable
  BY TableIsFollowed DEF RoutedByTheTable
<1> QED
  BY <1>1, RoutingSafe, PTL

(* Whatever is routed has been validated: its key is a text that is not    *)
(* blank, and the levels that were compared are numbers.                   *)
THEOREM RoutesCanTrust == Spec => []TrustIsJustified
<1>1. RoutingInv => TrustIsJustified
  <2> SUFFICES ASSUME RoutingInv, Routed
               PROVE  /\ NonEmptyString(result.sent.key)
                      /\ Type(event) = "inventory.changed" =>
                           \A level \in {event.data.available_units, event.data.reorder_point} :
                             IsNum(level) /\ level[2] \in 0 .. MaxCount
    BY DEF TrustIsJustified
  <2>1. CASE /\ event.event_type = Str("order.created")
             /\ NonEmptyString(event.data.order_id)
             /\ result.sent = Decision("orders", event.data.order_id)
    BY <2>1 DEF Decision, Type, Str
  <2>2. CASE /\ event.event_type = Str("payment.updated")
             /\ NonEmptyString(event.data.order_id)
             /\ result.sent = RoutePayment(event.data)
    BY <2>2 DEF RoutePayment, Decision, Type, Str
  <2>3. CASE /\ NonEmptyString(event.data.sku)
             /\ IsNum(event.data.available_units) /\ IsNum(event.data.reorder_point)
             /\ event.data.available_units[2] \in 0 .. MaxCount
             /\ event.data.reorder_point[2] \in 0 .. MaxCount
             /\ result.sent = RouteInventory(event.data)
    BY <2>3 DEF RouteInventory, Decision
  <2> QED
    BY <2>1, <2>2, <2>3, RoutedEvents
<1> QED
  BY <1>1, RoutingSafe, PTL

-----------------------------------------------------------------------------
(* The events of the callback-confirmed producer, under any schema.        *)

LEMMA TextsDiffer ==
  ASSUME NEW s, s \notin {"", " ", "lone surrogate"}
  PROVE  Str(s) \notin {None, Empty, Blank, Surrogate}
BY DEF None, Empty, Blank, Surrogate, Str

(* What str() makes of each kind of value: only None, "" and " " say       *)
(* nothing, and only a lone surrogate has no encoding.                     *)
LEMMA ValuesSpeak ==
  ASSUME NEW v \in FieldValues
  PROVE  /\ Meaningful(v) <=> v \notin {None, Empty, Blank}
         /\ Text(v) = Surrogate <=> v = Surrogate
         /\ Text(v) # None
<1> USE DEF None, Empty, Blank, Surrogate, Str, Num, Bool, Unhashable
<1>1. /\ Text(None) = Str("None") /\ Text(Empty) = Empty /\ Text(Blank) = Empty
      /\ Text(Unhashable) = Str("[]") /\ Text(Surrogate) = Surrogate /\ Text(Str("a")) = Str("a")
  BY DEF Text
<1>2. Text(Num(0)) = Str(ToString(0))
  BY DEF Text
<1>3. Text(Bool(FALSE)) = Str("False")
  BY DEF Text
<1>4. ASSUME NEW s, s \notin {"", " ", "lone surrogate"}
      PROVE  Str(s) \notin {None, Empty, Blank, Surrogate}
  BY <1>4, TextsDiffer
<1>5. \A t : Str(t) # None
  OBVIOUS
<1>6. /\ Num(0) \notin {None, Empty, Blank, Surrogate}
      /\ Bool(FALSE) \notin {None, Empty, Blank, Surrogate}
      /\ Unhashable \notin {None, Empty, Blank, Surrogate}
      /\ Empty # Surrogate /\ Blank # Surrogate /\ None # Surrogate
  <2>1. Num(0) \notin {None, Empty, Blank, Surrogate}
    OBVIOUS
  <2>2. Bool(FALSE) \notin {None, Empty, Blank, Surrogate}
    OBVIOUS
  <2>3. Unhashable \notin {None, Empty, Blank, Surrogate}
    OBVIOUS
  <2>4. Empty # Surrogate /\ Blank # Surrogate /\ None # Surrogate
    OBVIOUS
  <2> HIDE DEF None, Empty, Blank, Surrogate, Num, Bool, Unhashable
  <2> QED
    BY <2>1, <2>2, <2>3, <2>4
<1>7. CASE v \in {None, Empty, Blank, Unhashable, Surrogate, Str("a")}
  BY <1>1, <1>4, <1>5, <1>6, <1>7 DEF Meaningful
<1>8. CASE v = Num(0)
  <2>1. Text(v) \notin {None, Empty, Blank, Surrogate}
    BY <1>2, <1>4, <1>8, RoutingAssumption
  <2> QED
    BY <1>6, <1>8, <2>1 DEF Meaningful
<1>9. CASE v = Bool(FALSE)
  <2>1. Text(v) \notin {None, Empty, Blank, Surrogate}
    BY <1>3, <1>4, <1>9
  <2> QED
    BY <1>6, <1>9, <2>1 DEF Meaningful
<1> QED
  BY <1>7, <1>8, <1>9 DEF FieldValues

LEMMA DictsTried ==
  ASSUME NEW e \in Dicts
  PROVE  /\ e.isDict /\ e.extra \in {"json", "nan"}
         /\ \A name \in DOMAIN e.fields : e.fields[name] \in FieldValues
<1>1. PICK f \in UNION {[names -> FieldValues] : names \in SUBSET FieldNames}, x \in {"json", "nan"} :
        e = [isDict |-> TRUE, fields |-> f, extra |-> x]
  BY DEF Dicts
<1>2. e.isDict /\ e.extra = x /\ e.fields = f
  BY <1>1
<1>3. \A name \in DOMAIN f : f[name] \in FieldValues
  OBVIOUS
<1> QED
  BY <1>2, <1>3

(* publish_event turns away what is not sound, and nothing else.           *)
LEMMA SchemaResult ==
  ASSUME RoutingInv, schema \notin Routers, result # Pending
  PROVE  /\ Sent <=> result.raises = ""
         /\ Sent <=> Sound
<1>1. event \in Dicts \cup {NoDict} /\ result = PublishEvent(schema, event)
  BY DEF RoutingInv, Published, Routers
<1> DEFINE i  == event.fields[schema.id]
           k  == event.fields[schema.key]
           ok == /\ Validate(schema, event)
                 /\ BuildMessageKey(schema, event) # Surrogate
                 /\ EncodeEventAsJson(event)
<1>2. ok <=> Sound
  <2>1. CASE event = NoDict
    <3>1. ~event.isDict
      BY <2>1 DEF NoDict
    <3> QED
      BY <3>1 DEF Validate, Sound
  <2>2. CASE event \in Dicts
    <3>1. /\ event.isDict /\ event.extra \in {"json", "nan"}
          /\ \A name \in DOMAIN event.fields : event.fields[name] \in FieldValues
      BY <2>2, DictsTried
    <3>2. EncodeEventAsJson(event) <=> event.extra = "json"
      BY <3>1 DEF EncodeEventAsJson
    <3>3. CASE ~(RequiredFields(schema) \subseteq DOMAIN event.fields)
      BY <3>3 DEF Validate, Sound, RequiredFields
    <3>4. CASE RequiredFields(schema) \subseteq DOMAIN event.fields
      <4>1. i \in FieldValues /\ k \in FieldValues
        BY <3>1, <3>4 DEF RequiredFields
      <4>2. /\ Meaningful(i) <=> i \notin {None, Empty, Blank}
            /\ Meaningful(k) <=> k \notin {None, Empty, Blank}
            /\ Text(k) = Surrogate <=> k = Surrogate
        BY <4>1, ValuesSpeak
      <4>3. Validate(schema, event) <=> Meaningful(i) /\ Meaningful(k)
        BY <3>1, <3>4 DEF Validate
      <4>4. Sound <=> /\ event.extra = "json"
                      /\ i \notin {None, Empty, Blank} /\ k \notin {None, Empty, Blank}
                      /\ k # Surrogate
        <5>1. \A name \in {schema.id, schema.key} \cup schema.other : name \in DOMAIN event.fields
          BY <3>4 DEF RequiredFields
        <5>2. {i, k} \cap {None, Empty, Blank} = {}
                <=> i \notin {None, Empty, Blank} /\ k \notin {None, Empty, Blank}
          OBVIOUS
        <5> QED
          BY <3>1, <5>1, <5>2 DEF Sound
      <4>5. BuildMessageKey(schema, event) = Text(k)
        BY DEF BuildMessageKey
      <4> HIDE DEF i, k
      <4> QED
        BY <3>2, <4>2, <4>3, <4>4, <4>5
    <3> QED
      BY <3>3, <3>4
  <2> QED
    BY <1>1, <2>1, <2>2
<1>3. CASE ~ok
  <2>1. result.raises = "ValueError" /\ result.sent = NotSent
    BY <1>1, <1>3 DEF PublishEvent
  <2> QED
    BY <1>2, <1>3, <2>1 DEF Sent
<1>4. CASE ok
  <2>1. result.raises = "" /\ result.sent = [id |-> Text(i), key |-> BuildMessageKey(schema, event)]
    BY <1>1, <1>4 DEF PublishEvent
  <2>2. Text(i) # None
    <3>1. event \in Dicts
      <4>1. event.isDict
        BY <1>4 DEF Validate
      <4>2. ~NoDict.isDict
        BY DEF NoDict
      <4> QED
        BY <1>1, <4>1, <4>2
    <3>2. i \in FieldValues
      BY <1>4, <3>1, DictsTried DEF Validate, RequiredFields
    <3> QED
      BY <3>2, ValuesSpeak
  <2> HIDE DEF i, k, ok
  <2>3. result.sent # NotSent /\ result.sent # NoDecision
    <3>1. ASSUME NEW a, NEW b, a # None
          PROVE  [id |-> a, key |-> b] # NotSent /\ [id |-> a, key |-> b] # NoDecision
      <4>1. [id |-> a, key |-> b] # NotSent
        BY <3>1 DEF NotSent
      <4>2. [id |-> a, key |-> b] # NoDecision
        BY DEF NoDecision, Decision
      <4> QED
        BY <4>1, <4>2
    <3> QED
      BY <2>1, <2>2, <3>1
  <2> QED
    BY <1>2, <1>4, <2>1, <2>3 DEF Sent
<1> QED
  BY <1>3, <1>4

(* An exception and a message never come of one publish; what is sent can  *)
(* be encoded, and under a schema exactly the sound events are sent.       *)
THEOREM SentExactlyIfSound == Spec => []SentIffSound
<1>1. RoutingInv => SentIffSound
  <2> SUFFICES ASSUME RoutingInv, result # Pending
               PROVE  /\ Sent <=> result.raises = ""
                      /\ Routed => event.data.extra = "json"
                      /\ schema \notin Routers => (Sent <=> Sound)
    BY DEF SentIffSound
  <2>1. CASE schema \in Routers
    <3>1. /\ event \in Made \cup Misshapen /\ (Sent <=> result.raises = "")
          /\ Sent => Serialize(event) = "encoded"
      BY <2>1, RouterResult
    <3>2. event.data.extra \in Extras
      BY <3>1, EventsTried
    <3>3. Serialize(event) = "encoded" => event.data.extra = "json"
      BY <3>2 DEF Serialize, Extras
    <3> QED
      BY <2>1, <3>1, <3>3 DEF Routed
  <2>2. CASE schema \notin Routers
    BY <2>2, SchemaResult DEF Routed
  <2> QED
    BY <2>1, <2>2
<1> QED
  BY <1>1, RoutingSafe, PTL

================================================================================
