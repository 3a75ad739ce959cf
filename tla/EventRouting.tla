---------------------------- MODULE EventRouting -----------------------------
(***************************************************************************)
(* The pure part of the content-based router: make_event, validate_event,  *)
(* route_event and serialize_event.                                        *)
(*                                                                         *)
(* A field that is missing reads as None.                                  *)
(***************************************************************************)
EXTENDS PythonValues

NonEmptyString(v) == IsStr(v) /\ v \notin {Empty, Blank}

PaymentStatuses == {Str("PENDING"), Str("SUCCEEDED"), Str("FAILED")}

(* event_id or str(uuid.uuid4()); the caller's " " is true, "" is not.     *)
MakeEvent(type, data, id) ==
  [isDict |-> TRUE, event_type |-> type, occurred_at |-> Str("now"),
   event_id |-> IF id \in {None, Empty} THEN Str("uuid") ELSE id, data |-> data]

-----------------------------------------------------------------------------
(* validate_event: the name of the exception it raises, or "valid"         *)

EnvelopeOK(event) ==
  /\ event.isDict
  /\ \A field \in {"event_id", "event_type", "occurred_at"} : NonEmptyString(event[field])
  /\ event.data.isDict

FieldsPresent(data, fields) == \A f \in fields : NonEmptyString(data[f])

\* Mutant: isinstance(number, int) also holds of True and False.
IsCountOrBool(v) == v[1] = "bool" \/ (IsNum(v) /\ v[2] >= 0)

IsCount(v) == IsNum(v) /\ v[2] >= 0

Require(test) == IF test THEN "valid" ELSE "EventValidationError"

(* `status not in frozenset` hashes the status first.                      *)
ValidateStatus(status) ==
  IF status = Unhashable THEN "TypeError" ELSE Require(status \in PaymentStatuses)

ValidateData(type, data) ==
  CASE type = Str("order.created") ->
         Require(FieldsPresent(data, {"order_id", "customer_id"}))
    [] type = Str("payment.updated") ->
         IF FieldsPresent(data, {"payment_id", "order_id"})
         THEN ValidateStatus(data.status)
         ELSE "EventValidationError"
    [] type = Str("inventory.changed") ->
         Require(FieldsPresent(data, {"sku"}) /\ IsCount(data.available_units)
                                            /\ IsCount(data.reorder_point))
    [] OTHER -> "UnknownEventTypeError"

ValidateEvent(event) ==
  IF EnvelopeOK(event) THEN ValidateData(event.event_type, event.data)
                       ELSE "EventValidationError"

-----------------------------------------------------------------------------
(* route_event, for an event that validate_event lets through              *)

Decision(topic, key) == [topic |-> topic, key |-> key]

\* Mutant: stock exactly at the reorder point raises no alert.
RouteInventoryBelow(data) ==
  Decision(IF data.available_units[2] < data.reorder_point[2]
           THEN "inventory.alerts" ELSE "inventory", data.sku)

RouteInventory(data) ==
  Decision(IF data.available_units[2] <= data.reorder_point[2]
           THEN "inventory.alerts" ELSE "inventory", data.sku)

RoutePayment(data) ==
  IF data.status = Str("FAILED") THEN Decision("payments.failed", data.order_id)
                                 ELSE Decision("payments", data.order_id)

RouteEvent(event) ==
  CASE event.event_type = Str("order.created") ->
         Decision("orders", event.data.order_id)
    [] event.event_type = Str("payment.updated") -> RoutePayment(event.data)
    [] OTHER -> RouteInventory(event.data)

-----------------------------------------------------------------------------
(* serialize_event: data.extra stands for whatever else the data holds     *)

Serialize(event) ==
  CASE event.data.extra \in {"nan", "object"} -> "EventValidationError"
    [] event.data.extra = "surrogate"         -> "UnicodeEncodeError"
    [] OTHER                                  -> "encoded"

NoDecision == Decision("", None)

\* Mutant: the payload is encoded after the message has been routed and sent.
PublishBeforeEncoding(event) ==
  LET check == ValidateEvent(event)
  IN  IF check # "valid" THEN [raises |-> check, sent |-> NoDecision]
      ELSE [raises |-> IF Serialize(event) = "encoded" THEN "" ELSE Serialize(event),
            sent   |-> RouteEvent(event)]

(* The part of publish() before the client: what it raises, or what it     *)
(* hands to produce().                                                     *)
Publish(event) ==
  LET check == ValidateEvent(event)
      bytes == Serialize(event)
  IN  IF check # "valid"        THEN [raises |-> check, sent |-> NoDecision]
      ELSE IF bytes # "encoded" THEN [raises |-> bytes, sent |-> NoDecision]
      ELSE [raises |-> "", sent |-> RouteEvent(event)]
=============================================================================
