----------------------------- MODULE EventSchema -----------------------------
(***************************************************************************)
(* The event contract of the callback-confirmed producer: which fields an  *)
(* event must have, and the bytes it becomes.  A schema names the fields   *)
(* of the identifier and of the key, and the others it requires.  An event *)
(* that is a dict has `fields`, a function from the names that are present *)
(* to their values, and `extra`, for whatever else it holds.               *)
(***************************************************************************)
EXTENDS PythonValues

(* __post_init__ lets no schema through that could never work.             *)
SchemaOK(schema) == \A name \in {schema.id, schema.key} : Text(Str(name)) # Empty

RequiredFields(schema) == {schema.id, schema.key} \cup schema.other

\* Mutant: a number 0, or an empty list, counts as missing.
MeaningfulIfTrue(value) == value \notin {None, Num(0), Unhashable} /\ Text(value) # Empty

(* None would become the text "None": it is excluded by name.              *)
Meaningful(value) == value # None /\ Text(value) # Empty

Validate(schema, event) ==
  /\ event.isDict
  /\ RequiredFields(schema) \subseteq DOMAIN event.fields
  /\ Meaningful(event.fields[schema.id]) /\ Meaningful(event.fields[schema.key])

(* str(...).encode("utf-8"); UnicodeEncodeError is a ValueError as well.   *)
BuildMessageKey(schema, event) == Text(event.fields[schema.key])

(* JSON escapes what has no encoding; NaN and objects are ValueErrors.     *)
EncodeEventAsJson(event) == event.extra \notin {"nan", "object"}

NotSent == [id |-> None, key |-> None]

(* publish_event() up to produce(): what it raises or hands on.            *)
PublishEvent(schema, event) ==
  IF \/ ~Validate(schema, event)
     \/ BuildMessageKey(schema, event) = Surrogate
     \/ ~EncodeEventAsJson(event)
  THEN [raises |-> "ValueError", sent |-> NotSent]
  ELSE [raises |-> "",
        sent |-> [id  |-> Text(event.fields[schema.id]),
                  key |-> BuildMessageKey(schema, event)]]

=============================================================================
