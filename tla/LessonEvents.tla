---------------------------- MODULE LessonEvents -----------------------------
(***************************************************************************)
(* The event functions of notebook 04, which the content-based router of   *)
(* the package grew from.  The checks and the routes are those of the      *)
(* package; the encoding differs: the final encode() stands inside the     *)
(* try, and a UnicodeEncodeError is a ValueError.                          *)
(***************************************************************************)
EXTENDS EventRouting

LessonValidateEvent(event) == ValidateEvent(event)

LessonRouteEvent(event) == RouteEvent(event)

\* Mutant: an event without an encoding is sent empty.
LessonSerializeLeniently(event) ==
  IF Serialize(event) = "EventValidationError" THEN "EventValidationError" ELSE "encoded"

LessonSerialize(event) ==
  IF Serialize(event) = "encoded" THEN "encoded" ELSE "EventValidationError"

(* route_event, which validates, and then serialize_event, before the      *)
(* client is touched.                                                      *)
PublishOneEvent(event) ==
  LET check == LessonValidateEvent(event)
      bytes == LessonSerialize(event)
  IN  IF "valid" # check        THEN [raises |-> check, sent |-> NoDecision]
      ELSE IF "encoded" # bytes THEN [raises |-> bytes, sent |-> NoDecision]
      ELSE [raises |-> "", sent |-> LessonRouteEvent(event)]

=============================================================================
