------------------------------ MODULE Payloads ------------------------------
(***************************************************************************)
(* The payload of an outbox row: how serialize writes the fields of an     *)
(* event as JSON and how deserialize reads them back, guided by the type   *)
(* hints of the event's class.                                             *)
(*                                                                         *)
(* A Python value is told by its type and by what it is, a JSON value by   *)
(* its kind and by what it is.  The identifiers and timestamps that every  *)
(* event has go the same way as the fields of the catalog and are left     *)
(* out, descriptions as well.                                              *)
(***************************************************************************)

None == [type |-> "None"]
Str(s) == [type |-> "str", is |-> s]
Decimal(d) == [type |-> "Decimal", is |-> d]

Null == [json |-> "null"]
String(s) == [json |-> "string", is |-> s]

(* The annotated fields of the event classes; Updated ones are optional.   *)
Required(hint) == [optional |-> FALSE, inner |-> hint]
Optional(hint) == [optional |-> TRUE, inner |-> hint]

ItemHints == [
  Created |-> [name |-> Required("str"), price |-> Required("Decimal")],
  Updated |-> [name |-> Optional("str"), price |-> Optional("Decimal")],
  Deleted |-> <<>>]
CategoryHints == [
  Created |-> [name |-> Required("str"), slug |-> Required("str")],
  Updated |-> [name |-> Optional("str"), slug |-> Optional("str")],
  Deleted |-> <<>>]

(* What json.dumps with _json_default makes of a value: a Decimal becomes  *)
(* a string.                                                               *)
Dumped(value) == IF value = None THEN Null ELSE String(value.is)

(* serialize                                                               *)
Serialize(event) == [f \in DOMAIN event |-> Dumped(event[f])]

(* What json.loads makes of it. *)
Loaded(json) == IF json = Null THEN None ELSE Str(json.is)

(* Mutant of Coerce: the type inside X | None is not looked at. *)
CoerceRequired(json, hint) ==
  IF ~hint.optional /\ hint.inner = "Decimal" /\ json # Null THEN Decimal(json.is)
  ELSE Loaded(json)

(* _coerce with _is_optional *)
Coerce(json, hint) ==
  IF hint.inner = "Decimal" /\ json # Null THEN Decimal(json.is) ELSE Loaded(json)

(* The registry has the three classes of items and none of categories. *)
EVENT_REGISTRY == [Item |-> ItemHints]
KeyError == [error |-> "KeyError"]

(* deserialize, for the event of that type of an aggregate *)
Deserialize(aggregate, type, payload) ==
  IF aggregate \notin DOMAIN EVENT_REGISTRY THEN KeyError
  ELSE LET hints == EVENT_REGISTRY[aggregate][type]
       IN  [f \in DOMAIN payload \cap DOMAIN hints |-> Coerce(payload[f], hints[f])]
=============================================================================
