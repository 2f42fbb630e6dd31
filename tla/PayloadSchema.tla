---------------------------- MODULE PayloadSchema ----------------------------
(***************************************************************************)
(* validate_payload: the JSON Schema subset an event payload is checked    *)
(* against.  Raising PayloadSchemaError, for the payload or for a schema   *)
(* that is not well formed, is FALSE.                                      *)
(*                                                                         *)
(* A schema is a function on the keywords it has; "type" is the set of its *)
(* choices.                                                                *)
(***************************************************************************)
EXTENDS Integers, Sequences, PayloadValues

Has(schema, keyword) == keyword \in DOMAIN schema

(* An unknown choice raises unless an earlier one fits; which is earlier   *)
(* is not told apart here.                                                 *)
MatchesType(choices, value) ==
  /\ choices \subseteq Types
  /\ \/ value.type \in choices
     \/ value.type = "integer" /\ "number" \in choices

(* Python's ==: True is 1, False is 0 and an integer is that float.        *)
Numeric == {"integer", "number", "boolean"}

Same(a, b) ==
  IF a.type \in Numeric /\ b.type \in Numeric THEN a.value = b.value ELSE a = b

(* minLength and minItems are one test: the first given counts, for a      *)
(* string and for an array alike.                                          *)
BoundedLength(schema, length) ==
  /\ IF Has(schema, "minLength") THEN length >= schema.minLength
     ELSE Has(schema, "minItems") => length >= schema.minItems
  /\ IF Has(schema, "maxLength") THEN length <= schema.maxLength
     ELSE Has(schema, "maxItems") => length <= schema.maxItems

ValidString(schema, value) ==
  /\ BoundedLength(schema, value.value)
  /\ Has(schema, "pattern") => schema.pattern \in value.matches

ValidNumber(schema, value) ==
  /\ Has(schema, "minimum") => value.value >= schema.minimum
  /\ Has(schema, "maximum") => value.value <= schema.maximum

RECURSIVE Valid(_, _)

ValidObject(schema, fields) ==
  LET declared == IF Has(schema, "properties") THEN DOMAIN schema.properties ELSE {}
  IN  /\ Has(schema, "required") => schema.required \subseteq DOMAIN fields
      /\ Has(schema, "additionalProperties") /\ ~ schema.additionalProperties
         => DOMAIN fields \subseteq declared
      /\ \A name \in declared \intersect DOMAIN fields :
           Valid(schema.properties[name], fields[name])

ValidArray(schema, items) ==
  /\ BoundedLength(schema, Len(items))
  /\ Has(schema, "items") => \A i \in DOMAIN items : Valid(schema.items, items[i])

Valid(schema, value) ==
  /\ Has(schema, "type") => MatchesType(schema.type, value)
  /\ Has(schema, "const") => Same(value, schema.const)
  /\ Has(schema, "enum") => \E option \in schema.enum : Same(value, option)
  /\ CASE value.type = "object" -> ValidObject(schema, value.value)
       [] value.type = "array"  -> ValidArray(schema, value.value)
       [] value.type = "string" -> ValidString(schema, value)
       [] value.type \in {"integer", "number"} -> ValidNumber(schema, value)
       [] OTHER -> TRUE
=============================================================================
