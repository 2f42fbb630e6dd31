--------------------------- MODULE PayloadReference ---------------------------
(***************************************************************************)
(* PayloadSchema against a reference: JSON Schema read keyword by keyword, *)
(* each keyword a set of values that does not depend on the others.        *)
(* TLC compares the two on every schema and value of the sets below.       *)
(***************************************************************************)
EXTENDS PayloadSchema

RECURSIVE Conforms(_, _)

(* What a keyword allows, if it were alone.                                *)
Allows(schema, keyword, value) ==
  CASE keyword = "type"      -> \/ value.type \in schema.type
                                \/ value.type = "integer" /\ "number" \in schema.type
    [] keyword = "const"     -> value = schema.const
    [] keyword = "enum"      -> value \in schema.enum
    [] keyword = "minimum"   -> value.type \in {"integer", "number"} => value.value >= schema.minimum
    [] keyword = "maximum"   -> value.type \in {"integer", "number"} => value.value <= schema.maximum
    [] keyword = "minLength" -> value.type = "string" => value.value >= schema.minLength
    [] keyword = "maxLength" -> value.type = "string" => value.value <= schema.maxLength
    [] keyword = "pattern"   -> value.type = "string" => schema.pattern \in value.matches
    [] keyword = "minItems"  -> value.type = "array" => Len(value.value) >= schema.minItems
    [] keyword = "maxItems"  -> value.type = "array" => Len(value.value) <= schema.maxItems
    [] keyword = "items"     -> value.type = "array" =>
                                  \A i \in DOMAIN value.value : Conforms(schema.items, value.value[i])
    [] keyword = "required"  -> value.type = "object" => schema.required \subseteq DOMAIN value.value
    [] keyword = "properties" ->
         value.type = "object" =>
           \A name \in DOMAIN schema.properties \intersect DOMAIN value.value :
             Conforms(schema.properties[name], value.value[name])
    [] keyword = "additionalProperties" ->
         value.type = "object" /\ ~ schema.additionalProperties =>
           DOMAIN value.value \subseteq
             IF Has(schema, "properties") THEN DOMAIN schema.properties ELSE {}

Conforms(schema, value) == \A keyword \in DOMAIN schema : Allows(schema, keyword, value)

-----------------------------------------------------------------------------
Scalars ==
  {Json("integer", n) : n \in 0..2} \union {Json("number", 1), Json("null", 0)}
  \union {Json("boolean", n) : n \in {0, 1}}
  \union {Text(n, {}) : n \in 0..2} \union {Text(1, {"p"})}

Values ==
  Scalars
  \union {Json("array", items) : items \in {<<>>} \union [1..1 -> Scalars] \union [1..2 -> Scalars]}
  \union {Json("object", fields) : fields \in UNION {[names -> Scalars] : names \in SUBSET {"a", "b"}}}

ScalarSchemas ==
  {[type |-> choices] : choices \in {{"integer"}, {"number"}, {"string", "null"}, {"boolean"}}}
  \union {[minimum |-> n, maximum |-> m] : n, m \in 0..2}
  \union {[type |-> {"string"}, minLength |-> n, maxLength |-> m] : n, m \in 0..2}
  \union {[pattern |-> "p"]}
  \union {[enum |-> {Text(1, {}), Json("null", 0)}]}

Schemas ==
  ScalarSchemas
  \union {[items |-> item, minItems |-> n, type |-> {"array"}] : item \in ScalarSchemas, n \in 0..2}
  \union {[properties |-> [a |-> field], required |-> names, additionalProperties |-> more] :
            field \in ScalarSchemas, names \in SUBSET {"a", "b"}, more \in BOOLEAN}

(* On these the code computes what the reference says: its order of tests  *)
(* and its early returns make no difference.                               *)
ASSUME ValidIsConforms ==
  \A schema \in Schemas, value \in Values : Valid(schema, value) <=> Conforms(schema, value)

(* Where it differs: minItems alone counts the characters of a string, and *)
(* a boolean equals the number it is to Python.                            *)
ASSUME ValidDiffers ==
  /\ ~ Valid([minItems |-> 1], Text(0, {})) /\ Conforms([minItems |-> 1], Text(0, {}))
  /\ Valid([const |-> Json("integer", 1)], Json("boolean", 1))
  /\ ~ Conforms([const |-> Json("integer", 1)], Json("boolean", 1))
=============================================================================
