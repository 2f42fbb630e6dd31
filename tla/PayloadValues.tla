---------------------------- MODULE PayloadValues ----------------------------
(***************************************************************************)
(* JSON values, as far as the schema of a payload tells them apart: value  *)
(* is the field map of an object, the sequence of an array, the length of  *)
(* a string (with the patterns that match it), a number, 0 or 1 for a      *)
(* boolean.                                                                *)
(***************************************************************************)

Types == {"object", "array", "string", "number", "integer", "boolean", "null"}

(* A value of any type but string.                                         *)
Json(type, value) == [type |-> type, value |-> value, matches |-> {}]

Text(length, matches) == [type |-> "string", value |-> length, matches |-> matches]
=============================================================================
