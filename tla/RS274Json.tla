----------------------------- MODULE RS274Json -----------------------------
(***************************************************************************)
(* The serializer: get_command_list_jsonstr renders the command list with  *)
(* json.dumps.  What the downstream controller sees of a Python value is   *)
(* the JSON token json.dumps writes for it; JsonKind is that conversion.   *)
(* json.dumps writes True/False as true/false, None as null, and a NaN     *)
(* float as the bare word NaN, which is not JSON.                          *)
(***************************************************************************)
EXTENDS RS274Values

JsonKinds == {"integer", "number", "boolean", "NaN", "string", "null"}

JsonKind(v) ==
  CASE v.t = "int"   -> "integer"
    [] v.t = "bool"  -> "boolean"
    [] v.t = "float" -> "number"
    [] v.t = "nan"   -> "NaN"
    [] v.t = "str"   -> "string"
    [] v.t = "none"  -> "null"

\* The keys of a command dict whose value the interface (spec section 6)
\* declares an integer.
IntegerKeys ==
  {"CoordinateIndex", "EleparamIndex", "FeedSpeed", "DrillHoldTime"}

\* The keys whose value is declared a number (a time, a depth, a speed).
NumberKeys ==
  IntegerKeys \cup {"DelayTime", "DrillDepth", "DrillSpindleSpeed"}

=============================================================================
