---------------------------- MODULE JsonLexemes -----------------------------
(***************************************************************************)
(* JSON text as JsonWriter writes it and JsonReader reads it, cut into     *)
(* lexemes: a punctuation character, a run of white space, a string, a     *)
(* number or a keyword that is well formed, or one of the ways in which    *)
(* these can be wrong.                                                     *)
(***************************************************************************)
EXTENDS Integers, Sequences, SequencesExt, FiniteSets

CONSTANTS
  Value,   \* the values of strings and numbers; none contains a character
           \* that ends a number
  NoValue  \* the value of a token without one, or of a string cut short

ASSUME ValueAssumption == NoValue \notin Value

Punct(t) == [type |-> t]
Space == Punct("space")
Literal(t, v) == [type |-> t, value |-> v]

Broken ==
  { "badEscape",     \* a string with an escape sequence JSON does not have
    "unterminated",  \* a string that the file ends in
    "badKeyword",    \* nul, folse
    "hugeNumber",    \* a number that strtoll or strtod refuses
    "minus",         \* a minus sign that no digit follows
    "other" }        \* any other character

Lexeme ==
  [type : {"{", "}", "[", "]", ",", ":", "space", "true", "false", "null"}]
    \cup [type : {"string", "integer", "float"}, value : Value]
    \cup [type : Broken]

(***************************************************************************)
(* The text of a sequence of tokens: what the JSON grammar says it is,     *)
(* without optional white space.  Definitions for the properties only.     *)
(***************************************************************************)
Starts == {"StartArray", "StartObject"}
Ends == {"EndArray", "EndObject"}

\* How many arrays and objects are open after the first n of tokens ts.
Depth(ts, n) ==
  Cardinality({i \in 1..n : ts[i].type \in Starts})
    - Cardinality({i \in 1..n : ts[i].type \in Ends})

TokenText(t) ==
  CASE t.type = "StartArray"   -> <<Punct("[")>>
    [] t.type = "EndArray"     -> <<Punct("]")>>
    [] t.type = "StartObject"  -> <<Punct("{")>>
    [] t.type = "EndObject"    -> <<Punct("}")>>
    [] t.type = "PropertyName" -> <<Literal("string", t.value), Punct(":")>>
    [] t.type = "String"       -> <<Literal("string", t.value)>>
    [] t.type = "Integer"      -> <<Literal("integer", t.value)>>
    [] t.type = "Float"        -> <<Literal("float", t.value)>>
    [] t.type = "Boolean"      -> <<Punct(IF t.value THEN "true" ELSE "false")>>
    [] t.type = "Null"         -> <<Punct("null")>>

\* Members of an array or object are separated by commas.
Separator(ts, i) ==
  IF /\ i > 1
     /\ Depth(ts, i - 1) > 0
     /\ ts[i].type \notin Ends
     /\ ts[i - 1].type \notin Starts \cup {"PropertyName"}
  THEN <<Punct(",")>>
  ELSE <<>>

Canonical(ts) ==
  FlattenSeq([i \in DOMAIN ts |-> Separator(ts, i) \o TokenText(ts[i])])

\* The text without white space.
Squeeze(text) ==
  FlattenSeq([i \in DOMAIN text |-> IF text[i] = Space THEN <<>> ELSE <<text[i]>>])
=============================================================================
