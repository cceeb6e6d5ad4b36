----------------------------- MODULE JsonTokens -----------------------------
(***************************************************************************)
(* What a user of JsonReader or JsonWriter (src/base) may rely on: the     *)
(* tokens that Next() hands out, or that the calls of the writer stand     *)
(* for, are those of a stream of JSON values.  Arrays and objects are      *)
(* closed in the reverse of the order in which they were opened, and in an *)
(* object names and values alternate.                                      *)
(***************************************************************************)
EXTENDS Sequences, SequencesExt

VARIABLES
  open,   \* the containers that are open, the innermost one last
  token   \* the token that was handed out last

Scalars == {"String", "Integer", "Float", "Boolean", "Null"}

JsonToken == Scalars \cup
  {"None", "StartArray", "EndArray", "StartObject", "EndObject", "PropertyName"}

Within(c) == open # <<>> /\ Last(open) = c

Named == token = "PropertyName"

ValueDue == open = <<>> \/ Within("Array") \/ Named

Init == open = <<>> /\ token = "None"

Scalar ==
  /\ ValueDue
  /\ token' \in Scalars
  /\ UNCHANGED open

Start(c, t) ==
  /\ ValueDue
  /\ open' = Append(open, c)
  /\ token' = t

End(c, t) ==
  /\ Within(c)
  /\ ~Named
  /\ open' = Front(open)
  /\ token' = t

PropertyName ==
  /\ Within("Object")
  /\ ~Named
  /\ token' = "PropertyName"
  /\ UNCHANGED open

Next ==
  \/ Scalar
  \/ Start("Array", "StartArray") \/ End("Array", "EndArray")
  \/ Start("Object", "StartObject") \/ End("Object", "EndObject")
  \/ PropertyName

Spec == Init /\ [][Next]_<<open, token>>
=============================================================================
