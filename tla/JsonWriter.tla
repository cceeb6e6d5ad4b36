----------------------------- MODULE JsonWriter -----------------------------
(***************************************************************************)
(* JsonWriter (src/base/json_writer.{h,cc}), with the indenting flag on or *)
(* off.  The conditions the code asserts are guards: a call that breaks    *)
(* one ends the process.  That a value in an object is preceded by its     *)
(* name is asserted only after the first named member: BeginValue lets     *)
(* values pass right after BeginObject, and so does the caller here.  A    *)
(* text is JSON only while the caller keeps to NamesFirst.                 *)
(***************************************************************************)
EXTENDS JsonLexemes

CONSTANTS
  Indent,   \* flags_ & JsonWriterFlags_Indent
  MaxCalls, \* bound on the number of tokens written
  MaxDepth, \* bound on the nesting of arrays and objects
  MaxPack   \* bound on the nesting of BeginPack

ASSUME WriterAssumption ==
  /\ Indent \in BOOLEAN
  /\ MaxCalls \in Nat /\ MaxDepth \in Nat /\ MaxPack \in Nat

VARIABLES
  wmode,        \* mode_
  wmode_stack,  \* mode_stack_, the top last
  indent,       \* indent_
  pack,         \* pack_
  text,         \* what has been written to stream_
  margins,      \* history: for each line that was begun, its indentation and
                \* how many containers were open
  calls         \* history: the calls that were made, as tokens

writerVars == <<wmode, wmode_stack, indent, pack, text, margins, calls>>

WriterInit ==
  /\ wmode = "DocumentStart"
  /\ wmode_stack = <<>>
  /\ indent = 0
  /\ pack = 0
  /\ text = <<>>
  /\ margins = {}
  /\ calls = <<>>

NewLine == Indent /\ pack = 0

\* BeginNewLineIfNecessary with indent_ n: the text that it writes.
LineBreak == IF NewLine THEN <<Space>> ELSE <<>>
BreakLine(n, depth) ==
  margins' = IF NewLine THEN margins \cup {<<n, depth>>} ELSE margins

\* A comma, and the space behind it on a packed line.
Comma == IF Indent /\ pack > 0 THEN <<Punct(","), Space>> ELSE <<Punct(",")>>

Called(t, v) == calls' = Append(calls, [type |-> t, value |-> v])
Within == Len(calls) < MaxCalls

InArray == wmode \in {"StartArray", "MiddleArray"}

(***************************************************************************)
(* BeginValue: the mode it leaves, and the text it writes.                 *)
(***************************************************************************)
MayBeginValue == wmode # "ObjectPropertyName"

ModeInValue ==
  CASE wmode = "ObjectPropertyValue" -> "ObjectPropertyName"
    [] wmode = "StartArray" -> "MiddleArray"
    [] OTHER -> wmode

\* Faulty variant: the comma is decided on after the mode has changed.
BeginValueTextLate ==
  IF InArray THEN Comma \o LineBreak ELSE <<>>

BeginValueText ==
  (IF wmode = "MiddleArray" THEN Comma ELSE <<>>)
    \o (IF InArray THEN LineBreak ELSE <<>>)

BreakBeforeValue ==
  IF InArray THEN BreakLine(indent, Len(wmode_stack)) ELSE UNCHANGED margins

(***************************************************************************)
(* The calls.                                                              *)
(***************************************************************************)
\* WriteString, WriteInteger, WriteBoolean, WriteNull.
WriteScalar(t, v) ==
  /\ Within
  /\ MayBeginValue
  /\ wmode' = ModeInValue
  /\ text' = (text \o BeginValueText) \o TokenText([type |-> t, value |-> v])
  /\ BreakBeforeValue
  /\ Called(t, v)
  /\ UNCHANGED <<wmode_stack, indent, pack>>

\* Faulty variant: mode_ is pushed as it was before the value began.
BeginContainerEarly(m, t) ==
  /\ Within
  /\ Len(wmode_stack) < MaxDepth
  /\ MayBeginValue
  /\ wmode_stack' = Append(wmode_stack, wmode)
  /\ wmode' = m
  /\ indent' = indent + 2
  /\ text' = (text \o BeginValueText) \o TokenText([type |-> t])
  /\ BreakBeforeValue
  /\ Called(t, NoValue)
  /\ UNCHANGED pack

\* BeginArray, BeginObject.
BeginContainer(m, t) ==
  /\ Within
  /\ Len(wmode_stack) < MaxDepth
  /\ MayBeginValue
  /\ wmode_stack' = Append(wmode_stack, ModeInValue)
  /\ wmode' = m
  /\ indent' = indent + 2
  /\ text' = (text \o BeginValueText) \o TokenText([type |-> t])
  /\ BreakBeforeValue
  /\ Called(t, NoValue)
  /\ UNCHANGED pack

\* Faulty variant: the line is begun before the indentation is taken back.
EndContainerLate(modes, t) ==
  /\ Within
  /\ wmode \in modes
  /\ indent' = indent - 2
  /\ text' = (text \o LineBreak) \o TokenText([type |-> t])
  /\ BreakLine(indent, Len(wmode_stack) - 1)
  /\ wmode' = Last(wmode_stack)
  /\ wmode_stack' = Front(wmode_stack)
  /\ Called(t, NoValue)
  /\ UNCHANGED pack

\* EndArray, EndObject.
EndContainer(modes, t) ==
  /\ Within
  /\ wmode \in modes
  /\ indent' = indent - 2
  /\ text' = (text \o LineBreak) \o TokenText([type |-> t])
  /\ BreakLine(indent - 2, Len(wmode_stack) - 1)
  /\ wmode' = Last(wmode_stack)
  /\ wmode_stack' = Front(wmode_stack)
  /\ Called(t, NoValue)
  /\ UNCHANGED pack

WritePropertyName(str) ==
  /\ Within
  /\ wmode \in {"StartObject", "ObjectPropertyName"}
  /\ text' = text \o ((IF wmode = "ObjectPropertyName" THEN Comma ELSE <<>>)
                       \o (LineBreak
                       \o (TokenText([type |-> "PropertyName", value |-> str])
                       \o (IF Indent THEN <<Space>> ELSE <<>>))))
  /\ BreakLine(indent, Len(wmode_stack))
  /\ wmode' = "ObjectPropertyValue"
  /\ Called("PropertyName", str)
  /\ UNCHANGED <<wmode_stack, indent, pack>>

BeginPack ==
  /\ pack < MaxPack
  /\ pack' = pack + 1
  /\ UNCHANGED <<wmode, wmode_stack, indent, text, margins, calls>>

EndPack ==
  /\ pack > 0
  /\ pack' = pack - 1
  /\ UNCHANGED <<wmode, wmode_stack, indent, text, margins, calls>>

BeginArray == BeginContainer("StartArray", "StartArray")
BeginObject == BeginContainer("StartObject", "StartObject")
EndArray == EndContainer({"StartArray", "MiddleArray"}, "EndArray")
EndObject == EndContainer({"StartObject", "ObjectPropertyName"}, "EndObject")

WriteAnyScalar ==
  \/ \E t \in {"String", "Integer"}, v \in Value : WriteScalar(t, v)
  \/ \E v \in BOOLEAN : WriteScalar("Boolean", v)
  \/ WriteScalar("Null", NoValue)

WriterNext ==
  \/ WriteAnyScalar \/ BeginArray \/ BeginObject
  \/ \E str \in Value : WritePropertyName(str)
  \/ EndArray \/ EndObject
  \/ BeginPack \/ EndPack

WriterSpec == WriterInit /\ [][WriterNext]_writerVars

(***************************************************************************)
(* Properties.                                                             *)
(***************************************************************************)
LastCall == IF calls = <<>> THEN "None" ELSE Last(calls).type

Container(m) ==
  IF m \in {"StartArray", "MiddleArray"} THEN "Array" ELSE "Object"

WriterOpen ==
  LET modes == Tail(Append(wmode_stack, wmode))
  IN  [i \in DOMAIN modes |-> Container(modes[i])]

Calls == INSTANCE JsonTokens WITH open <- WriterOpen, token <- LastCall

\* What the caller has to keep to without being made to: the first thing in
\* an object is a name.
NamesFirst ==
  \A i \in 2 .. Len(calls) :
    calls[i - 1].type = "StartObject" =>
      calls[i].type \in {"PropertyName", "EndObject"}

\* A value without a name, in an object that is open: only a caller that has
\* broken NamesFirst.
NamelessValue ==
  /\ ~NamesFirst'
  /\ Calls!Within("Object") /\ ~Calls!Named
  /\ \/ LastCall' \in Calls!Scalars /\ UNCHANGED WriterOpen
     \/ LastCall' = "StartArray" /\ WriterOpen' = Append(WriterOpen, "Array")
     \/ LastCall' = "StartObject" /\ WriterOpen' = Append(WriterOpen, "Object")

\* The asserts on mode_ let a caller through only with calls that are the
\* tokens of a stream of JSON values, values without a name excepted, which
\* they let through only once one has followed a BeginObject directly.  Arrays
\* and objects are closed in the reverse of the order they were opened in
\* even then.
CallStream ==
  Calls!Init /\ [][Calls!Next \/ NamelessValue]_<<WriterOpen, LastCall>>

\* What has been written, white space apart, is at every moment exactly the
\* text of the calls, provided that names come first: commas are where the
\* grammar wants them, through every nesting of arrays in objects and objects
\* in arrays.
WritesJson == NamesFirst => Squeeze(text) = Canonical(calls)

\* Every line is indented by two columns for each container that is open
\* around its first lexeme, however packed lines are mixed in.
IndentMatchesDepth == \A m \in margins : m[1] = 2 * m[2]
=============================================================================
