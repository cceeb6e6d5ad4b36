----------------------------- MODULE JsonReader -----------------------------
(***************************************************************************)
(* The pull parser JsonReader (src/base/json_reader.{h,cc}) over lexemes.  *)
(* Each action is a call of Next(); its caller goes on as long as Next()   *)
(* returns true, as every caller in src/ does.  What ReadNumber does with  *)
(* the characters of one number is in module JsonNumber.                   *)
(***************************************************************************)
EXTENDS Naturals, Sequences, SequencesExt, FiniteSetsExt, JsonLexemes

CONSTANT
  Inputs   \* the texts that are read

ASSUME InputsAssumption == Inputs \subseteq Seq(Lexeme)

VARIABLES
  rest,         \* the lexemes that have not been read
  mode,         \* mode_
  mode_stack,   \* mode_stack_, the top last
  token_type,   \* token_type_
  error_code,   \* error_code_
  str_value,    \* str_value_ (of a string or a number)
  bool_value,   \* bool_value_
  result,       \* what the last call of Next() returned
  source,       \* history: the text that is read
  tokens        \* history: the tokens Next() has returned true for

positionVars == <<mode, mode_stack>>
valueVars == <<str_value, bool_value>>
vars == <<rest, positionVars, token_type, error_code, valueVars, result,
          source, tokens>>

\* The reader's constructor, for a stream that holds text.
ReaderInit(text) ==
  /\ rest = text
  /\ source = text
  /\ mode = "DocumentStart"
  /\ mode_stack = <<>>
  /\ token_type = "None"
  /\ error_code = "None"
  /\ str_value = NoValue
  /\ bool_value = FALSE
  /\ result = TRUE
  /\ tokens = <<>>

Init == \E text \in Inputs : ReaderInit(text)

\* s from the first of the positions hits on; <<>> if there is none.
From(s, hits) ==
  IF hits = {} THEN <<>> ELSE SubSeq(s, Min(hits), Len(s))

SkipWhitespace(s) ==
  From(s, {i \in DOMAIN s : s[i].type # "space"})

\* The characters that end a number; it runs over everything else.
Delimiters == {"}", "]", ",", "space"}

\* Faulty variant: the character that ends the number is taken as well.
SkipNumberPast(s) ==
  LET r == From(s, {i \in DOMAIN s : s[i].type \in Delimiters})
  IN  IF r = <<>> THEN r ELSE Tail(r)

SkipNumber(s) ==
  From(s, {i \in DOMAIN s : s[i].type \in Delimiters})

\* Next() returns true with token_type_ t, whose value, to be read with the
\* accessors of the reader, is v.
Return(t, v) ==
  /\ token_type' = t
  /\ tokens' = Append(tokens, [type |-> t, value |-> v])
  /\ result' = TRUE
  /\ UNCHANGED <<error_code, source>>

\* Next() returns false; token_type_ may have been set before.
Fail(t, e) ==
  /\ token_type' = t
  /\ error_code' = e
  /\ result' = FALSE
  /\ UNCHANGED <<positionVars, source, tokens>>

\* The stream ends in the middle of a token: there is no error code for that.
FailAtEnd(t) ==
  /\ Fail(t, error_code)
  /\ rest' = <<>>

Refuse(s) ==
  /\ Fail(token_type, "UnexpectedCharacter")
  /\ rest' = Tail(s)
  /\ UNCHANGED valueVars

(***************************************************************************)
(* ReadValue: s is the rest of the input from initial_char on.             *)
(***************************************************************************)
ReadContainer(s, char, m, t) ==
  /\ Head(s).type = char
  /\ mode_stack' = Append(mode_stack, mode)
  /\ mode' = m
  /\ Return(t, NoValue)
  /\ rest' = Tail(s)
  /\ UNCHANGED valueVars

\* The errors of an escape sequence that JSON does not have, and of a string
\* that the file ends in: only a backslash at the very end has an error code.
BadEscape == {"InvalidEscapeSequence", "InvalidUnicodeEscapeSequence"}
CutShort == {error_code, "UnexpectedCharacter"}

\* ReadString, for a string that is a value.
ReadStringValue(s) ==
  /\ \/ /\ Head(s).type = "string"
        /\ str_value' = Head(s).value
        /\ Return("String", str_value')
        /\ rest' = Tail(s)
        /\ UNCHANGED positionVars
     \/ /\ Head(s).type = "badEscape"
        /\ str_value' = NoValue
        /\ \E e \in BadEscape : Fail("String", e)
        /\ rest' = Tail(s)
     \/ /\ Head(s).type = "unterminated"
        /\ str_value' = NoValue
        /\ \E e \in CutShort : Fail("String", e)
        /\ rest' = <<>>
  /\ UNCHANGED bool_value

\* ReadNumber, for a minus sign alone: strtoll makes 0 of it, and the
\* character that ended it was read before it was looked at.
ReadMinus(s) ==
  LET r == Tail(s)
  IN  /\ Head(s).type = "minus"
      /\ r # <<>> => Head(r).type \in Delimiters
      /\ rest' = IF r = <<>> THEN <<>> ELSE Tail(r)
      /\ str_value' \in Value
      /\ Return("Integer", str_value')
      /\ UNCHANGED <<positionVars, bool_value>>

\* ReadNumber.  A number that runs into something else than a delimiter
\* takes in the digits, dots and exponents it finds there.
ReadNumber(s) ==
  LET after == SkipNumber(Tail(s))
      whole == after = Tail(s)
  IN  /\ rest' = after
      /\ UNCHANGED bool_value
      /\ Head(s).type \in {"integer", "float", "hugeNumber", "minus"}
      /\ ~(whole /\ Head(s).type = "minus")
      /\ str_value' \in IF whole /\ Head(s).type # "hugeNumber"
                       THEN {Head(s).value} ELSE Value
      /\ \/ /\ whole => Head(s).type # "hugeNumber"
            /\ \E t \in {"Integer", "Float"} :
                 /\ whole => t = IF Head(s).type = "integer" THEN "Integer"
                                                             ELSE "Float"
                 /\ Return(t, str_value')
            /\ UNCHANGED positionVars
         \/ /\ whole => Head(s).type = "hugeNumber"
            /\ \E t \in {"Integer", "Float"} : Fail(t, "OutOfRange")
         \/ /\ ~whole
            /\ Fail(token_type, "UnexpectedCharacter")

ReadKeyword(s) ==
  \/ /\ Head(s).type = "null"
     /\ Return("Null", NoValue)
     /\ rest' = Tail(s)
     /\ UNCHANGED <<positionVars, valueVars>>
  \/ /\ Head(s).type \in {"true", "false"}
     /\ bool_value' = (Head(s).type = "true")
     /\ Return("Boolean", bool_value')
     /\ rest' = Tail(s)
     /\ UNCHANGED <<positionVars, str_value>>
  \/ /\ Head(s).type = "badKeyword"
     /\ \E t \in {"Null", "Boolean"}, e \in {error_code, "UnexpectedCharacter"} :
          Fail(t, e)
     /\ rest' = Tail(s)
     /\ bool_value' \in BOOLEAN
     /\ UNCHANGED str_value

\* Lexemes that no value begins with.
NoInitialChar == {"}", "]", ",", ":", "other"}

ReadValue(s) ==
  \/ ReadContainer(s, "{", "Object", "StartObject")
  \/ ReadContainer(s, "[", "Array", "StartArray")
  \/ ReadStringValue(s)
  \/ ReadMinus(s) \/ ReadNumber(s)
  \/ ReadKeyword(s)
  \/ Head(s).type \in NoInitialChar /\ Refuse(s)

\* What follows a comma.
AfterComma(s, Read(_)) ==
  LET u == SkipWhitespace(Tail(s))
  IN  IF Head(s).type # "," THEN Refuse(s)
      ELSE IF u = <<>> THEN FailAtEnd(token_type) /\ UNCHANGED valueVars
      ELSE Read(u)

(***************************************************************************)
(* Next, by mode_.                                                         *)
(***************************************************************************)
\* Faulty variant: top() without pop().
PopModeKeeps(s, t) ==
  /\ rest' = Tail(s)
  /\ UNCHANGED <<valueVars, mode_stack>>
  /\ mode' = Last(mode_stack)
  /\ Return(t, NoValue)

PopMode(s, t) ==
  /\ rest' = Tail(s)
  /\ UNCHANGED valueVars
  /\ IF mode_stack = <<>>
     THEN Fail(t, "UnexpectedCharacter")
     ELSE /\ mode' = Last(mode_stack)
          /\ mode_stack' = Front(mode_stack)
          /\ Return(t, NoValue)

NextAtEnd ==
  /\ result
  /\ SkipWhitespace(rest) = <<>>
  /\ FailAtEnd(token_type)
  /\ UNCHANGED valueVars

NextInDocument ==
  LET s == SkipWhitespace(rest)
  IN  /\ result
      /\ s # <<>>
      /\ mode = "DocumentStart"
      /\ ReadValue(s)

NextInArray ==
  LET s == SkipWhitespace(rest)
  IN  /\ result
      /\ s # <<>>
      /\ mode = "Array"
      /\ IF Head(s).type = "]" THEN PopMode(s, "EndArray")
         ELSE IF token_type = "StartArray" THEN ReadValue(s)
         ELSE AfterComma(s, ReadValue)

\* Faulty variant: the character behind a name is skipped unseen.
ReadNameAnyColon(s) ==
  LET u == SkipWhitespace(Tail(s))
  IN  /\ UNCHANGED bool_value
      /\ str_value' = IF Head(s).type = "string" THEN Head(s).value ELSE NoValue
      /\ IF Head(s).type = "string" /\ u # <<>>
         THEN /\ rest' = Tail(u)
              /\ Return("PropertyName", str_value')
              /\ UNCHANGED positionVars
         ELSE rest' = <<>> /\ Fail("PropertyName", "UnexpectedCharacter")

\* A property name and the colon behind it.
ReadName(s) ==
  LET u == SkipWhitespace(Tail(s))
  IN  /\ UNCHANGED bool_value
      /\ \/ /\ Head(s).type = "string"
            /\ str_value' = Head(s).value
            /\ IF u = <<>> THEN FailAtEnd("PropertyName")
               ELSE /\ rest' = Tail(u)
                    /\ IF Head(u).type = ":"
                       THEN Return("PropertyName", str_value')
                            /\ UNCHANGED positionVars
                       ELSE Fail("PropertyName", "UnexpectedCharacter")
         \/ /\ Head(s).type = "unterminated"
            /\ str_value' = NoValue
            /\ \E e \in CutShort : Fail("PropertyName", e)
            /\ rest' = <<>>
         \/ /\ Head(s).type = "badEscape"
            /\ str_value' = NoValue
            /\ \E e \in BadEscape : Fail("PropertyName", e)
            /\ rest' = Tail(s)
         \/ /\ Head(s).type \notin {"string", "unterminated", "badEscape"}
            /\ str_value' = NoValue
            /\ rest' = Tail(s)
            /\ Fail("PropertyName", "UnexpectedCharacter")

\* Faulty variant: a closing brace is looked for first.
NextInObjectBraceFirst ==
  LET s == SkipWhitespace(rest)
  IN  /\ result
      /\ s # <<>>
      /\ mode = "Object"
      /\ IF Head(s).type = "}" THEN PopMode(s, "EndObject")
         ELSE IF token_type = "PropertyName" THEN ReadValue(s)
         ELSE IF token_type = "StartObject" THEN ReadName(s)
         ELSE AfterComma(s, ReadName)

NextInObject ==
  LET s == SkipWhitespace(rest)
  IN  /\ result
      /\ s # <<>>
      /\ mode = "Object"
      /\ IF token_type = "PropertyName" THEN ReadValue(s)
         ELSE IF Head(s).type = "}" THEN PopMode(s, "EndObject")
         ELSE IF token_type = "StartObject" THEN ReadName(s)
         ELSE AfterComma(s, ReadName)

Next == NextAtEnd \/ NextInDocument \/ NextInArray \/ NextInObject

Spec == Init /\ [][Next]_vars

(***************************************************************************)
(* Properties.                                                             *)
(***************************************************************************)
LastToken == IF tokens = <<>> THEN "None" ELSE Last(tokens).type

\* The containers that are open: what mode_stack_ holds above the document,
\* and the current mode.
Open == Tail(Append(mode_stack, mode))

Tokens == INSTANCE JsonTokens WITH open <- Open, token <- LastToken

TypeOK ==
  /\ rest \in Seq(Lexeme)
  /\ source \in Seq(Lexeme)
  /\ mode \in {"DocumentStart", "Array", "Object"}
  /\ mode_stack \in Seq({"DocumentStart", "Array", "Object"})
  /\ token_type \in Tokens!JsonToken
  /\ error_code \in {"None", "UnexpectedCharacter", "OutOfRange"} \cup BadEscape
  /\ str_value \in Value \cup {NoValue}
  /\ bool_value \in BOOLEAN
  /\ result \in BOOLEAN

\* Whatever the text, well formed or not, the tokens the reader hands out
\* are those of a stream of JSON values, as DeserializePacket relies on:
\* it matches StartObject with EndObject and names with values only.
TokenStream == Tokens!Spec

\* mode_stack_ is empty exactly outside of every container, so that PopMode
\* always finds a mode to return to and its error is never given.
PopsWhatItPushed ==
  /\ mode = "DocumentStart" <=> mode_stack = <<>>
  /\ \A i \in DOMAIN mode_stack : mode_stack[i] = "DocumentStart" <=> i = 1

\* Every number of the text has a digit, and none runs into something that
\* does not end it.
NumbersEnd ==
  /\ \A i \in 1 .. Len(source) : source[i].type # "minus"
  /\ \A i \in 1 .. Len(source) - 1 :
       source[i].type \in {"integer", "float", "hugeNumber"} =>
         source[i + 1].type \in Delimiters

\* The text that was consumed, white space apart, is exactly the text of the
\* tokens that were handed out, each with the value its accessor shows: no
\* comma or colon too few or too many is let through, no value is stale.  A
\* minus sign without a digit is left out: it is read as 0 and takes what
\* follows it along, so that [-,] passes for an array with one number in it.
ReadsJson ==
  result /\ NumbersEnd =>
    Squeeze(source) = Canonical(tokens) \o Squeeze(rest)
=============================================================================
