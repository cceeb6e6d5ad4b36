----------------------------- MODULE JsonNumber -----------------------------
(***************************************************************************)
(* JsonReader::ReadNumber (src/base/json_reader.cc), character by          *)
(* character: here the characters are what the properties are about.  The  *)
(* text begins with the digit or minus sign that ReadValue has read.  One  *)
(* step is one iteration of the loop; strtoll and strtod never see a       *)
(* number that is out of range here.                                       *)
(***************************************************************************)
EXTENDS Integers, Sequences, SequencesExt

CONSTANTS
  Texts   \* the texts that are read, sequences of Char

Digits == {"0", "1"}
Comma == ","
Delimiters == {Comma, "EOF"}   \* } ] and white space do what the comma does
Char == Digits \cup Delimiters \cup {"-", "+", ".", "e", "x"}

ASSUME TextsAssumption ==
  \A t \in Texts : t \in Seq(Char) /\ t # <<>> /\ t[1] \in Digits \cup {"-"}

VARIABLES
  text,               \* the characters from the initial one on
  pos,                \* how many of them Read() has consumed
  ch, i,              \* the locals of the loop
  seen_dot, seen_exponent, seen_initial_zero,
  str_value,          \* str_value_
  result              \* "reading", "Integer", "Float" or "UnexpectedCharacter"

vars == <<text, pos, ch, i, seen_dot, seen_exponent, seen_initial_zero,
          str_value, result>>

\* Peek(): the character behind the first n.
At(n) == IF n < Len(text) THEN text[n + 1] ELSE "EOF"

\* ReadNumber up to its loop.  initial_char has been consumed; behind a minus
\* sign the next character is consumed as well.
Init ==
  /\ text \in Texts
  /\ IF text[1] = "-"
     THEN /\ str_value = <<"-">>
          /\ ch = At(1)
          /\ pos = IF Len(text) > 1 THEN 2 ELSE 1
     ELSE str_value = <<>> /\ ch = text[1] /\ pos = 1
  /\ i = 0
  /\ seen_dot = FALSE
  /\ seen_exponent = FALSE
  /\ seen_initial_zero = FALSE
  /\ result = "reading"

\* Faulty variant: the initial character is consumed twice.
AdvanceAlways ==
  /\ pos' = pos + 1
  /\ ch' = At(pos')
  /\ i' = i + 1
  /\ UNCHANGED <<text, result>>

\* The end of the loop body: consume ch, unless it has been consumed before
\* the loop, and look at the next one.
Advance ==
  /\ pos' = IF i > 0 THEN pos + 1 ELSE pos
  /\ ch' = At(pos')
  /\ i' = i + 1
  /\ UNCHANGED <<text, result>>

Stop(r) ==
  /\ result' = r
  /\ UNCHANGED <<text, pos, ch, i, seen_dot, seen_exponent, seen_initial_zero,
                 str_value>>

\* Faulty variant: the end of the stream is not among the cases.
DelimiterNoEof ==
  /\ result = "reading"
  /\ ch \in Delimiters \ {"EOF"}
  /\ Stop(IF str_value = <<>> THEN "UnexpectedCharacter"
          ELSE IF seen_exponent \/ seen_dot THEN "Float" ELSE "Integer")

Delimiter ==
  /\ result = "reading"
  /\ ch \in Delimiters
  /\ Stop(IF str_value = <<>> THEN "UnexpectedCharacter"
          ELSE IF seen_exponent \/ seen_dot THEN "Float" ELSE "Integer")

Dot ==
  /\ result = "reading"
  /\ ch = "."
  /\ IF seen_dot \/ seen_exponent
     THEN Stop("UnexpectedCharacter")
     ELSE /\ seen_dot' = TRUE
          /\ str_value' = Append(str_value, ch)
          /\ Advance
          /\ UNCHANGED <<seen_exponent, seen_initial_zero>>

Exponent ==
  /\ result = "reading"
  /\ ch = "e"
  /\ seen_exponent' = TRUE
  /\ str_value' = Append(str_value, ch)
  /\ Advance
  /\ UNCHANGED <<seen_dot, seen_initial_zero>>

\* Faulty variant: a zero that follows another is let through.
DigitZeros ==
  /\ result = "reading"
  /\ ch \in Digits
  /\ seen_initial_zero' = (ch = "0" /\ i = 0)
  /\ str_value' = Append(str_value, ch)
  /\ Advance
  /\ UNCHANGED <<seen_dot, seen_exponent>>

Digit ==
  /\ result = "reading"
  /\ ch \in Digits
  /\ IF ch = "0" /\ i = 0
     THEN seen_initial_zero' = TRUE
     ELSE UNCHANGED seen_initial_zero
  /\ IF ~(ch = "0" /\ i = 0) /\ seen_initial_zero /\ ~seen_dot
     THEN Stop("UnexpectedCharacter")
     ELSE /\ str_value' = Append(str_value, ch)
          /\ Advance
          /\ UNCHANGED <<seen_dot, seen_exponent>>

\* The switch has no default: any other character is passed over.
OtherCharacter ==
  /\ result = "reading"
  /\ ch \notin Digits \cup Delimiters \cup {".", "e"}
  /\ Advance
  /\ UNCHANGED <<seen_dot, seen_exponent, seen_initial_zero, str_value>>

Next == Delimiter \/ Dot \/ Exponent \/ Digit \/ OtherCharacter

Spec == Init /\ [][Next]_vars /\ WF_vars(Next)

(***************************************************************************)
(* Reference: the integers and decimals of the JSON grammar.               *)
(***************************************************************************)
DigitString(s) == s # <<>> /\ \A k \in DOMAIN s : s[k] \in Digits

Unsigned(s) == IF s # <<>> /\ s[1] = "-" THEN Tail(s) ELSE s

IsInteger(s) ==
  LET u == Unsigned(s) IN DigitString(u) /\ (u[1] = "0" => Len(u) = 1)

\* An integer and digits behind a dot.
IsDecimal(s) ==
  \E k \in DOMAIN s : /\ s[k] = "."
                      /\ IsInteger(SubSeq(s, 1, k - 1))
                      /\ DigitString(SubSeq(s, k + 1, Len(s)))

\* The text up to the first comma.
Number ==
  LET commas == {k \in DOMAIN text : text[k] = Comma}
  IN  SubSeq(text, 1, IF commas = {} THEN Len(text)
                      ELSE (CHOOSE k \in commas : \A l \in commas : k <= l) - 1)

(***************************************************************************)
(* Properties.                                                             *)
(***************************************************************************)
\* Of the texts of a sign and digits exactly the integers of the grammar are
\* accepted (BadInteger of the tests wants 01 refused), each with all of its
\* characters handed to strtoll and the character that ends it left for the
\* next token.
IntegersExact ==
  result # "reading" /\ DigitString(Unsigned(Number)) =>
    IF IsInteger(Number)
    THEN result = "Integer" /\ str_value = Number /\ pos = Len(Number)
    ELSE result = "UnexpectedCharacter"

\* Every decimal of the grammar is read as such, with all of its characters
\* handed to strtod and its delimiter left for the next token.
DecimalsRead ==
  result # "reading" /\ IsDecimal(Number) =>
    result = "Float" /\ str_value = Number /\ pos = Len(Number)

\* The loop ends, whatever the text.
NumberEnds == <>(result # "reading")

\* The tests BadInteger and BadFloat (json_reader_test.cc) expect these to be
\* refused with UnexpectedCharacter: --1, 1.12f and 1.000e00e00, with x for f
\* and fewer digits.
TestedBadNumbers ==
  { <<"-", "-", "1">>, <<"1", ".", "1", "x">>,
    <<"1", ".", "0", "e", "0", "e", "0">> }

\* What those tests say of ReadNumber.
BadNumbersRefused ==
  text \in TestedBadNumbers => result \in {"reading", "UnexpectedCharacter"}
=============================================================================
