-------------------------- MODULE JsonNumberProofs --------------------------
(***************************************************************************)
(* The theorems about JsonNumber, for texts of any length.                 *)
(***************************************************************************)
EXTENDS JsonNumber, TextLemmas

\* How many characters come before the first digit: the sign.
Sign == IF text[1] = "-" THEN 1 ELSE 0

\* How many characters are consumed before the loop.
Start == IF Sign < Len(text) THEN Sign + 1 ELSE Sign

\* How many characters come before ch.
Place == Sign + i

\* Behind the sign the first n characters are such that the loop keeps them.
Clean(n) == \A j \in 1..n : j > Sign => text[j] \in Digits \cup {"."}

TypeOK ==
  /\ text \in Seq(Char) /\ text # <<>> /\ text[1] \in Digits \cup {"-"}
  /\ i \in Nat
  /\ pos \in Nat
  /\ str_value \in Seq(Char)
  /\ seen_dot \in BOOLEAN /\ seen_exponent \in BOOLEAN /\ seen_initial_zero \in BOOLEAN

\* The loop is at the character behind the first Place ones, none of them a
\* comma, and Read() has consumed those, or all up to the first digit.
PlaceInv ==
  /\ Place <= Len(text)
  /\ ch = At(Place)
  /\ i # 0 => pos = Place
  /\ i = 0 => pos = Start
  /\ \A j \in 1..Place : text[j] # Comma

\* The locals of the loop say what has been read.
LocalsInv ==
  Clean(Place) =>
    /\ str_value = SubSeq(text, 1, Place)
    /\ ~seen_exponent
    /\ seen_dot <=> \E j \in 1..Place : text[j] = "."
    /\ seen_initial_zero <=> i > 0 /\ text[Sign + 1] = "0"
    /\ seen_initial_zero /\ ~seen_dot => i = 1

\* Where the loop ends.
ResultInv ==
  result # "reading" /\ Clean(Place) =>
    \/ /\ ch \in Delimiters
       /\ result = IF str_value = <<>> THEN "UnexpectedCharacter"
                   ELSE IF seen_dot THEN "Float" ELSE "Integer"
    \/ ch = "." /\ seen_dot /\ result = "UnexpectedCharacter"
    \/ /\ ch \in Digits /\ seen_initial_zero /\ ~seen_dot
       /\ result = "UnexpectedCharacter"

NumberInv == TypeOK /\ PlaceInv /\ LocalsInv /\ ResultInv

\* One character more.
LEMMA OneMore ==
  ASSUME NEW s \in Seq(Char), NEW n \in Nat, n < Len(s)
  PROVE  SubSeq(s, 1, n + 1) = Append(SubSeq(s, 1, n), s[n + 1])
<1>1. /\ SubSeq(s, 1, n) \in Seq(Char) /\ Len(SubSeq(s, 1, n)) = n
      /\ \A k \in 1..n : SubSeq(s, 1, n)[k] = s[k]
  OBVIOUS
<1>2. /\ SubSeq(s, 1, n + 1) \in Seq(Char) /\ Len(SubSeq(s, 1, n + 1)) = n + 1
      /\ \A k \in 1..(n + 1) : SubSeq(s, 1, n + 1)[k] = s[k]
  OBVIOUS
<1>3. s[n + 1] \in Char
  OBVIOUS
<1> DEFINE a == SubSeq(s, 1, n)
           b == SubSeq(s, 1, n + 1)
<1> HIDE DEF a, b
<1>4. /\ Append(a, s[n + 1]) \in Seq(Char) /\ Len(Append(a, s[n + 1])) = n + 1
      /\ \A k \in 1..n : Append(a, s[n + 1])[k] = a[k]
      /\ Append(a, s[n + 1])[n + 1] = s[n + 1]
  BY <1>1, <1>3 DEF a
<1>5. ASSUME NEW k \in 1..Len(b) PROVE b[k] = Append(a, s[n + 1])[k]
  BY <1>1, <1>2, <1>4 DEF a, b
<1>6. b = Append(a, s[n + 1])
  BY <1>2, <1>4, <1>5, SeqEqual DEF b
<1> QED BY <1>6 DEF a, b

LEMMA InitNumberInv == Init => NumberInv
<1> SUFFICES ASSUME Init PROVE NumberInv
  OBVIOUS
<1>1. text \in Seq(Char) /\ text # <<>> /\ text[1] \in Digits \cup {"-"}
  BY TextsAssumption DEF Init
<1>2. Len(text) \in Nat /\ Len(text) >= 1 /\ text[1] \in Char
  BY <1>1
<1>3. TypeOK
  <2>1. str_value \in {<<>>, <<"-">>} /\ pos \in {1, 2}
    BY <1>2 DEF Init
  <2>2. "-" \in Char /\ <<>> \in Seq(Char)
    BY DEF Char
  <2>3. <<"-">> \in Seq(Char)
    BY <2>2
  <2>4. str_value \in Seq(Char)
    BY <2>1, <2>2, <2>3
  <2>5. i \in Nat /\ pos \in Nat
    BY <2>1 DEF Init
  <2>6. seen_dot \in BOOLEAN /\ seen_exponent \in BOOLEAN /\ seen_initial_zero \in BOOLEAN
    BY DEF Init
  <2> QED BY <1>1, <2>4, <2>5, <2>6 DEF TypeOK
<1>4. Sign \in {0, 1} /\ Place = Sign /\ Place <= Len(text) /\ i = 0
  BY <1>2 DEF Init, Sign, Place
<1>5. PlaceInv
  <2>1. ch = At(Place) /\ pos = Start
    BY <1>1, <1>2, <1>4 DEF Init, At, Sign, Start
  <2>2. \A j \in 1..Place : text[j] # Comma
    <3>1. \A j \in 1..Place : j = 1 /\ Sign = 1
      BY <1>4
    <3>2. Sign = 1 => text[1] = "-"
      BY DEF Sign
    <3> QED BY <3>1, <3>2 DEF Comma
  <2> QED BY <1>4, <2>1, <2>2 DEF PlaceInv
<1>6. str_value = SubSeq(text, 1, Place)
  <2>1. CASE text[1] = "-"
    <3>1. Place = 1 /\ str_value = <<"-">>
      BY <1>4, <2>1 DEF Init, Sign
    <3>2. SubSeq(text, 1, 0 + 1) = Append(SubSeq(text, 1, 0), text[0 + 1])
      BY <1>1, <1>2, OneMore
    <3>3. SubSeq(text, 1, 0) = <<>> /\ 0 + 1 = 1
      BY <1>1
    <3>4. Append(<<>>, text[1]) = <<text[1]>>
      OBVIOUS
    <3> QED BY <2>1, <3>1, <3>2, <3>3, <3>4
  <2>2. CASE text[1] # "-"
    <3>1. Place = 0 /\ str_value = <<>>
      BY <1>4, <2>2 DEF Init, Sign
    <3> QED BY <1>1, <3>1
  <2> QED BY <2>1, <2>2
<1>7. \A j \in 1..Place : text[j] # "."
  <2>1. \A j \in 1..Place : j = 1 /\ Sign = 1
    BY <1>4
  <2>2. Sign = 1 => text[1] = "-"
    BY DEF Sign
  <2> QED BY <2>1, <2>2
<1>8. LocalsInv
  BY <1>6, <1>7 DEF Init, LocalsInv
<1>9. ResultInv
  BY DEF Init, ResultInv
<1> QED BY <1>3, <1>5, <1>8, <1>9 DEF NumberInv

\* What Advance does to the place; ch is no delimiter.
LEMMA AdvancePlace ==
  ASSUME TypeOK, PlaceInv, Advance, ch \notin Delimiters
  PROVE  /\ PlaceInv'
         /\ text' = text /\ i' = i + 1 /\ i' \in Nat /\ pos' \in Nat
         /\ Sign' = Sign /\ Place \in Nat /\ Place' = Place + 1
         /\ Place < Len(text) /\ ch = text[Place + 1]
         /\ Clean(Place)' <=> Clean(Place) /\ ch \in Digits \cup {"."}
<1>1. /\ text' = text /\ i' = i + 1 /\ i' \in Nat
      /\ pos' = (IF i > 0 THEN pos + 1 ELSE pos) /\ pos' \in Nat
      /\ ch' = IF pos' < Len(text) THEN text[pos' + 1] ELSE "EOF"
  BY DEF Advance, TypeOK, At
<1>2. Len(text) \in Nat /\ Sign \in {0, 1} /\ Sign' = Sign
  BY <1>1 DEF TypeOK, Sign
<1>3. Place \in Nat /\ Place' = Place + 1 /\ Place >= Sign /\ (i = 0 => Place = Sign)
  BY <1>1, <1>2 DEF Place, TypeOK
<1>4. Place < Len(text) /\ ch = text[Place + 1]
  BY <1>2, <1>3 DEF PlaceInv, At, Delimiters
<1>5. pos' = Place'
  <2>1. CASE i = 0
    <3>1. pos = Start
      BY <2>1 DEF PlaceInv
    <3>2. Place = Sign
      BY <1>3, <2>1
    <3>3. pos' = pos
      BY <1>1, <2>1
    <3> QED BY <1>2, <1>3, <1>4, <3>1, <3>2, <3>3 DEF Start
  <2>2. CASE i # 0
    <3>1. pos = Place
      BY <2>2 DEF PlaceInv
    <3>2. i > 0
      BY <2>2 DEF TypeOK
    <3>3. pos' = pos + 1
      BY <1>1, <3>2
    <3> QED BY <1>3, <3>1, <3>3
  <2> QED BY <2>1, <2>2
<1>6. ASSUME NEW j \in 1..Place' PROVE text[j] # Comma
  <2>1. j \in 1..Place \/ j = Place + 1
    BY <1>3
  <2> QED BY <1>4, <2>1 DEF PlaceInv, Delimiters
<1>7. PlaceInv'
  <2>1. ch' = At(Place)'
    BY <1>1, <1>5 DEF At
  <2>2. Place' <= Len(text') /\ i' # 0
    BY <1>1, <1>2, <1>3, <1>4 DEF TypeOK
  <2> QED BY <1>1, <1>5, <1>6, <2>1, <2>2 DEF PlaceInv
<1>8. ASSUME NEW j \in 1..Place' PROVE j \in 1..Place \/ j = Place + 1
  BY <1>3
<1>9. Clean(Place') <=> Clean(Place) /\ text[Place + 1] \in Digits \cup {"."}
  <2>1. 1..Place \subseteq 1..Place' /\ Place + 1 \in 1..Place' /\ Place + 1 > Sign
    BY <1>2, <1>3
  <2> QED BY <1>8, <2>1 DEF Clean
<1>10. Clean(Place)' <=> Clean(Place')
  BY <1>1, <1>2 DEF Clean
<1> QED BY <1>1, <1>2, <1>3, <1>4, <1>7, <1>9, <1>10

\* A step of the loop that goes on keeps the locals right if it does so for
\* the flags.
LEMMA AdvanceLocals ==
  ASSUME NumberInv, Advance, ch \in Digits \cup {"."},
         str_value' = Append(str_value, ch),
         seen_exponent' = seen_exponent,
         seen_dot' \in BOOLEAN, seen_initial_zero' \in BOOLEAN,
         seen_dot' <=> seen_dot \/ ch = ".",
         seen_initial_zero' <=> seen_initial_zero \/ (ch = "0" /\ i = 0),
         seen_initial_zero /\ ch # "." => seen_dot,
         result = "reading"
  PROVE  NumberInv'
<1>1. TypeOK /\ PlaceInv /\ LocalsInv
  BY DEF NumberInv
<1>2. ch \notin Delimiters /\ ch \in Char
  BY DEF Digits, Delimiters, Comma, Char
<1>3. /\ PlaceInv'
      /\ text' = text /\ i' = i + 1 /\ i' \in Nat /\ pos' \in Nat
      /\ Sign' = Sign /\ Place \in Nat /\ Place' = Place + 1
      /\ Place < Len(text) /\ ch = text[Place + 1]
      /\ Clean(Place)' <=> Clean(Place) /\ ch \in Digits \cup {"."}
  BY <1>1, <1>2, AdvancePlace
<1>4. str_value \in Seq(Char) /\ text \in Seq(Char) /\ i \in Nat /\ seen_dot \in BOOLEAN
      /\ seen_initial_zero \in BOOLEAN /\ seen_exponent \in BOOLEAN
  BY <1>1 DEF TypeOK
<1>5. str_value' \in Seq(Char)
  BY <1>2, <1>4
<1>6. TypeOK'
  BY <1>1, <1>3, <1>4, <1>5 DEF TypeOK
<1>7. ASSUME Clean(Place)' PROVE /\ str_value' = SubSeq(text', 1, Place')
                                 /\ ~seen_exponent'
                                 /\ (seen_dot <=> \E j \in 1..Place : text[j] = ".")'
                                 /\ (seen_initial_zero <=> i > 0 /\ text[Sign + 1] = "0")'
                                 /\ (seen_initial_zero /\ ~seen_dot => i = 1)'
  <2>1. /\ str_value = SubSeq(text, 1, Place)
        /\ ~seen_exponent
        /\ seen_dot <=> \E j \in 1..Place : text[j] = "."
        /\ seen_initial_zero <=> i > 0 /\ text[Sign + 1] = "0"
        /\ seen_initial_zero /\ ~seen_dot => i = 1
    BY <1>1, <1>3, <1>7 DEF LocalsInv
  <2>2. str_value' = SubSeq(text', 1, Place')
    BY <1>3, <1>4, <2>1, OneMore
  <2>3. seen_dot' <=> \E j \in 1..(Place + 1) : text[j] = "."
    <3>1. \A j \in 1..(Place + 1) : j \in 1..Place \/ j = Place + 1
      BY <1>3
    <3>2. 1..Place \subseteq 1..(Place + 1) /\ Place + 1 \in 1..(Place + 1)
      BY <1>3
    <3> QED BY <1>3, <2>1, <3>1, <3>2
  <2>4. i = 0 => Place + 1 = Sign + 1
    BY DEF Place, Sign
  <2>5. seen_initial_zero' <=> i + 1 > 0 /\ text[Sign + 1] = "0"
    BY <1>3, <1>4, <2>1, <2>4
  <2>6. seen_initial_zero' /\ ~seen_dot' => i + 1 = 1
    BY <1>4, <2>1
  <2> QED BY <1>3, <2>1, <2>2, <2>3, <2>5, <2>6
<1>8. LocalsInv'
  BY <1>7 DEF LocalsInv
<1>9. ResultInv'
  BY DEF ResultInv, Advance
<1> QED BY <1>3, <1>6, <1>8, <1>9 DEF NumberInv

\* The loop ends and leaves everything as it is.
LEMMA StopKeeps ==
  ASSUME NumberInv, result = "reading", NEW x, Stop(x),
         Clean(Place) =>
           \/ /\ ch \in Delimiters
              /\ x = IF str_value = <<>> THEN "UnexpectedCharacter"
                     ELSE IF seen_dot THEN "Float" ELSE "Integer"
           \/ ch = "." /\ seen_dot /\ x = "UnexpectedCharacter"
           \/ /\ ch \in Digits /\ seen_initial_zero /\ ~seen_dot
              /\ x = "UnexpectedCharacter"
  PROVE  NumberInv'
<1>1. UNCHANGED <<text, pos, ch, i, seen_dot, seen_exponent, seen_initial_zero,
                  str_value>> /\ result' = x
  BY DEF Stop
<1>2. TypeOK' /\ PlaceInv' /\ LocalsInv'
  BY <1>1 DEF NumberInv, TypeOK, PlaceInv, LocalsInv, Place, Sign, Clean, At, Start
<1>3. ResultInv'
  BY <1>1 DEF ResultInv, Place, Sign, Clean
<1> QED BY <1>2, <1>3 DEF NumberInv

LEMMA NextKeepsNumberInv == NumberInv /\ [Next]_vars => NumberInv'
<1> SUFFICES ASSUME NumberInv, [Next]_vars PROVE NumberInv'
  OBVIOUS
<1>0. TypeOK /\ PlaceInv /\ LocalsInv
  BY DEF NumberInv
<1>1. CASE Delimiter
  <2> DEFINE x == IF str_value = <<>> THEN "UnexpectedCharacter"
                  ELSE IF seen_exponent \/ seen_dot THEN "Float" ELSE "Integer"
  <2>1. result = "reading" /\ ch \in Delimiters /\ Stop(x)
    BY <1>1 DEF Delimiter
  <2>2. Clean(Place) => x = IF str_value = <<>> THEN "UnexpectedCharacter"
                            ELSE IF seen_dot THEN "Float" ELSE "Integer"
    BY <1>0 DEF LocalsInv
  <2> HIDE DEF x
  <2> QED BY <2>1, <2>2, StopKeeps
<1>2. CASE Dot
  <2>1. CASE seen_dot \/ seen_exponent
    <3>1. result = "reading" /\ ch = "." /\ Stop("UnexpectedCharacter")
      BY <1>2, <2>1 DEF Dot
    <3>2. Clean(Place) => seen_dot
      BY <1>0, <2>1 DEF LocalsInv
    <3> QED BY <3>1, <3>2, StopKeeps
  <2>2. CASE ~(seen_dot \/ seen_exponent)
    <3>1. /\ result = "reading" /\ ch = "." /\ seen_dot' = TRUE
          /\ str_value' = Append(str_value, ch) /\ Advance
          /\ seen_exponent' = seen_exponent /\ seen_initial_zero' = seen_initial_zero
      BY <1>2, <2>2 DEF Dot
    <3>2. seen_initial_zero' \in BOOLEAN
      BY <1>0, <3>1 DEF TypeOK
    <3> QED BY <3>1, <3>2, AdvanceLocals
  <2> QED BY <2>1, <2>2
<1>3. CASE Exponent
  <2>1. /\ result = "reading" /\ ch = "e" /\ seen_exponent' = TRUE
        /\ str_value' = Append(str_value, ch) /\ Advance
        /\ seen_dot' = seen_dot /\ seen_initial_zero' = seen_initial_zero
    BY <1>3 DEF Exponent
  <2>2. ch \notin Delimiters /\ ch \in Char /\ ch \notin Digits \cup {"."}
    BY <2>1 DEF Digits, Delimiters, Comma, Char
  <2>3. /\ PlaceInv' /\ text' = text /\ i' \in Nat /\ pos' \in Nat /\ ~Clean(Place)'
    BY <1>0, <2>1, <2>2, AdvancePlace
  <2>4. str_value' \in Seq(Char)
    BY <1>0, <2>1, <2>2 DEF TypeOK
  <2>5. TypeOK'
    BY <1>0, <2>1, <2>3, <2>4 DEF TypeOK
  <2> QED BY <2>3, <2>5 DEF NumberInv, LocalsInv, ResultInv
<1>4. CASE Digit
  <2>1. result = "reading" /\ ch \in Digits
    BY <1>4 DEF Digit
  <2>2. CASE ~(ch = "0" /\ i = 0) /\ seen_initial_zero /\ ~seen_dot
    <3>1. Stop("UnexpectedCharacter")
      BY <1>4, <2>2 DEF Digit
    <3> QED BY <2>1, <2>2, <3>1, StopKeeps
  <2>3. CASE ~(~(ch = "0" /\ i = 0) /\ seen_initial_zero /\ ~seen_dot)
    <3>1. /\ str_value' = Append(str_value, ch) /\ Advance
          /\ seen_exponent' = seen_exponent /\ seen_dot' = seen_dot
          /\ seen_initial_zero' = IF ch = "0" /\ i = 0 THEN TRUE ELSE seen_initial_zero
      BY <1>4, <2>3 DEF Digit
    <3>2. seen_initial_zero \in BOOLEAN /\ seen_dot \in BOOLEAN
      BY <1>0 DEF TypeOK
    <3>3. ch # "."
      BY <2>1 DEF Digits
    <3>4. CASE ch = "0" /\ i = 0 /\ seen_initial_zero /\ ~seen_dot
      \* A zero cannot have been seen before the first character: only a text
      \* that is not clean has both.
      <4>1. ~Clean(Place)
        BY <1>0, <3>4 DEF LocalsInv
      <4>2. ch \notin Delimiters /\ ch \in Char
        BY <2>1 DEF Digits, Delimiters, Comma, Char
      <4>3. /\ PlaceInv' /\ text' = text /\ i' \in Nat /\ pos' \in Nat /\ ~Clean(Place)'
        BY <1>0, <3>1, <4>1, <4>2, AdvancePlace
      <4>4. str_value' \in Seq(Char)
        BY <1>0, <3>1, <4>2 DEF TypeOK
      <4>5. TypeOK'
        BY <1>0, <3>1, <4>3, <4>4 DEF TypeOK
      <4> QED BY <4>3, <4>5 DEF NumberInv, LocalsInv, ResultInv
    <3>5. CASE ~(ch = "0" /\ i = 0 /\ seen_initial_zero /\ ~seen_dot)
      <4>1. seen_initial_zero /\ ch # "." => seen_dot
        BY <2>3, <3>5
      <4>2. seen_initial_zero' \in BOOLEAN /\ seen_dot' \in BOOLEAN
            /\ (seen_initial_zero' <=> seen_initial_zero \/ (ch = "0" /\ i = 0))
            /\ (seen_dot' <=> seen_dot \/ ch = ".")
        BY <3>1, <3>2, <3>3
      <4> QED BY <2>1, <3>1, <4>1, <4>2, AdvanceLocals
    <3> QED BY <3>4, <3>5
  <2> QED BY <2>2, <2>3
<1>5. CASE OtherCharacter
  <2>1. /\ result = "reading" /\ ch \notin Digits \cup Delimiters \cup {".", "e"}
        /\ Advance
        /\ seen_exponent' = seen_exponent /\ str_value' = str_value
        /\ seen_dot' = seen_dot /\ seen_initial_zero' = seen_initial_zero
    BY <1>5 DEF OtherCharacter
  <2>2. /\ PlaceInv' /\ text' = text /\ i' \in Nat /\ pos' \in Nat /\ ~Clean(Place)'
    BY <1>0, <2>1, AdvancePlace
  <2>3. TypeOK'
    BY <1>0, <2>1, <2>2 DEF TypeOK
  <2> QED BY <2>2, <2>3 DEF NumberInv, LocalsInv, ResultInv
<1>6. CASE UNCHANGED vars
  BY <1>6 DEF vars, NumberInv, TypeOK, PlaceInv, LocalsInv, ResultInv, Place, Sign,
              Clean, At, Start
<1> QED BY <1>1, <1>2, <1>3, <1>4, <1>5, <1>6 DEF Next

LEMMA NumberSpecInv == Spec => []NumberInv
<1> QED BY InitNumberInv, NextKeepsNumberInv, PTL DEF Spec

(***************************************************************************)
(* The text up to the first comma.                                         *)
(***************************************************************************)
LEMMA NumberIs ==
  ASSUME TypeOK
  PROVE  \E n \in 0..Len(text) :
           /\ Number = SubSeq(text, 1, n)
           /\ Number \in Seq(Char) /\ Len(Number) = n
           /\ \A j \in 1..n : Number[j] = text[j] /\ text[j] # Comma
           /\ n < Len(text) => text[n + 1] = Comma
<1> DEFINE commas == {k \in DOMAIN text : text[k] = Comma}
           first == CHOOSE k \in commas : \A l \in commas : k <= l
           n == IF commas = {} THEN Len(text) ELSE first - 1
<1>1. text \in Seq(Char) /\ Len(text) \in Nat /\ DOMAIN text = 1..Len(text)
  BY DEF TypeOK
<1>2. commas \subseteq Nat /\ \A k \in 1..Len(text) : k \in commas <=> text[k] = Comma
  BY <1>1
<1>3. Number = SubSeq(text, 1, n)
  BY DEF Number
<1>4. commas # {} => first \in commas /\ \A l \in commas : first <= l
  <2> HIDE DEF commas
  <2>1. commas # {} => \E x \in commas : \A y \in commas : x <= y
    BY <1>2, Least
  <2> QED BY <2>1
<1>5. commas # {} => first \in 1..Len(text) /\ text[first] = Comma
  BY <1>1, <1>4
<1>6. commas = {} => \A j \in 1..Len(text) : text[j] # Comma
  BY <1>1
<1>7. commas # {} => \A j \in 1..Len(text) : j < first => text[j] # Comma
  <2> HIDE DEF first
  <2> SUFFICES ASSUME commas # {}, NEW j \in 1..Len(text), j < first, text[j] = Comma PROVE FALSE
    OBVIOUS
  <2>1. first \in 1..Len(text) /\ \A l \in commas : first <= l
    BY <1>4, <1>5
  <2>2. j \in commas
    BY <1>2
  <2>3. first <= j
    BY <2>1, <2>2
  <2> QED BY <2>1, <2>3
<1> HIDE DEF commas, first
<1>8. n \in 0..Len(text) /\ (n < Len(text) => text[n + 1] = Comma)
      /\ \A j \in 1..n : text[j] # Comma
  BY <1>1, <1>5, <1>6, <1>7
<1> HIDE DEF n
<1>9. /\ SubSeq(text, 1, n) \in Seq(Char) /\ Len(SubSeq(text, 1, n)) = n
      /\ \A j \in 1..n : SubSeq(text, 1, n)[j] = text[j]
  BY <1>1, <1>8
<1> QED BY <1>3, <1>8, <1>9

\* What of a text stands before the loop's end when no character of the
\* number is passed over: the loop has come to the end of the number, to a
\* second dot or to a digit behind an initial zero.
LEMMA WhereItEnds ==
  ASSUME NumberInv, result # "reading",
         NEW n \in 0..Len(text),
         \A j \in 1..n : text[j] # Comma,
         n < Len(text) => text[n + 1] = Comma,
         n > Sign, Clean(n)
  PROVE  /\ Sign \in {0, 1} /\ Place \in Sign..n /\ Len(text) \in Nat
         /\ \/ /\ Place = n /\ pos = n /\ str_value = SubSeq(text, 1, n)
               /\ result = IF seen_dot THEN "Float" ELSE "Integer"
            \/ /\ Place < n /\ text[Place + 1] = "." /\ seen_dot
               /\ result = "UnexpectedCharacter"
            \/ /\ Place < n /\ text[Place + 1] \in Digits /\ seen_initial_zero /\ ~seen_dot
               /\ result = "UnexpectedCharacter"
         /\ seen_dot <=> \E j \in 1..Place : text[j] = "."
         /\ seen_initial_zero <=> Place > Sign /\ text[Sign + 1] = "0"
         /\ seen_initial_zero /\ ~seen_dot => Place = Sign + 1
<1>1. TypeOK /\ PlaceInv /\ LocalsInv /\ ResultInv
  BY DEF NumberInv
<1>2. text \in Seq(Char) /\ Len(text) \in Nat /\ i \in Nat /\ Sign \in {0, 1}
      /\ Place = Sign + i /\ Place \in Nat /\ n \in Nat
  BY <1>1 DEF TypeOK, Sign, Place
<1>3. Place <= n
  <2>1. Place <= Len(text) /\ \A j \in 1..Place : text[j] # Comma
    BY <1>1 DEF PlaceInv
  <2>2. n + 1 \in 1..Place => text[n + 1] # Comma
    BY <2>1
  <2> QED BY <1>2, <2>1, <2>2
<1>4. Clean(Place)
  <2>1. 1..Place \subseteq 1..n
    BY <1>2, <1>3
  <2> QED BY <2>1 DEF Clean
<1>5. /\ str_value = SubSeq(text, 1, Place)
      /\ seen_dot <=> \E j \in 1..Place : text[j] = "."
      /\ seen_initial_zero <=> i > 0 /\ text[Sign + 1] = "0"
      /\ seen_initial_zero /\ ~seen_dot => i = 1
  BY <1>1, <1>4 DEF LocalsInv
<1>6. Place < n => ch = text[Place + 1] /\ ch \in Digits \cup {"."}
  <2>1. Place < n => Place < Len(text) /\ Place + 1 \in 1..n /\ Place + 1 > Sign
    BY <1>2
  <2> QED BY <1>1, <2>1 DEF PlaceInv, At, Clean
<1>7. Place = n => ch \in Delimiters
  BY <1>1, <1>2 DEF PlaceInv, At, Delimiters
<1>8. Place = n => pos = n /\ str_value # <<>>
  <2>1. Place = n => i # 0
    BY <1>2
  <2>2. Place = n => pos = n
    BY <1>1, <2>1 DEF PlaceInv
  <2>3. Len(SubSeq(text, 1, n)) = n /\ n # 0
    BY <1>2
  <2>4. Place = n => str_value # <<>>
    BY <1>5, <2>3
  <2> QED BY <2>2, <2>4
<1>9. \/ /\ ch \in Delimiters
         /\ result = IF str_value = <<>> THEN "UnexpectedCharacter"
                     ELSE IF seen_dot THEN "Float" ELSE "Integer"
      \/ ch = "." /\ seen_dot /\ result = "UnexpectedCharacter"
      \/ /\ ch \in Digits /\ seen_initial_zero /\ ~seen_dot
         /\ result = "UnexpectedCharacter"
  BY <1>1, <1>4 DEF ResultInv
<1>10. /\ Delimiters \cap (Digits \cup {"."}) = {}
  BY DEF Delimiters, Comma, Digits
<1>11. \/ /\ Place = n /\ pos = n /\ str_value = SubSeq(text, 1, n)
          /\ result = IF seen_dot THEN "Float" ELSE "Integer"
       \/ /\ Place < n /\ text[Place + 1] = "." /\ seen_dot
          /\ result = "UnexpectedCharacter"
       \/ /\ Place < n /\ text[Place + 1] \in Digits /\ seen_initial_zero /\ ~seen_dot
          /\ result = "UnexpectedCharacter"
  <2>1. CASE Place = n
    BY <1>5, <1>7, <1>8, <1>9, <1>10, <2>1
  <2>2. CASE Place < n
    BY <1>6, <1>9, <1>10, <2>2
  <2> QED BY <1>2, <1>3, <2>1, <2>2
<1>12. /\ seen_initial_zero <=> Place > Sign /\ text[Sign + 1] = "0"
       /\ seen_initial_zero /\ ~seen_dot => Place = Sign + 1
       /\ Place \in Sign..n
  BY <1>2, <1>3, <1>5
<1> QED BY <1>2, <1>5, <1>11, <1>12

\* The digits of a number, and where they are in the text.
LEMMA UnsignedIs ==
  ASSUME NEW s \in Seq(Char), NEW o \in {0, 1},
         o = IF s # <<>> /\ s[1] = "-" THEN 1 ELSE 0
  PROVE  /\ Unsigned(s) \in Seq(Char)
         /\ Len(s) \in Nat /\ Len(s) >= o
         /\ Len(Unsigned(s)) = Len(s) - o
         /\ \A j \in 1..(Len(s) - o) : Unsigned(s)[j] = s[j + o]
<1>1. CASE s # <<>> /\ s[1] = "-"
  <2>1. Unsigned(s) = Tail(s) /\ o = 1
    BY <1>1 DEF Unsigned
  <2>2. Len(s) \in Nat /\ Len(s) >= 1
    BY <1>1
  <2>3. Tail(s) \in Seq(Char) /\ Len(Tail(s)) = Len(s) - 1
        /\ \A j \in 1..(Len(s) - 1) : Tail(s)[j] = s[j + 1]
    BY <1>1
  <2> QED BY <2>1, <2>2, <2>3
<1>2. CASE ~(s # <<>> /\ s[1] = "-")
  <2>1. Unsigned(s) = s /\ o = 0 /\ Len(s) \in Nat
    BY <1>2 DEF Unsigned
  <2>2. \A j \in 1..Len(s) : j + 0 = j
    OBVIOUS
  <2> QED BY <2>1, <2>2
<1> QED BY <1>1, <1>2

\* A sign and digits: in the text they are what the loop keeps.
LEMMA DigitsClean ==
  ASSUME TypeOK, NEW n \in 0..Len(text), NEW s \in Seq(Char), Len(s) = n,
         \A j \in 1..n : s[j] = text[j],
         DigitString(Unsigned(s))
  PROVE  /\ Sign \in {0, 1} /\ n \in Nat /\ n > Sign /\ Clean(n)
         /\ \A j \in 1..n : j > Sign => text[j] \in Digits
         /\ IsInteger(s) <=> (text[Sign + 1] = "0" => n = Sign + 1)
<1>1. text \in Seq(Char) /\ Len(text) \in Nat /\ Sign \in {0, 1} /\ n \in Nat
  BY DEF TypeOK, Sign
<1> DEFINE o == IF s # <<>> /\ s[1] = "-" THEN 1 ELSE 0
<1>2. o \in {0, 1}
  OBVIOUS
<1>3. /\ Unsigned(s) \in Seq(Char) /\ Len(s) \in Nat /\ Len(s) >= o
      /\ Len(Unsigned(s)) = Len(s) - o
      /\ \A j \in 1..(Len(s) - o) : Unsigned(s)[j] = s[j + o]
  BY <1>2, UnsignedIs
<1>4. s # <<>>
  <2>1. Unsigned(<<>>) = <<>>
    BY DEF Unsigned
  <2> QED BY <2>1 DEF DigitString
<1>5. n >= 1
  BY <1>1, <1>3, <1>4
<1>6. o = Sign
  <2>1. s[1] = text[1]
    BY <1>5
  <2> QED BY <1>4, <2>1 DEF Sign
<1>7. Unsigned(s) # <<>> /\ \A j \in 1..(n - o) : Unsigned(s)[j] \in Digits
  BY <1>3 DEF DigitString
<1> HIDE DEF o
<1>8. n - o >= 1
  BY <1>1, <1>2, <1>3, <1>7
<1>9. ASSUME NEW j \in 1..n, j > Sign PROVE text[j] \in Digits
  <2>1. j - o \in 1..(n - o) /\ (j - o) + o = j
    BY <1>1, <1>6, <1>9
  <2> QED BY <1>3, <1>7, <2>1
<1>10. Clean(n)
  BY <1>9 DEF Clean
<1>11. Unsigned(s)[1] = text[Sign + 1]
  <2>1. 1 \in 1..(n - o) /\ 1 + o = Sign + 1 /\ 1 + o \in 1..n
    BY <1>1, <1>2, <1>6, <1>8
  <2> QED BY <1>3, <2>1
<1>12. IsInteger(s) <=> (text[Sign + 1] = "0" => Len(Unsigned(s)) = 1)
  BY <1>11 DEF IsInteger
<1>13. Len(Unsigned(s)) = 1 <=> n = Sign + 1
  BY <1>1, <1>3, <1>6
<1>14. n > Sign
  BY <1>1, <1>6, <1>8
<1> QED BY <1>1, <1>9, <1>10, <1>12, <1>13, <1>14

LEMMA IntegersFollow == NumberInv => IntegersExact
<1> SUFFICES ASSUME NumberInv, result # "reading", DigitString(Unsigned(Number))
             PROVE  IF IsInteger(Number)
                    THEN result = "Integer" /\ str_value = Number /\ pos = Len(Number)
                    ELSE result = "UnexpectedCharacter"
  BY DEF IntegersExact
<1>1. TypeOK
  BY DEF NumberInv
<1>2. PICK n \in 0..Len(text) :
        /\ Number = SubSeq(text, 1, n)
        /\ Number \in Seq(Char) /\ Len(Number) = n
        /\ \A j \in 1..n : Number[j] = text[j] /\ text[j] # Comma
        /\ n < Len(text) => text[n + 1] = Comma
  BY <1>1, NumberIs
<1>3. /\ Sign \in {0, 1} /\ n \in Nat /\ n > Sign /\ Clean(n)
      /\ \A j \in 1..n : j > Sign => text[j] \in Digits
      /\ IsInteger(Number) <=> (text[Sign + 1] = "0" => n = Sign + 1)
  BY <1>1, <1>2, DigitsClean
<1>4. /\ Place \in Sign..n
      /\ \/ /\ Place = n /\ pos = n /\ str_value = SubSeq(text, 1, n)
            /\ result = IF seen_dot THEN "Float" ELSE "Integer"
         \/ /\ Place < n /\ text[Place + 1] = "." /\ seen_dot
            /\ result = "UnexpectedCharacter"
         \/ /\ Place < n /\ text[Place + 1] \in Digits /\ seen_initial_zero /\ ~seen_dot
            /\ result = "UnexpectedCharacter"
      /\ seen_dot <=> \E j \in 1..Place : text[j] = "."
      /\ seen_initial_zero <=> Place > Sign /\ text[Sign + 1] = "0"
      /\ seen_initial_zero /\ ~seen_dot => Place = Sign + 1
  BY <1>2, <1>3, WhereItEnds
<1>5. Place \in Nat
  BY <1>3, <1>4
<1>6. ~seen_dot
  <2>1. ASSUME NEW j \in 1..Place PROVE text[j] # "."
    <3>1. j \in 1..n
      BY <1>3, <1>4, <1>5
    <3>2. CASE j > Sign
      BY <1>3, <3>1, <3>2 DEF Digits
    <3>3. CASE ~(j > Sign)
      <4>1. j = 1 /\ Sign = 1
        BY <1>3, <3>3
      <4> QED BY <4>1 DEF Sign
    <3> QED BY <3>2, <3>3
  <2> QED BY <1>4, <2>1
<1>7. CASE Place = n
  <2>1. result = "Integer" /\ str_value = Number /\ pos = Len(Number)
    BY <1>2, <1>3, <1>4, <1>6, <1>7
  <2>2. text[Sign + 1] = "0" => n = Sign + 1
    BY <1>3, <1>4, <1>6, <1>7
  <2> QED BY <1>3, <2>1, <2>2
<1>8. CASE Place < n
  <2>1. seen_initial_zero /\ result = "UnexpectedCharacter"
    BY <1>3, <1>4, <1>6, <1>8
  <2>2. text[Sign + 1] = "0" /\ n # Sign + 1
    BY <1>3, <1>4, <1>6, <1>8, <2>1
  <2> QED BY <1>3, <2>1, <2>2
<1> QED BY <1>3, <1>4, <1>5, <1>7, <1>8

\* ReadNumber accepts exactly the integers of the JSON grammar among the
\* texts of a sign and digits, of any length, and consumes all of them.
THEOREM NumberIntegersExact == Spec => []IntegersExact
<1> QED BY NumberSpecInv, IntegersFollow, PTL

\* An integer, a dot and digits: all of it is what the loop keeps, and there
\* is no other dot.
LEMMA DecimalClean ==
  ASSUME TypeOK, NEW n \in 0..Len(text), NEW s \in Seq(Char), Len(s) = n,
         \A j \in 1..n : s[j] = text[j],
         IsDecimal(s)
  PROVE  \E k \in 1..n :
           /\ Sign \in {0, 1} /\ n \in Nat /\ k > Sign + 1 /\ Clean(n)
           /\ \A j \in 1..n : text[j] = "." <=> j = k
           /\ text[Sign + 1] = "0" => k = Sign + 2
<1>1. text \in Seq(Char) /\ Len(text) \in Nat /\ n \in Nat /\ Sign \in {0, 1}
  BY DEF TypeOK, Sign
<1>2. PICK k \in 1..n : /\ s[k] = "."
                        /\ IsInteger(SubSeq(s, 1, k - 1))
                        /\ DigitString(SubSeq(s, k + 1, Len(s)))
  BY DEF IsDecimal
<1> DEFINE a == SubSeq(s, 1, k - 1)
           b == SubSeq(s, k + 1, n)
<1>3. a \in Seq(Char) /\ Len(a) = k - 1 /\ \A j \in 1..(k - 1) : a[j] = s[j]
  BY <1>1
<1>4. b \in Seq(Char) /\ Len(b) = n - k /\ \A j \in 1..(n - k) : b[j] = s[k + j]
  BY <1>1
<1>5. DigitString(Unsigned(a)) /\ IsInteger(a)
  BY <1>2 DEF IsInteger
<1>6. \A j \in 1..(n - k) : b[j] \in Digits
  <2>1. DigitString(b)
    BY <1>2
  <2> HIDE DEF b
  <2>2. DOMAIN b = 1..(n - k)
    BY <1>4
  <2> QED BY <2>1, <2>2 DEF DigitString
<1> HIDE DEF a, b
<1>7. k - 1 \in 0..Len(text) /\ \A j \in 1..(k - 1) : a[j] = text[j]
  BY <1>1, <1>3
<1>8. /\ k - 1 > Sign
      /\ \A j \in 1..(k - 1) : j > Sign => text[j] \in Digits
      /\ text[Sign + 1] = "0" => k - 1 = Sign + 1
  BY <1>3, <1>5, <1>7, DigitsClean
<1>9. ASSUME NEW j \in 1..n, j > k PROVE text[j] \in Digits
  <2>1. j - k \in 1..(n - k) /\ k + (j - k) = j
    BY <1>1, <1>9
  <2> QED BY <1>4, <1>6, <2>1
<1>10. text[k] = "."
  BY <1>2
<1>11. ASSUME NEW j \in 1..n, j > Sign PROVE text[j] \in Digits \/ j = k
  <2>1. CASE j < k
    <3>1. j \in 1..(k - 1)
      BY <1>1, <2>1
    <3> QED BY <1>8, <1>11, <3>1
  <2>2. CASE j > k
    BY <1>9, <2>2
  <2> QED BY <1>1, <2>1, <2>2
<1>12. Clean(n)
  BY <1>10, <1>11 DEF Clean
<1>13. ASSUME NEW j \in 1..n PROVE text[j] = "." <=> j = k
  <2>1. CASE j > Sign
    BY <1>10, <1>11, <2>1 DEF Digits
  <2>2. CASE ~(j > Sign)
    <3>1. j = 1 /\ Sign = 1 /\ j # k
      BY <1>1, <1>8, <2>2
    <3>2. text[1] = "-"
      BY <3>1 DEF Sign
    <3> QED BY <3>1, <3>2
  <2> QED BY <2>1, <2>2
<1>14. k > Sign + 1 /\ (text[Sign + 1] = "0" => k = Sign + 2)
  BY <1>1, <1>8
<1> QED BY <1>1, <1>12, <1>13, <1>14

LEMMA DecimalsFollow == NumberInv => DecimalsRead
<1> SUFFICES ASSUME NumberInv, result # "reading", IsDecimal(Number)
             PROVE  result = "Float" /\ str_value = Number /\ pos = Len(Number)
  BY DEF DecimalsRead
<1>1. TypeOK
  BY DEF NumberInv
<1>2. PICK n \in 0..Len(text) :
        /\ Number = SubSeq(text, 1, n)
        /\ Number \in Seq(Char) /\ Len(Number) = n
        /\ \A j \in 1..n : Number[j] = text[j] /\ text[j] # Comma
        /\ n < Len(text) => text[n + 1] = Comma
  BY <1>1, NumberIs
<1>3. PICK k \in 1..n :
        /\ Sign \in {0, 1} /\ n \in Nat /\ k > Sign + 1 /\ Clean(n)
        /\ \A j \in 1..n : text[j] = "." <=> j = k
        /\ text[Sign + 1] = "0" => k = Sign + 2
  BY <1>1, <1>2, DecimalClean
<1>4. n > Sign
  BY <1>3
<1>5. /\ Place \in Sign..n
      /\ \/ /\ Place = n /\ pos = n /\ str_value = SubSeq(text, 1, n)
            /\ result = IF seen_dot THEN "Float" ELSE "Integer"
         \/ /\ Place < n /\ text[Place + 1] = "." /\ seen_dot
            /\ result = "UnexpectedCharacter"
         \/ /\ Place < n /\ text[Place + 1] \in Digits /\ seen_initial_zero /\ ~seen_dot
            /\ result = "UnexpectedCharacter"
      /\ seen_dot <=> \E j \in 1..Place : text[j] = "."
      /\ seen_initial_zero <=> Place > Sign /\ text[Sign + 1] = "0"
      /\ seen_initial_zero /\ ~seen_dot => Place = Sign + 1
  BY <1>2, <1>3, <1>4, WhereItEnds
<1>6. Place \in Nat /\ Place <= n /\ (Place < n => Place + 1 \in 1..n)
  BY <1>3, <1>5
<1>7. seen_dot <=> k \in 1..Place
  <2>1. 1..Place \subseteq 1..n
    BY <1>3, <1>6
  <2> QED BY <1>3, <1>5, <2>1
<1>8. CASE Place = n
  <2>1. seen_dot
    BY <1>7, <1>8
  <2> QED BY <1>2, <1>3, <1>5, <1>8, <2>1
<1>9. CASE Place < n /\ text[Place + 1] = "." /\ seen_dot
  <2>1. Place + 1 = k
    BY <1>3, <1>6, <1>9
  <2>2. k \notin 1..Place
    BY <1>6, <2>1
  <2> QED BY <1>7, <1>9, <2>2
<1>10. CASE Place < n /\ text[Place + 1] \in Digits /\ seen_initial_zero /\ ~seen_dot
  <2>1. k = Sign + 2 /\ Place = Sign + 1
    BY <1>3, <1>5, <1>10
  <2>2. Place + 1 = k
    BY <1>3, <2>1
  <2>3. text[Place + 1] = "."
    BY <1>3, <2>2
  <2> QED BY <1>10, <2>3 DEF Digits
<1> QED BY <1>5, <1>8, <1>9, <1>10

\* ReadNumber reads every decimal of the JSON grammar, of any length, as a
\* float with all of its characters, and consumes no more than them.
THEOREM NumberDecimalsRead == Spec => []DecimalsRead
<1> QED BY NumberSpecInv, DecimalsFollow, PTL
=============================================================================
