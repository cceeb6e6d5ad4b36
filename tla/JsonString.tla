----------------------------- MODULE JsonString -----------------------------
(***************************************************************************)
(* The text of a string: WriteRawString (src/base/json_writer.cc) and      *)
(* ReadString (src/base/json_reader.cc), over sequences of character       *)
(* codes.                                                                  *)
(***************************************************************************)
EXTENDS HexCodec

Quote == 34
Apostrophe == 39
Slash == 47
Backslash == 92
u == 117

\* The control characters that have an escape of their own: b, t, n, f, r.
kSpecialEscapes == [c \in {8, 9, 10, 12, 13} |->
  CASE c = 8 -> 98 [] c = 9 -> 116 [] c = 10 -> 110 [] c = 12 -> 102 [] c = 13 -> 114]

Escaped(c) ==
  CASE c \in {Quote, Backslash}      -> <<Backslash, c>>
    [] c \in DOMAIN kSpecialEscapes  -> <<Backslash, kSpecialEscapes[c]>>
    [] c < 32 /\ c \notin DOMAIN kSpecialEscapes ->
         <<Backslash, u, 48, 48, kHexChars(c \div 16), kHexChars(c % 16)>>
    [] OTHER -> <<c>>

\* A C string: it ends at its first NUL.
CString(s) ==
  LET nuls == {i \in DOMAIN s : s[i] = 0}
  IN  IF nuls = {} THEN s
      ELSE SubSeq(s, 1, (CHOOSE i \in nuls : \A j \in nuls : i <= j) - 1)

WriteRawString(s) ==
  LET c == CString(s)
  IN  <<Quote>> \o FlattenSeq([i \in DOMAIN c |-> Escaped(c[i])]) \o <<Quote>>

\* A code of up to four hexadecimal digits; surrogates are not paired.
AppendCharacterAsUtf8(ch) ==
  CASE ch <= 127               -> <<ch>>
    [] ch \in 128 .. 2047      -> <<192 + (ch \div 64), 128 + (ch % 64)>>
    [] ch \in 2048 .. 65535    -> <<224 + (ch \div 4096), 128 + ((ch \div 64) % 64), 128 + (ch % 64)>>

\* The value of the four digits from position i on; -1 if they are not there.
ReadUnicodeEscapeCharacter(s, i) ==
  LET digit(k) == kHexValues(s[i + k])
  IN  IF i + 3 > Len(s) \/ \E k \in 0 .. 3 : digit(k) = -1 THEN -1
      ELSE 4096 * digit(0) + 256 * digit(1) + 16 * digit(2) + digit(3)

\* What the character after a backslash stands for.
Unescaped(c) ==
  IF c \in {Quote, Slash, Backslash} THEN c
  ELSE CHOOSE k \in DOMAIN kSpecialEscapes : kSpecialEscapes[k] = c

Escapes == {Quote, Slash, Backslash} \cup {kSpecialEscapes[k] : k \in DOMAIN kSpecialEscapes}

\* The result of ReadString on the text s and the characters in str_value_
\* when it returns.
ReadString(s) ==
  LET n == Len(s)
      fails == [ok |-> FALSE, value |-> <<>>]
      read[i \in 2 .. n + 6] ==
        LET ch == ReadUnicodeEscapeCharacter(s, i + 2)
            before(c, k) == [read[i + k] EXCEPT !.value = c \o @]
        IN  CASE i > n -> fails
              [] i <= n /\ s[i] = s[1] -> [ok |-> TRUE, value |-> <<>>]
              [] i <= n /\ s[i] \notin {s[1], Backslash} -> before(<<s[i]>>, 1)
              [] i < n /\ s[i] = Backslash /\ s[i + 1] \in Escapes ->
                   before(<<Unescaped(s[i + 1])>>, 2)
              [] i < n /\ s[i] = Backslash /\ s[i + 1] = u /\ ch # -1 ->
                   before(AppendCharacterAsUtf8(ch), 6)
              [] OTHER -> fails
  IN  IF s[1] \notin {Quote, Apostrophe} THEN fails ELSE read[2]
=============================================================================
