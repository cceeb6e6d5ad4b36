------------------------------ MODULE HexCodec ------------------------------
(***************************************************************************)
(* FormatHex and ParseHex (src/base/common.cc).  A string is the sequence  *)
(* of its character codes.                                                 *)
(***************************************************************************)
EXTENDS Integers, Sequences, SequencesExt

kHexChars(nibble) == IF nibble < 10 THEN 48 + nibble ELSE 87 + nibble

\* The table covers codes up to 255; its index is a signed char, so what it
\* gives for codes from 128 on is undefined; no text here depends on it.
kHexValues(ch) ==
  CASE ch \in 48 .. 57  -> ch - 48
    [] ch \in 65 .. 70  -> ch - 55
    [] ch \in 97 .. 102 -> ch - 87
    [] OTHER            -> -1

\* What follows the byte at position i of n: nothing after the last one, a
\* second space in the middle of a line of sixteen, a line feed at its end.
Separator(i, n) ==
  CASE i = n       -> <<>>
    [] i % 16 = 8  -> <<32, 32>>
    [] i % 16 = 0  -> <<10>>
    [] OTHER       -> <<32>>

FormatHex(s) ==
  FlattenSeq([i \in 1 .. Len(s) |->
    <<kHexChars(s[i] \div 16), kHexChars(s[i] % 16)>> \o Separator(i, Len(s))])

Spaces == {9, 10, 13, 32}

\* Two digits next to each other from position i on.
Pair(s, i) ==
  i < Len(s) /\ kHexValues(s[i]) # -1 /\ kHexValues(s[i + 1]) # -1

\* The result of ParseHex and the bytes it has appended when it returns: it
\* stops at the first thing that is neither white space nor two digits.
ParseHex(s) ==
  LET parse[i \in 1 .. Len(s) + 1] ==
        LET rest(k) == parse[i + k]
        IN  CASE i = Len(s) + 1                -> [ok |-> TRUE, out |-> <<>>]
              [] i <= Len(s) /\ s[i] \in Spaces -> rest(1)
              [] i <= Len(s) /\ Pair(s, i)      ->
                   [rest(2) EXCEPT
                      !.out = <<16 * kHexValues(s[i]) + kHexValues(s[i + 1])>> \o @]
              [] OTHER                         -> [ok |-> FALSE, out |-> <<>>]
  IN  parse[1]
=============================================================================
