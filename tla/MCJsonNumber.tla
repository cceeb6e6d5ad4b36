---------------------------- MODULE MCJsonNumber ----------------------------
\* Every text of up to MaxText characters that ReadNumber may be called for,
\* and those of the tests.
EXTENDS JsonNumber

CONSTANT MaxText

AllTexts ==
  {t \in UNION {[1..n -> Char \ {"EOF"}] : n \in 1..MaxText} :
     t[1] \in Digits \cup {"-"}} \cup TestedBadNumbers
=============================================================================
