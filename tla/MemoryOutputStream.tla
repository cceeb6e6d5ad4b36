------------------------- MODULE MemoryOutputStream -------------------------
(***************************************************************************)
(* MemoryOutputStream (src/base/stream.{h,cc}), what the tests of the      *)
(* writers collect their output in.  Only sizes matter here: size is       *)
(* buffer_.size() and pos is pos_.                                         *)
(***************************************************************************)
EXTENDS Naturals

CONSTANTS
  InitialSize,  \* buffer_.size() after the constructor: 16
  MaxWrite,     \* bound on the size of one write
  MaxPos        \* bound on the number of bytes written in all

VARIABLES size, pos

vars == <<size, pos>>

Init == size = InitialSize /\ pos = 0

Larger(m, n) == IF m > n THEN m ELSE n

\* count bytes go to buffer_[pos_], whatever pos_ + count is.
Write(count) ==
  /\ size' = IF count > size THEN Larger(size * 2, count) ELSE size
  /\ pos' = pos + count

Next == \E count \in {k \in 1..MaxWrite : pos + k <= MaxPos} : Write(count)

Spec == Init /\ [][Next]_vars

(***************************************************************************)
(* Properties.                                                             *)
(***************************************************************************)
\* The size() bytes from ptr() on are bytes of buffer_: AssertStreamContents
\* (src/test_util/stream.cc) copies them into the string it compares.
ContentsInBuffer == pos <= size
=============================================================================
