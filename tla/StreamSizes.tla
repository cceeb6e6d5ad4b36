---------------------------- MODULE StreamSizes ----------------------------
\* The constants that the streams of src/base/stream.{h,cc} share.
EXTENDS Naturals

CONSTANTS
  Byte,
  BufferSize,      \* buffer_size of the constructor of BufferedOutputStream
  ReadBufferSize,  \* ... and of BufferedInputStream
  MaxWrite,        \* bound on the size of one write
  MaxLen,          \* bound on the number of bytes written in all
  MaxCount         \* bound on the count of one read

ASSUME SizeAssumption ==
  /\ Byte \subseteq Nat
  /\ BufferSize \in Nat \ {0} /\ ReadBufferSize \in Nat \ {0}
  /\ MaxWrite \in Nat /\ MaxLen \in Nat /\ MaxCount \in Nat
=============================================================================
