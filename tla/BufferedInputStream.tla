------------------------- MODULE BufferedInputStream -------------------------
(***************************************************************************)
(* BufferedInputStream (src/base/stream.{h,cc}), which JsonReader pulls    *)
(* its characters from.  ahead is the part of buffer_ between pos_ and     *)
(* end_; rest is what the delegatee (a FileInputStream or a                *)
(* MemoryInputStream) has still to give.  A call of the delegatee returns  *)
(* as few bytes as read(2) likes, and 0 only at the end of the file.       *)
(***************************************************************************)
EXTENDS StreamSizes, Integers, Sequences

VARIABLES
  source,  \* the contents of the file
  rest,
  ahead,
  taken,   \* history: what the callers have been given by Read
  call,    \* the call that has returned: "none", "read", "peek", "readn",
           \* or "aborted"
  count,   \* ... its count argument
  result   \* ... and its result

vars == <<source, rest, ahead, taken, call, count, result>>

EOF == -1

\* A stream is made for a file that holds f.
OpenedOn(f) ==
  /\ source = f
  /\ rest = f
  /\ ahead = <<>>
  /\ taken = <<>>
  /\ call = "none"
  /\ count = 0
  /\ result = 0

Init == \E f \in Seq(Byte) : OpenedOn(f)

Least(m, n) == IF m < n THEN m ELSE n

\* The numbers of bytes that delegatee_->Read(buf, n) may return.
DelegateeReturns(n) ==
  IF n = 0 \/ rest = <<>> THEN {0} ELSE 1 .. Least(n, Len(rest))

Return(c, n, r) == call' = c /\ count' = n /\ result' = r

\* Read() takes the byte at pos_, ...
ReadFast ==
  /\ ahead # <<>>
  /\ Return("read", 0, Head(ahead))
  /\ ahead' = Tail(ahead)
  /\ taken' = Append(taken, Head(ahead))
  /\ UNCHANGED rest

\* ... or fills the buffer first.
ReadSlowPath ==
  /\ ahead = <<>>
  /\ \E n \in DelegateeReturns(ReadBufferSize) :
       LET b == SubSeq(rest, 1, n)
       IN  /\ rest' = SubSeq(rest, n + 1, Len(rest))
           /\ IF n > 0
              THEN /\ Return("read", 0, Head(b))
                   /\ ahead' = Tail(b)
                   /\ taken' = Append(taken, Head(b))
              ELSE Return("read", 0, EOF) /\ UNCHANGED <<ahead, taken>>

PeekFast ==
  /\ ahead # <<>>
  /\ Return("peek", 0, Head(ahead))
  /\ UNCHANGED <<rest, ahead, taken>>

\* Faulty variant: the byte that is peeked is also skipped.
PeekSlowPathSkips ==
  /\ ahead = <<>>
  /\ \E n \in DelegateeReturns(ReadBufferSize) :
       LET b == SubSeq(rest, 1, n)
       IN  /\ rest' = SubSeq(rest, n + 1, Len(rest))
           /\ IF n > 0
              THEN Return("peek", 0, Head(b)) /\ ahead' = Tail(b)
              ELSE Return("peek", 0, EOF) /\ ahead' = b
           /\ UNCHANGED taken

PeekSlowPath ==
  /\ ahead = <<>>
  /\ \E n \in DelegateeReturns(ReadBufferSize) :
       LET b == SubSeq(rest, 1, n)
       IN  /\ rest' = SubSeq(rest, n + 1, Len(rest))
           /\ ahead' = b
           /\ Return("peek", 0, IF n > 0 THEN Head(b) ELSE EOF)
           /\ UNCHANGED taken

\* Read(buf, c): hand over k bytes of b, keep the others ahead.
Deliver(b, c) ==
  LET k == Least(Len(b), c)
  IN  /\ Return("readn", c, k)
      /\ taken' = taken \o SubSeq(b, 1, k)
      /\ ahead' = SubSeq(b, k + 1, Len(b))

\* Read(buf, c) with bytes ahead returns those and asks for no more.
ReadAvailable(c) ==
  /\ ahead # <<>>
  /\ Deliver(ahead, c)
  /\ UNCHANGED rest

Large(c) == c >= ReadBufferSize \div 2

\* Many bytes are read straight into the caller's buffer, ...
ReadDirect(c) ==
  /\ ahead = <<>>
  /\ Large(c)
  /\ \E n \in DelegateeReturns(c) :
       /\ Return("readn", c, n)
       /\ taken' = taken \o SubSeq(rest, 1, n)
       /\ rest' = SubSeq(rest, n + 1, Len(rest))
  /\ UNCHANGED ahead

\* ... few through the buffer.
ReadFill(c) ==
  /\ ahead = <<>>
  /\ ~Large(c)
  /\ \E n \in DelegateeReturns(ReadBufferSize) :
       /\ Deliver(SubSeq(rest, 1, n), c)
       /\ rest' = SubSeq(rest, n + 1, Len(rest))

\* read(2) fails: CheckFdOp ends the process.
DelegateeFails ==
  /\ ahead = <<>>
  /\ Return("aborted", 0, 0)
  /\ UNCHANGED <<rest, ahead, taken>>

Next ==
  /\ call # "aborted"
  /\ UNCHANGED source
  /\ \/ ReadFast \/ ReadSlowPath
     \/ PeekFast \/ PeekSlowPath
     \/ \E c \in 0 .. MaxCount : ReadAvailable(c) \/ ReadDirect(c) \/ ReadFill(c)
     \/ DelegateeFails

Spec == Init /\ [][Next]_vars

(***************************************************************************)
(* Properties.                                                             *)
(***************************************************************************)
\* Every variable has its type and the buffer never holds more than it can.
TypeOK ==
  /\ source \in Seq(Byte)
  /\ rest \in Seq(Byte)
  /\ ahead \in Seq(Byte) /\ Len(ahead) <= ReadBufferSize
  /\ taken \in Seq(Byte)
  /\ call \in {"none", "read", "peek", "readn", "aborted"}
  /\ count \in Nat
  /\ result \in Int

\* However single-byte reads, peeks and block reads are mixed, and however
\* few bytes the file gives at a time, what the callers were given followed
\* by what is still ahead is the file: nothing is lost, repeated or
\* reordered between pos_, end_ and the delegatee.
InOrder == taken \o (ahead \o rest) = source

\* A caller is told that the stream has ended (-1, or 0 bytes when it asked
\* for some) only when it has been given the whole file: a short read of the
\* delegatee is never mistaken for the end, and the end never hides bytes
\* that are still in the buffer.
EndIsTheEnd ==
  \/ call \in {"read", "peek"} /\ result = EOF
  \/ call = "readn" /\ count > 0 /\ result = 0
  => taken = source

\* What Peek shows is what the next Read takes (JsonReader's numbers and
\* keywords peek a delimiter and leave it to the next token).
PeekIsNext ==
  [][call = "peek" /\ call' = "read" => result' = result]_vars
=============================================================================
