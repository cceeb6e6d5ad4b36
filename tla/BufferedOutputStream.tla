------------------------ MODULE BufferedOutputStream ------------------------
(***************************************************************************)
(* BufferedOutputStream (src/base/stream.{h,cc}), which JsonWriter writes  *)
(* through.  buffer is the part of buffer_ before pos_; the loop of        *)
(* Write(buf, size) is one step per iteration, with src the bytes it still *)
(* has to copy.  The delegatee takes whatever Flush and the large writes   *)
(* pass to it.                                                             *)
(***************************************************************************)
EXTENDS StreamSizes, Sequences

VARIABLES
  pc,       \* "idle", or "copy" in the loop of Write(buf, size)
  src,
  buffer,
  sink,     \* what the delegatee has been given
  written,  \* history: what the callers have written
  flushed   \* history: length of written at the last Flush

vars == <<pc, src, buffer, sink, written, flushed>>

Init ==
  /\ pc = "idle"
  /\ src = <<>>
  /\ buffer = <<>>
  /\ sink = <<>>
  /\ written = <<>>
  /\ flushed = 0

\* b, a full or partial buffer, is what buffer_ holds now: flush it if full.
Store(b) ==
  IF Len(b) = BufferSize
  THEN buffer' = <<>> /\ sink' = sink \o b
  ELSE buffer' = b /\ UNCHANGED sink

\* Write(char): *pos_++ = ch comes before any test.
WriteChar(ch) ==
  /\ pc = "idle"
  /\ Len(written) < MaxLen
  /\ written' = Append(written, ch)
  /\ Store(Append(buffer, ch))
  /\ UNCHANGED <<pc, src, flushed>>

Large(n) == n >= BufferSize \div 2

\* Faulty variant: the delegatee is handed the bytes ahead of the buffer.
WriteLargeUnflushed(s) ==
  /\ pc = "idle"
  /\ Large(Len(s))
  /\ written' = written \o s
  /\ sink' = sink \o s
  /\ UNCHANGED <<pc, src, buffer, flushed>>

\* Write(buf, size) with many bytes goes around the buffer.
WriteLarge(s) ==
  /\ pc = "idle"
  /\ Large(Len(s))
  /\ written' = written \o s
  /\ sink' = (sink \o buffer) \o s
  /\ buffer' = <<>>
  /\ UNCHANGED <<pc, src, flushed>>

\* Write(buf, size) with few bytes enters its loop ...
WriteSmall(s) ==
  /\ pc = "idle"
  /\ ~Large(Len(s))
  /\ written' = written \o s
  /\ src' = s
  /\ pc' = "copy"
  /\ UNCHANGED <<buffer, sink, flushed>>

\* ... which copies what there is room for ...
Copy ==
  LET room == BufferSize - Len(buffer)
      n == IF Len(src) < room THEN Len(src) ELSE room
  IN  /\ pc = "copy"
      /\ src # <<>>
      /\ Store(buffer \o SubSeq(src, 1, n))
      /\ src' = SubSeq(src, n + 1, Len(src))
      /\ UNCHANGED <<pc, written, flushed>>

\* ... until nothing is left.
WriteDone ==
  /\ pc = "copy"
  /\ src = <<>>
  /\ pc' = "idle"
  /\ UNCHANGED <<src, buffer, sink, written, flushed>>

\* Faulty variant: a buffer with a single byte is not worth a flush.
FlushMany ==
  /\ pc = "idle"
  /\ IF Len(buffer) > 1
     THEN sink' = sink \o buffer /\ buffer' = <<>>
     ELSE UNCHANGED <<sink, buffer>>
  /\ flushed' = Len(written)
  /\ UNCHANGED <<pc, src, written>>

Flush ==
  /\ pc = "idle"
  /\ sink' = sink \o buffer
  /\ buffer' = <<>>
  /\ flushed' = Len(written)
  /\ UNCHANGED <<pc, src, written>>

\* The byte strings a caller may write without exceeding the bounds.
Writes ==
  UNION {[1..n -> Byte] : n \in {k \in 0..MaxWrite : Len(written) + k <= MaxLen}}

Next ==
  \/ \E ch \in Byte : WriteChar(ch)
  \/ \E s \in Writes : WriteLarge(s) \/ WriteSmall(s)
  \/ Copy \/ WriteDone \/ Flush

Spec == Init /\ [][Next]_vars

(***************************************************************************)
(* Properties.                                                             *)
(***************************************************************************)
\* Every variable has its type, and buffer_ is never written past its end:
\* between calls there is always room for the byte that Write(char) stores
\* without looking.
TypeOK ==
  /\ pc \in {"idle", "copy"}
  /\ src \in Seq(Byte)
  /\ buffer \in Seq(Byte) /\ Len(buffer) < BufferSize
  /\ sink \in Seq(Byte)
  /\ written \in Seq(Byte)
  /\ flushed \in Nat

\* Through every mixture of single bytes, small and large writes no byte is
\* lost, repeated or overtaken on the way to the delegatee.
NothingLost == sink \o (buffer \o src) = written

\* What was written before a Flush has reached the delegatee, for good.
FlushReaches == Len(sink) >= flushed
=============================================================================
