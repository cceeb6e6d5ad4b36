-------------------------- MODULE FileOutputStream --------------------------
(***************************************************************************)
(* FileOutputStream::Write (src/base/stream.cc), through which the packet  *)
(* log reaches stdout.  Every iteration of its loop calls                  *)
(* write(fd_, buf, count) with the whole of buf; the kernel takes a        *)
(* non-empty prefix of it, takes nothing, or fails.                        *)
(***************************************************************************)
EXTENDS Naturals, Sequences

VARIABLES
  pc,                   \* "idle", "loop", or "aborted"
  buf,                  \* the bytes of the call being executed
  total_bytes_written,
  file,                 \* what the descriptor has taken
  short                 \* history: some write(2) took only a part

vars == <<pc, buf, total_bytes_written, file, short>>

Init ==
  /\ pc = "idle"
  /\ buf = <<>>
  /\ total_bytes_written = 0
  /\ file = <<>>
  /\ short = FALSE

Write(s) ==
  /\ pc = "idle"
  /\ buf' = s
  /\ total_bytes_written' = 0
  /\ pc' = "loop"
  /\ UNCHANGED <<file, short>>

\* Faulty variant: the loop runs until more than count bytes have gone out.
KernelTakesOnceMore(n) ==
  /\ pc = "loop"
  /\ total_bytes_written <= Len(buf)
  /\ n > 0
  /\ file' = file \o SubSeq(buf, 1, n)
  /\ total_bytes_written' = total_bytes_written + n
  /\ short' = (short \/ n < Len(buf))
  /\ UNCHANGED <<pc, buf>>

\* write(2) takes the first n bytes of what it is offered, always from the
\* start of buf.
KernelTakes(n) ==
  /\ pc = "loop"
  /\ total_bytes_written < Len(buf)
  /\ n > 0
  /\ file' = file \o SubSeq(buf, 1, n)
  /\ total_bytes_written' = total_bytes_written + n
  /\ short' = (short \/ n < Len(buf))
  /\ UNCHANGED <<pc, buf>>

\* CheckFdOp and AbortWithMessage end the process.
KernelFails ==
  /\ pc = "loop"
  /\ total_bytes_written < Len(buf)
  /\ pc' = "aborted"
  /\ UNCHANGED <<buf, total_bytes_written, file, short>>

\* Faulty variant: the loop waits for exactly count bytes.
WriteDoneExact ==
  /\ pc = "loop"
  /\ total_bytes_written = Len(buf)
  /\ pc' = "idle"
  /\ UNCHANGED <<buf, total_bytes_written, file, short>>

WriteDone ==
  /\ pc = "loop"
  /\ total_bytes_written >= Len(buf)
  /\ pc' = "idle"
  /\ UNCHANGED <<buf, total_bytes_written, file, short>>

Loop == \/ \E n \in 0 .. Len(buf) : KernelTakes(n)
        \/ KernelFails
        \/ WriteDone
=============================================================================
