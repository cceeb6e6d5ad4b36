------------------------------ MODULE LogFile ------------------------------
(***************************************************************************)
(* The way of the packet log: PacketLogger (src/main.cc) writes through a  *)
(* BufferedOutputStream over a FileOutputStream, and playbacktun           *)
(* (src/playback_tun.cc) reads the file through a BufferedInputStream over *)
(* a FileInputStream.  The buffered stream waits for every call it makes   *)
(* of its delegatee.  cheaproute ends only by being killed, in the middle  *)
(* of whatever it does, and never empties its buffer then; its file may be *)
(* played back all the same.  The bytes written are 1, 2, 3, ..., so that  *)
(* every one lost, repeated or moved shows.                                *)
(***************************************************************************)
EXTENDS BufferedOutputStream, SequencesExt

ASSUME LogAssumption == 1..MaxLen \subseteq Byte

VARIABLES
  fpc, buf, total_bytes_written, file, short,  \* FileOutputStream
  todo,     \* the calls of the delegatee that are still to be made
  settled,  \* history: flushed, as of the last call that has returned
  playing,  \* cheaproute is gone and playbacktun reads its file
  source, rest, ahead, taken, call, count, result  \* BufferedInputStream

fileVars == <<fpc, buf, total_bytes_written, file, short>>
readerVars == <<source, rest, ahead, taken, call, count, result>>
logVars == <<vars, fileVars, todo, settled, playing, readerVars>>

File == INSTANCE FileOutputStream WITH pc <- fpc
Reader == INSTANCE BufferedInputStream

LogInit ==
  /\ Init
  /\ File!Init
  /\ todo = <<>>
  /\ settled = 0
  /\ playing = FALSE
  /\ Reader!OpenedOn(<<>>)

\* The last call of the delegatee has returned.
Returned == todo = <<>> /\ fpc = "idle"

\* What the last Flush that returned has flushed.
Settle == settled' = IF Returned' THEN flushed' ELSE settled

\* A caller's next n bytes.
Bytes(n) == [i \in 1..n |-> Len(written) + i]
Sizes == {n \in 0..MaxWrite : Len(written) + n <= MaxLen}

\* The calls of the delegatee that bytes stand for: FileOutputStream::Write
\* returns at once when it is given none.
Calls(bytes) == IF bytes = <<>> THEN <<>> ELSE <<bytes>>

\* What the step hands to the delegatee.
Handed == SubSeq(sink', Len(sink) + 1, Len(sink'))

\* A step of the buffered stream: its caller calls it, or its loop goes on.
Buffer ==
  /\ ~playing
  /\ Returned
  /\ \/ \E n \in Sizes : /\ WriteLarge(Bytes(n))
                         /\ todo' = Calls(buffer) \o Calls(Bytes(n))
     \/ /\ \/ \E b \in {Len(written) + 1} : WriteChar(b)
           \/ \E n \in Sizes : WriteSmall(Bytes(n))
           \/ Copy \/ WriteDone \/ Flush
        /\ todo' = Calls(Handed)
  /\ UNCHANGED <<fileVars, playing, readerVars>>
  /\ Settle

CallDelegatee ==
  /\ ~playing
  /\ todo # <<>>
  /\ File!Write(Head(todo))
  /\ todo' = Tail(todo)
  /\ UNCHANGED <<vars, settled, playing, readerVars>>

Kernel ==
  /\ ~playing
  /\ File!Loop
  /\ UNCHANGED <<vars, todo, playing, readerVars>>
  /\ Settle

\* cheaproute is killed, or has aborted, and its file is opened.  (Bound:
\* files that a short write has spoilt are not read back; what the reader
\* does with them, as with any file, is proved in LogFileProofs.)
OpenLog ==
  /\ ~playing
  /\ ~short
  /\ playing' = TRUE
  /\ source' = file
  /\ rest' = file
  /\ UNCHANGED <<vars, fileVars, todo, settled, ahead, taken, call, count,
                 result>>

Read ==
  /\ playing
  /\ Reader!Next
  /\ UNCHANGED <<vars, fileVars, todo, settled, playing>>

LogNext == Buffer \/ CallDelegatee \/ Kernel \/ OpenLog \/ Read

\* The thread runs on: calls that were begun are gone on with, and write(2)
\* returns, since stdout is in blocking mode and somebody reads it.
LogSpec ==
  /\ LogInit
  /\ [][LogNext]_logVars
  /\ WF_logVars(Buffer /\ pc = "copy")
  /\ WF_logVars(CallDelegatee)
  /\ WF_logVars(Kernel)

(***************************************************************************)
(* Properties.                                                             *)
(***************************************************************************)
\* As long as the kernel takes every buffer whole, the file holds what the
\* buffered stream has handed down, but for the calls still to be made, at
\* every point at which the program may be killed.  (After a short write it
\* does not: the loop offers buf from its start again, so what was taken is
\* repeated and the end of buf may never be.)
WholeWritesIntact ==
  LET offered == IF fpc # "idle" /\ total_bytes_written = 0 THEN buf ELSE <<>>
  IN  ~short => file \o offered \o FlattenSeq(todo) = sink

\* What playbacktun has read at any moment is the beginning of what
\* PacketLogger wrote, and when it is told of the end it has read everything
\* up to the last Flush that returned: the log loses no packet that was
\* logged, however the two programs' buffers and their short reads fall, and
\* whatever the first was doing when it was killed, calls of write(2) and the
\* next Flush included.
LogReadsBack ==
  ~short =>
    /\ IsPrefix(taken, written)
    /\ playing /\ call = "read" /\ result = Reader!EOF => Len(taken) >= settled

\* Peek promises what Read returns, also when the buffer has to be filled.
PeekIsNext == Reader!PeekIsNext

\* Every call of Write and Flush returns unless the program ends, however
\* little the kernel takes at a time.
WriteReturns ==
  (pc = "copy" \/ ~Returned)
    ~> ((pc = "idle" /\ Returned) \/ fpc = "aborted" \/ playing)
=============================================================================
