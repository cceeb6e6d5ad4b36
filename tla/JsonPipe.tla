------------------------------ MODULE JsonPipe ------------------------------
(***************************************************************************)
(* What JsonWriter has written is read by a JsonReader, the way the log of *)
(* PacketLogger (src/main.cc) is meant for playbacktun                     *)
(* (src/playback_tun.cc).  The caller of the writer writes arrays and      *)
(* objects at the top level, as SerializePacket does, and the file is read *)
(* when they have been closed, if every value in an object was written     *)
(* behind its name, as SerializePacket does too.  The reader's text is the *)
(* writer's: Inputs is of no concern here.                                 *)
(***************************************************************************)
EXTENDS JsonWriter, JsonReader

VARIABLE
  reading  \* the file has been opened for reading

pipeVars == <<writerVars, reading, vars>>

PipeInit ==
  /\ WriterInit
  /\ ReaderInit(<<>>)
  /\ reading = FALSE

\* A call of the writer.
Log ==
  /\ ~reading
  /\ WriterNext
  /\ wmode = "DocumentStart" => calls' = calls \/ LastCall' \in Starts
  /\ UNCHANGED <<reading, vars>>

\* The documents are complete: a reader is made for what was written.
OpenLog ==
  /\ ~reading
  /\ wmode = "DocumentStart"
  /\ NamesFirst
  /\ reading' = TRUE
  /\ rest' = text
  /\ source' = text
  /\ UNCHANGED <<writerVars, positionVars, token_type, error_code, valueVars,
                 result, tokens>>

\* A call of Next() of the reader.
Read ==
  /\ reading
  /\ Next
  /\ UNCHANGED <<writerVars, reading>>

PipeNext == Log \/ OpenLog \/ Read

PipeSpec == PipeInit /\ [][PipeNext]_pipeVars

(***************************************************************************)
(* Properties.                                                             *)
(***************************************************************************)
\* Of the text that was written, the reader gives back the calls of the
\* writer, one for one, in order and with their values; it finds no error in
\* that text, and Next() returns false only when the last call has been given
\* back.
RoundTrip ==
  reading /\ source = text =>
    /\ IsPrefix(tokens, calls)
    /\ error_code = "None"
    /\ ~result => tokens = calls
=============================================================================
