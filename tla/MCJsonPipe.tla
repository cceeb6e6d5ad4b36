----------------------------- MODULE MCJsonPipe -----------------------------
(***************************************************************************)
(* The writer's calls and the reader of what they wrote, and the reader on *)
(* texts that the writer did not write, as when somebody has edited the    *)
(* log by hand: every text of up to MaxText lexemes, and every text that   *)
(* is one replacement, insertion or deletion away from a document in which *)
(* arrays and objects nest both ways.                                      *)
(***************************************************************************)
EXTENDS JsonPipe

CONSTANTS a, b, MaxText

\* {"a":[a,{"b":true}], "b":[]}
Document ==
  << Punct("{"), Literal("string", a), Punct(":"), Punct("["),
     Literal("integer", a), Punct(","), Punct("{"), Literal("string", b),
     Punct(":"), Punct("true"), Punct("}"), Punct("]"), Punct(","), Space,
     Literal("string", b), Punct(":"), Punct("["), Punct("]"), Punct("}") >>

Edits ==
  LET n == Len(Document)
  IN  {Document}
        \cup {[Document EXCEPT ![i] = x] : i \in 1..n, x \in Lexeme}
        \cup {InsertAt(Document, i, x) : i \in 1..n, x \in Lexeme}
        \cup {RemoveAt(Document, i) : i \in 1..n}

Texts == (UNION {[1..n -> Lexeme] : n \in 0..MaxText}) \cup Edits

\* The file is there, and no writer is.
FoundInit ==
  /\ WriterInit
  /\ Init
  /\ reading = TRUE

MCSpec == (PipeInit \/ FoundInit) /\ [][PipeNext]_pipeVars
=============================================================================
