---------------------------- MODULE ParseContract ----------------------------
(***************************************************************************)
(* What a validation promises to the goroutines of a program: its answer   *)
(* depends on the document, on the function and on what was embedded in    *)
(* the build, never on the calls before it or beside it.                   *)
(***************************************************************************)
EXTENDS SchemaValidation

CONSTANTS Goroutine, NoCall, NoAnswer, Build

VARIABLES
  files,      \* the schema files embedded in the program
  pending,    \* the call of each goroutine
  answer      \* the last answer each got

vars == <<files, pending, answer>>

Calls == [op : Operation, doc : Document]

\* What validateAgainst returns.
Verdict(op, doc) ==
  IF ~ Sound(files) THEN "schema"
  ELSE IF ~ doc.json THEN "ErrValidation"
  ELSE IF ~ Compiles(Added(files, Len(files)), op.url) THEN "compile"
  ELSE IF op.url \notin doc.valid THEN "ErrValidation"
  ELSE "nil"

Answer(op, doc) ==
  LET err == Verdict(op, doc) IN
    IF err # "nil" THEN ValidationErr(err, op.code)
    ELSE IF op.decodes /\ ~ doc.typed THEN Failed("decode", op.code)
    ELSE [value |-> op.decodes, err |-> "nil", code |-> "none"]

Init ==
  /\ files \in Build
  /\ pending = [g \in Goroutine |-> NoCall]
  /\ answer  = [g \in Goroutine |-> NoAnswer]

Invoke(g) ==
  /\ pending[g] = NoCall
  /\ \E c \in Calls : pending' = [pending EXCEPT ![g] = c]
  /\ answer' = [answer EXCEPT ![g] = NoAnswer]
  /\ UNCHANGED files

Respond(g) ==
  /\ pending[g] # NoCall
  /\ answer'  = [answer EXCEPT ![g] = Answer(pending[g].op, pending[g].doc)]
  /\ pending' = [pending EXCEPT ![g] = NoCall]
  /\ UNCHANGED files

Next == \E g \in Goroutine : Invoke(g) \/ Respond(g)

Spec == Init /\ [][Next]_vars

=============================================================================
