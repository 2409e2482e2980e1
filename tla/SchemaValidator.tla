--------------------------- MODULE SchemaValidator ---------------------------
(***************************************************************************)
(* internal/validate and parse.go as goroutines run them: a compiler that  *)
(* the first call builds from the embedded files, behind sync.Once, that   *)
(* every call then shares although it must not be used concurrently, and   *)
(* the chain of checks that turns a document into a value or an error.     *)
(***************************************************************************)
EXTENDS SchemaValidation

CONSTANTS Goroutine, NoCall, NoAnswer, NoOne, Build

ASSUME NoOneAssumption == NoOne \notin Goroutine

ASSUME BuildAssumption == Build \subseteq Seq(File)

VARIABLES
  files,                   \* schema.FS
  once,                    \* compilerOnce: "new", "running" or "done"
  compiler, errCompiler,   \* what the first call left
  resources, next,         \* c inside Do, the next file of the walk
  compileMu,               \* who holds the mutex
  pc, call, err, answer    \* where each goroutine is, its call, error and answer

singleton == <<once, compiler, errCompiler, resources, next>>
vars == <<files, singleton, compileMu, pc, call, err, answer>>

Calls == [op : Operation, doc : Document]

ASSUME NoValueAssumption == NoCall \notin Calls /\ NoAnswer \notin Answers

\* A *jsonschema.Compiler with the resources added to it.
Compilers == [nil : BOOLEAN, resources : SUBSET (URL \cup {NoId})]
NoCompiler == [nil |-> TRUE, resources |-> {}]
CompilerOf(r) == [nil |-> FALSE, resources |-> r]

Init ==
  /\ files \in Build
  /\ once = "new" /\ compiler = NoCompiler /\ errCompiler = "nil"
  /\ resources = {} /\ next = 1
  /\ compileMu = NoOne
  /\ pc     = [g \in Goroutine |-> "idle"]
  /\ call   = [g \in Goroutine |-> NoCall]
  /\ err    = [g \in Goroutine |-> "nil"]
  /\ answer = [g \in Goroutine |-> NoAnswer]

Goto(g, from, to) == pc[g] = from /\ pc' = [pc EXCEPT ![g] = to]

Fail(g, e) == err' = [err EXCEPT ![g] = e]

Begin(g) ==
  /\ Goto(g, "idle", "Do")
  /\ \E c \in Calls : call' = [call EXCEPT ![g] = c]
  /\ Fail(g, "nil")
  /\ answer' = [answer EXCEPT ![g] = NoAnswer]
  /\ UNCHANGED <<files, singleton, compileMu>>

-----------------------------------------------------------------------------
\* compilerSingleton
OnceFirst(g) ==
  /\ once = "new" /\ once' = "running"
  /\ Goto(g, "Do", "walk")
  /\ UNCHANGED <<files, compiler, errCompiler, resources, next, compileMu, call, err, answer>>

\* Variant: a plain flag, which lets others pass while the first is at work.
OnceDone_FlagOnly(g) ==
  /\ once # "new"
  /\ Goto(g, "Do", "singleton")
  /\ UNCHANGED <<files, singleton, compileMu, call, err, answer>>

\* Do returns when the first call is done, to it and to those that waited.
OnceDone(g) ==
  /\ once = "done"
  /\ Goto(g, "Do", "singleton")
  /\ UNCHANGED <<files, singleton, compileMu, call, err, answer>>

AddResource(g) ==
  /\ pc[g] = "walk" /\ next <= Len(files)
  /\ Addable(resources, files[next])
  /\ resources' = resources \cup {files[next].id}
  /\ next' = next + 1
  /\ UNCHANGED <<files, once, compiler, errCompiler, compileMu, pc, call, err, answer>>

\* Variant: the compiler is kept although a file could not be added.
WalkErr_FallsThrough(g) ==
  /\ next <= Len(files) /\ ~ Addable(resources, files[next])
  /\ Goto(g, "walk", "leaveDo")
  /\ errCompiler' = "schema" /\ compiler' = CompilerOf(resources)
  /\ UNCHANGED <<files, once, resources, next, compileMu, call, err, answer>>

WalkErr(g) ==
  /\ next <= Len(files) /\ ~ Addable(resources, files[next])
  /\ Goto(g, "walk", "leaveDo")
  /\ errCompiler' = "schema"
  /\ UNCHANGED <<files, once, compiler, resources, next, compileMu, call, err, answer>>

WalkEnd(g) ==
  /\ next > Len(files)
  /\ Goto(g, "walk", "leaveDo")
  /\ compiler' = CompilerOf(resources)
  /\ UNCHANGED <<files, once, errCompiler, resources, next, compileMu, call, err, answer>>

LeaveDo(g) ==
  /\ Goto(g, "leaveDo", "singleton")
  /\ once' = "done"
  /\ UNCHANGED <<files, compiler, errCompiler, resources, next, compileMu, call, err, answer>>

-----------------------------------------------------------------------------
\* validateAgainst
Singleton(g) ==
  /\ Goto(g, "singleton", IF errCompiler # "nil" THEN "code" ELSE "unmarshal")
  /\ Fail(g, errCompiler)
  /\ UNCHANGED <<files, singleton, compileMu, call, answer>>

Unmarshal(g) ==
  /\ Goto(g, "unmarshal", IF call[g].doc.json THEN "Lock" ELSE "code")
  /\ Fail(g, IF call[g].doc.json THEN "nil" ELSE "ErrValidation")
  /\ UNCHANGED <<files, singleton, compileMu, call, answer>>

\* Variant: the compiler is used without the mutex.
Lock_NotTaken(g) ==
  /\ Goto(g, "Lock", "compile")
  /\ compileMu' = g
  /\ UNCHANGED <<files, singleton, call, err, answer>>

Lock(g) ==
  /\ compileMu = NoOne /\ compileMu' = g
  /\ Goto(g, "Lock", "compile")
  /\ UNCHANGED <<files, singleton, call, err, answer>>

\* Variant: the early return leaves the mutex locked.
Compile_ErrorKeepsLock(g) ==
  LET ok == Compiles(compiler.resources, call[g].op.url) IN
    /\ Goto(g, "compile", IF ok THEN "validate" ELSE "code")
    /\ Fail(g, IF ok THEN "nil" ELSE "compile")
    /\ UNCHANGED <<files, singleton, compileMu, call, answer>>

Compile(g) ==
  LET ok == Compiles(compiler.resources, call[g].op.url) IN
    /\ Goto(g, "compile", IF ok THEN "validate" ELSE "Unlock")
    /\ Fail(g, IF ok THEN "nil" ELSE "compile")
    /\ UNCHANGED <<files, singleton, compileMu, call, answer>>

Validate(g) ==
  /\ Goto(g, "validate", "Unlock")
  /\ Fail(g, IF call[g].op.url \in call[g].doc.valid THEN "nil" ELSE "ErrValidation")
  /\ UNCHANGED <<files, singleton, compileMu, call, answer>>

Unlock(g) ==
  /\ Goto(g, "Unlock", "code")
  /\ compileMu' = NoOne
  /\ UNCHANGED <<files, singleton, call, err, answer>>

-----------------------------------------------------------------------------
\* ParseAndValidate*
Return(g, from, a) ==
  /\ Goto(g, from, "idle")
  /\ answer' = [answer EXCEPT ![g] = a]
  /\ UNCHANGED <<files, singleton, compileMu, call, err>>

CodeError(g) ==
  /\ err[g] # "nil"
  /\ Return(g, "code", ValidationErr(err[g], call[g].op.code))

ToDecode(g) ==
  /\ err[g] = "nil"
  /\ Goto(g, "code", "decode")
  /\ UNCHANGED <<files, singleton, compileMu, call, err, answer>>

Value(g) == [value |-> call[g].op.decodes, err |-> "nil", code |-> "none"]

DecodeFails(g) == call[g].op.decodes /\ ~ call[g].doc.typed

\* Variant: what was decoded before the failure is returned with the error.
Decode_PartialValue(g) ==
  Return(g, "decode",
    IF DecodeFails(g) THEN [value |-> TRUE, err |-> "decode", code |-> call[g].op.code]
    ELSE Value(g))

Decode(g) ==
  Return(g, "decode",
    IF DecodeFails(g) THEN Failed("decode", call[g].op.code) ELSE Value(g))

Step(g) ==
  \/ OnceFirst(g) \/ OnceDone(g) \/ AddResource(g) \/ WalkErr(g) \/ WalkEnd(g)
  \/ LeaveDo(g) \/ Singleton(g) \/ Unmarshal(g) \/ Compile(g) \/ Validate(g)
  \/ Unlock(g) \/ CodeError(g) \/ ToDecode(g) \/ Decode(g)

Next == \E g \in Goroutine : Begin(g) \/ Lock(g) \/ Step(g)

\* A goroutine that can run does; sync.Mutex hands over to one that has waited
\* long enough.
Spec ==
  /\ Init /\ [][Next]_vars
  /\ \A g \in Goroutine : WF_vars(Step(g)) /\ SF_vars(Lock(g))

-----------------------------------------------------------------------------
TypeOK ==
  /\ files \in Seq(File)
  /\ once \in {"new", "running", "done"}
  /\ compiler \in Compilers
  /\ errCompiler \in {"nil", "schema"}
  /\ resources \in SUBSET (URL \cup {NoId}) /\ next \in Nat \ {0}
  /\ compileMu \in Goroutine \cup {NoOne}
  /\ pc \in [Goroutine -> {"idle", "Do", "walk", "leaveDo", "singleton", "unmarshal",
                           "Lock", "compile", "validate", "Unlock", "code", "decode"}]
  /\ call \in [Goroutine -> Calls \cup {NoCall}]
  /\ err \in [Goroutine -> Errors]
  /\ answer \in [Goroutine -> Answers \cup {NoAnswer}]

\* "Compile is not safe for concurrent use on the same instance"
\* (validate.go:36), and there is only one instance.
CompilerUsedAlone ==
  \A g, h \in Goroutine :
    g # h => ~ (pc[g] = "compile" /\ pc[h] \in {"compile", "validate"})

\* Whoever is past the Once finds either the compiler of all the files or the
\* error, never both and never neither: a nil compiler would be dereferenced
\* and a partial one would reject documents.
SingletonSettled ==
  \A g \in Goroutine :
    pc[g] \in {"singleton", "unmarshal", "Lock", "compile", "validate"} =>
      \/ compiler = NoCompiler /\ errCompiler = "schema" /\ ~ Sound(files)
      \/ compiler = CompilerOf(Added(files, Len(files))) /\ errCompiler = "nil" /\ Sound(files)

\* A document is called invalid only when it is: a build whose schemas cannot
\* be loaded or compiled must not reject everybody's playlists as malformed.
CodedOnlyForTheDocument ==
  \A g \in Goroutine : pc[g] = "idle" /\ answer[g] # NoAnswer =>
    LET d == call[g].doc IN
      answer[g].code # "none" =>
        \/ ~ d.json \/ ~ d.typed
        \/ call[g].op.url \notin d.valid

\* Every answer is that of the document, the function and the build alone.
Contract == INSTANCE ParseContract WITH
  pending <- [g \in Goroutine |-> IF pc[g] = "idle" THEN NoCall ELSE call[g]]

ImplementsContract == Contract!Spec

\* Every call returns, whichever others fail, and whoever builds the compiler.
CallsReturn == \A g \in Goroutine : pc[g] # "idle" ~> pc[g] = "idle"

=============================================================================
