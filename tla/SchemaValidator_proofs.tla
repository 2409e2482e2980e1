----------------------- MODULE SchemaValidator_proofs -----------------------
(***************************************************************************)
(* The compiler is built once and used by one goroutine at a time, and the *)
(* goroutines get the answers of ParseContract, for every number of them   *)
(* and every set of builds, documents and functions.                       *)
(***************************************************************************)
EXTENDS SchemaValidator, TLAPS

AllAdded == Added(files, Len(files))

Settled ==
  \/ compiler = NoCompiler /\ errCompiler = "schema" /\ ~ Sound(files)
  \/ compiler = CompilerOf(AllAdded) /\ errCompiler = "nil" /\ Sound(files)

Verdict(op, doc) ==
  IF ~ Sound(files) THEN "schema"
  ELSE IF ~ doc.json THEN "ErrValidation"
  ELSE IF ~ Compiles(AllAdded, op.url) THEN "compile"
  ELSE IF op.url \notin doc.valid THEN "ErrValidation"
  ELSE "nil"

Reply(op, doc) ==
  IF Verdict(op, doc) # "nil" THEN ValidationErr(Verdict(op, doc), op.code)
  ELSE IF op.decodes /\ ~ doc.typed THEN Failed("decode", op.code)
  ELSE [value |-> op.decodes, err |-> "nil", code |-> "none"]

\* Nobody is past the Once before it is done, one goroutine at most is inside,
\* and the walk has added the files before the next one.
Building == {"walk", "leaveDo"}

OnceInv ==
  /\ \A g \in Goroutine : pc[g] \in Building => once = "running"
  /\ \A g, h \in Goroutine : pc[g] \in Building /\ pc[h] \in Building => g = h
  /\ \A g \in Goroutine : pc[g] \notin {"idle", "Do"} \cup Building => once = "done"
  /\ once = "done" => Settled
  /\ once = "new" => /\ compiler = NoCompiler /\ errCompiler = "nil"
                     /\ resources = {} /\ next = 1

WalkInv ==
  \A g \in Goroutine :
    /\ pc[g] = "walk" =>
         /\ compiler = NoCompiler /\ errCompiler = "nil"
         /\ next <= Len(files) + 1
         /\ resources = Added(files, next - 1)
         /\ \A n \in 1..(next - 1) : Addable(Added(files, n - 1), files[n])
    /\ pc[g] = "leaveDo" => Settled

LockInv ==
  \A g \in Goroutine : pc[g] \in {"compile", "validate", "Unlock"} => compileMu = g

\* What a goroutine has established of its document by where it is.
Reached(g) ==
  LET op == call[g].op
      doc == call[g].doc
  IN /\ pc[g] # "idle" => call[g] \in Calls
     /\ pc[g] \in {"unmarshal", "Lock", "compile", "validate"} => Sound(files)
     /\ pc[g] \in {"Lock", "compile", "validate"} => doc.json
     /\ pc[g] = "validate" => Compiles(AllAdded, op.url)
     /\ pc[g] \in {"Unlock", "code"} => err[g] = Verdict(op, doc)
     /\ pc[g] = "decode" => Verdict(op, doc) = "nil"
     /\ pc[g] = "idle" /\ answer[g] # NoAnswer =>
          call[g] \in Calls /\ answer[g] = Reply(op, doc)

IInv == TypeOK /\ OnceInv /\ WalkInv /\ LockInv /\ \A g \in Goroutine : Reached(g)

-----------------------------------------------------------------------------
LEMMA OperationType ==
  ASSUME NEW op \in Operation
  PROVE  /\ op.decodes \in BOOLEAN /\ op.url \in URL
         /\ op.code \in ErrorCode \cup {"none"}
<1> USE DEF ErrorCode, URL
<1>1. CASE op \in ParseAndValidate
  <2>1. CASE op \in [decodes : {TRUE},
                     url : {"playlist", "playlist+playlists", "playlist+rating",
                            "playlist+playlists+rating"},
                     code : {"playlistInvalid"}]
    <3>1. op.decodes = TRUE /\ op.code = "playlistInvalid"
      BY <2>1
    <3>2. op.url \in {"playlist", "playlist+playlists", "playlist+rating",
                     "playlist+playlists+rating"}
      BY <2>1
    <3> QED BY <3>1, <3>2
  <2>2. CASE op = [decodes |-> TRUE, url |-> "playlistGroup", code |-> "playlistGroupInvalid"]
    BY <2>2
  <2>3. CASE op = [decodes |-> TRUE, url |-> "refManifest", code |-> "refManifestInvalid"]
    BY <2>3
  <2>4. CASE op = [decodes |-> TRUE, url |-> "channels", code |-> "channelInvalid"]
    BY <2>4
  <2> QED BY <1>1, <2>1, <2>2, <2>3, <2>4 DEF ParseAndValidate
<1>2. CASE op = ValidateContentRatingExtension
  BY <1>2 DEF ValidateContentRatingExtension
<1>3. CASE op \in Validators
  BY <1>3 DEF Validators
<1> QED BY <1>1, <1>2, <1>3, OperationAssumption DEF Operations

LEMMA AnswersOfErrors ==
  ASSUME NEW op \in Operation, NEW e \in Errors \ {"nil"}
  PROVE  ValidationErr(e, op.code) \in Answers /\ Failed(e, op.code) \in Answers
BY OperationType DEF ValidationErr, Failed, Answers

LEMMA InitInv == Init => IInv
BY BuildAssumption DEF Init, IInv, TypeOK, OnceInv, WalkInv, LockInv, Reached, Errors,
   Compilers, NoCompiler, Building

LEMMA AddOne ==
  ASSUME NEW fs \in Seq(File), NEW n \in 1..Len(fs)
  PROVE  Added(fs, n) = Added(fs, n - 1) \cup {fs[n].id}
BY DEF Added

LEMMA TypeStep ==
  ASSUME TypeOK, \A g \in Goroutine : Reached(g), [Next]_vars
  PROVE  TypeOK'
<1> USE DEF TypeOK
<1>1. ASSUME NEW g \in Goroutine, Begin(g) PROVE TypeOK'
  BY <1>1 DEF Begin, Goto, Fail, singleton, Errors
<1>2. ASSUME NEW g \in Goroutine, OnceFirst(g) PROVE TypeOK'
  BY <1>2 DEF OnceFirst, Goto
<1>3. ASSUME NEW g \in Goroutine, OnceDone(g) PROVE TypeOK'
  BY <1>3 DEF OnceDone, Goto, singleton
<1>4. ASSUME NEW g \in Goroutine, AddResource(g) PROVE TypeOK'
  <2>1. files[next] \in File
    BY <1>4 DEF AddResource
  <2> QED BY <1>4, <2>1 DEF AddResource, File
<1>5. ASSUME NEW g \in Goroutine, WalkErr(g) PROVE TypeOK'
  BY <1>5 DEF WalkErr, Goto
<1>6. ASSUME NEW g \in Goroutine, WalkEnd(g) PROVE TypeOK'
  BY <1>6 DEF WalkEnd, Goto, Compilers, CompilerOf
<1>7. ASSUME NEW g \in Goroutine, LeaveDo(g) PROVE TypeOK'
  BY <1>7 DEF LeaveDo, Goto
<1>8. ASSUME NEW g \in Goroutine, Singleton(g) PROVE TypeOK'
  BY <1>8 DEF Singleton, Goto, Fail, singleton, Errors
<1>9. ASSUME NEW g \in Goroutine, Unmarshal(g) PROVE TypeOK'
  BY <1>9 DEF Unmarshal, Goto, Fail, singleton, Errors
<1>10. ASSUME NEW g \in Goroutine, Lock(g) PROVE TypeOK'
  BY <1>10 DEF Lock, Goto, singleton
<1>11. ASSUME NEW g \in Goroutine, Compile(g) PROVE TypeOK'
  BY <1>11 DEF Compile, Goto, Fail, singleton, Errors
<1>12. ASSUME NEW g \in Goroutine, Validate(g) PROVE TypeOK'
  BY <1>12 DEF Validate, Goto, Fail, singleton, Errors
<1>13. ASSUME NEW g \in Goroutine, Unlock(g) PROVE TypeOK'
  BY <1>13 DEF Unlock, Goto, singleton
<1>14. ASSUME NEW g \in Goroutine, CodeError(g) PROVE TypeOK'
  <2>1. call[g] \in Calls
    BY <1>14 DEF CodeError, Return, Goto, Reached
  <2>2. ValidationErr(err[g], call[g].op.code) \in Answers
    BY <1>14, <2>1, AnswersOfErrors DEF CodeError, Calls
  <2> QED BY <1>14, <2>2 DEF CodeError, Return, Goto, singleton
<1>15. ASSUME NEW g \in Goroutine, ToDecode(g) PROVE TypeOK'
  BY <1>15 DEF ToDecode, Goto, singleton
<1>16. ASSUME NEW g \in Goroutine, Decode(g) PROVE TypeOK'
  <2>1. call[g] \in Calls
    BY <1>16 DEF Decode, Return, Goto, Reached
  <2>2. Failed("decode", call[g].op.code) \in Answers /\ Value(g) \in Answers
    BY <2>1, AnswersOfErrors, OperationType DEF Calls, Value, Answers, Errors
  <2> QED BY <1>16, <2>2 DEF Decode, Return, Goto, singleton
<1>17. CASE UNCHANGED vars
  BY <1>17 DEF vars, singleton
<1> QED
  BY <1>1, <1>2, <1>3, <1>4, <1>5, <1>6, <1>7, <1>8, <1>9, <1>10, <1>11, <1>12, <1>13,
     <1>14, <1>15, <1>16, <1>17 DEF Next, Step


LEMMA OnceStep ==
  ASSUME TypeOK, OnceInv, WalkInv, [Next]_vars
  PROVE  OnceInv'
<1> USE DEF TypeOK, OnceInv, Building
<1>1. ASSUME NEW g \in Goroutine, Begin(g) PROVE OnceInv'
  BY <1>1 DEF Begin, Goto, singleton, Settled, AllAdded
<1>2. ASSUME NEW g \in Goroutine, OnceFirst(g) PROVE OnceInv'
  BY <1>2 DEF OnceFirst, Goto, singleton, Settled, AllAdded
<1>3. ASSUME NEW g \in Goroutine, OnceDone(g) PROVE OnceInv'
  BY <1>3 DEF OnceDone, Goto, singleton, Settled, AllAdded
<1>4. ASSUME NEW g \in Goroutine, AddResource(g) PROVE OnceInv'
  BY <1>4 DEF AddResource, singleton, Settled, AllAdded
<1>5. ASSUME NEW g \in Goroutine, WalkErr(g) PROVE OnceInv'
  BY <1>5 DEF WalkErr, Goto, singleton, Settled, AllAdded
<1>6. ASSUME NEW g \in Goroutine, WalkEnd(g) PROVE OnceInv'
  BY <1>6 DEF WalkEnd, Goto, singleton, Settled, AllAdded
<1>7. ASSUME NEW g \in Goroutine, LeaveDo(g) PROVE OnceInv'
  BY <1>7 DEF WalkInv, LeaveDo, Goto, singleton, Settled, AllAdded
<1>8. ASSUME NEW g \in Goroutine, Singleton(g) PROVE OnceInv'
  BY <1>8 DEF Singleton, Goto, singleton, Settled, AllAdded
<1>9. ASSUME NEW g \in Goroutine, Unmarshal(g) PROVE OnceInv'
  BY <1>9 DEF Unmarshal, Goto, singleton, Settled, AllAdded
<1>10. ASSUME NEW g \in Goroutine, Lock(g) PROVE OnceInv'
  BY <1>10 DEF Lock, Goto, singleton, Settled, AllAdded
<1>11. ASSUME NEW g \in Goroutine, Compile(g) PROVE OnceInv'
  BY <1>11 DEF Compile, Goto, singleton, Settled, AllAdded
<1>12. ASSUME NEW g \in Goroutine, Validate(g) PROVE OnceInv'
  BY <1>12 DEF Validate, Goto, singleton, Settled, AllAdded
<1>13. ASSUME NEW g \in Goroutine, Unlock(g) PROVE OnceInv'
  BY <1>13 DEF Unlock, Goto, singleton, Settled, AllAdded
<1>14. ASSUME NEW g \in Goroutine, CodeError(g) PROVE OnceInv'
  BY <1>14 DEF CodeError, Return, Goto, singleton, Settled, AllAdded
<1>15. ASSUME NEW g \in Goroutine, ToDecode(g) PROVE OnceInv'
  BY <1>15 DEF ToDecode, Goto, singleton, Settled, AllAdded
<1>16. ASSUME NEW g \in Goroutine, Decode(g) PROVE OnceInv'
  BY <1>16 DEF Decode, Return, Goto, singleton, Settled, AllAdded
<1>17. CASE UNCHANGED vars
  BY <1>17 DEF vars, singleton, Settled, AllAdded
<1> QED
  BY <1>1, <1>2, <1>3, <1>4, <1>5, <1>6, <1>7, <1>8, <1>9, <1>10, <1>11, <1>12, <1>13,
     <1>14, <1>15, <1>16, <1>17 DEF Next, Step


LEMMA LockStep ==
  ASSUME TypeOK, LockInv, [Next]_vars
  PROVE  LockInv'
<1> USE DEF TypeOK, LockInv
<1>1. ASSUME NEW g \in Goroutine, Begin(g) PROVE LockInv'
  BY <1>1 DEF Begin, Goto, singleton
<1>2. ASSUME NEW g \in Goroutine, OnceFirst(g) PROVE LockInv'
  BY <1>2 DEF OnceFirst, Goto, singleton
<1>3. ASSUME NEW g \in Goroutine, OnceDone(g) PROVE LockInv'
  BY <1>3 DEF OnceDone, Goto, singleton
<1>4. ASSUME NEW g \in Goroutine, AddResource(g) PROVE LockInv'
  BY <1>4 DEF AddResource, singleton
<1>5. ASSUME NEW g \in Goroutine, WalkErr(g) PROVE LockInv'
  BY <1>5 DEF WalkErr, Goto, singleton
<1>6. ASSUME NEW g \in Goroutine, WalkEnd(g) PROVE LockInv'
  BY <1>6 DEF WalkEnd, Goto, singleton
<1>7. ASSUME NEW g \in Goroutine, LeaveDo(g) PROVE LockInv'
  BY <1>7 DEF LeaveDo, Goto, singleton
<1>8. ASSUME NEW g \in Goroutine, Singleton(g) PROVE LockInv'
  BY <1>8 DEF Singleton, Goto, singleton
<1>9. ASSUME NEW g \in Goroutine, Unmarshal(g) PROVE LockInv'
  BY <1>9 DEF Unmarshal, Goto, singleton
<1>10. ASSUME NEW g \in Goroutine, Lock(g) PROVE LockInv'
  BY <1>10, NoOneAssumption DEF Lock, Goto, singleton
<1>11. ASSUME NEW g \in Goroutine, Compile(g) PROVE LockInv'
  BY <1>11 DEF Compile, Goto, singleton
<1>12. ASSUME NEW g \in Goroutine, Validate(g) PROVE LockInv'
  BY <1>12 DEF Validate, Goto, singleton
<1>13. ASSUME NEW g \in Goroutine, Unlock(g) PROVE LockInv'
  BY <1>13 DEF Unlock, Goto, singleton
<1>14. ASSUME NEW g \in Goroutine, CodeError(g) PROVE LockInv'
  BY <1>14 DEF CodeError, Return, Goto, singleton
<1>15. ASSUME NEW g \in Goroutine, ToDecode(g) PROVE LockInv'
  BY <1>15 DEF ToDecode, Goto, singleton
<1>16. ASSUME NEW g \in Goroutine, Decode(g) PROVE LockInv'
  BY <1>16 DEF Decode, Return, Goto, singleton
<1>17. CASE UNCHANGED vars
  BY <1>17 DEF vars, singleton
<1> QED
  BY <1>1, <1>2, <1>3, <1>4, <1>5, <1>6, <1>7, <1>8, <1>9, <1>10, <1>11, <1>12, <1>13,
     <1>14, <1>15, <1>16, <1>17 DEF Next, Step

\* Sound is what the walk found out, file by file.
LEMMA WalkDecides ==
  ASSUME TypeOK, NEW g \in Goroutine, pc[g] = "walk", WalkInv
  PROVE  /\ next > Len(files) => Sound(files) /\ resources = AllAdded
         /\ next <= Len(files) /\ ~ Addable(resources, files[next]) => ~ Sound(files)
BY DEF WalkInv, Sound, AllAdded, TypeOK

\* What was settled stays so: only the goroutine in the walk writes the
\* compiler, and never once somebody left it.
LEMMA WalkStep ==
  ASSUME TypeOK, OnceInv, WalkInv, [Next]_vars
  PROVE  WalkInv'
<1>a. ASSUME NEW h \in Goroutine, UNCHANGED <<files, singleton>>,
             \A g \in Goroutine \ {h} : pc'[g] = pc[g],
             pc'[h] \notin Building
      PROVE  WalkInv'
  BY <1>a DEF WalkInv, Building, singleton, Settled, AllAdded
<1> USE DEF TypeOK, Goto, Building
<1>1. ASSUME NEW g \in Goroutine, Begin(g) PROVE WalkInv'
  BY <1>1, <1>a DEF Begin
<1>2. ASSUME NEW g \in Goroutine, OnceFirst(g) PROVE WalkInv'
  <2>1. \A h \in Goroutine \ {g} : pc'[h] = pc[h] /\ pc[h] \notin Building
    BY <1>2 DEF OnceFirst, OnceInv
  <2>2. pc'[g] = "walk" /\ compiler' = NoCompiler /\ errCompiler' = "nil" /\ next' = 1
        /\ files' = files /\ resources' = {}
    BY <1>2 DEF OnceFirst, OnceInv
  <2>3. Len(files) \in Nat /\ Added(files, 0) = {}
    BY DEF Added
  <2> QED BY <2>1, <2>2, <2>3 DEF WalkInv, Added
<1>3. ASSUME NEW g \in Goroutine, OnceDone(g) PROVE WalkInv'
  BY <1>3, <1>a DEF OnceDone
<1>4. ASSUME NEW g \in Goroutine, AddResource(g) PROVE WalkInv'
  <2>1. pc[g] = "walk" /\ pc' = pc /\ files' = files /\ next' = next + 1
        /\ next \in 1..Len(files) /\ UNCHANGED <<compiler, errCompiler>>
    BY <1>4 DEF AddResource
  <2>2. resources' = Added(files, next)
    BY <1>4, <2>1, AddOne DEF AddResource, WalkInv
  <2>3. \A n \in 1..next : Addable(Added(files, n - 1), files[n])
    BY <1>4, <2>1 DEF AddResource, WalkInv
  <2>4. \A h \in Goroutine : h # g => pc[h] \notin Building
    BY <2>1 DEF OnceInv
  <2> QED BY <2>1, <2>2, <2>3, <2>4 DEF WalkInv
<1>5. ASSUME NEW g \in Goroutine, WalkErr(g) PROVE WalkInv'
  <2>1. \A h \in Goroutine \ {g} : pc'[h] = pc[h] /\ pc[h] \notin Building
    BY <1>5 DEF WalkErr, OnceInv
  <2>2. pc[g] = "walk" /\ pc'[g] = "leaveDo"
    BY <1>5 DEF WalkErr
  <2>3. Settled'
    BY <1>5, <2>2, WalkDecides DEF WalkErr, Settled, WalkInv
  <2> QED BY <2>1, <2>2, <2>3 DEF WalkInv
<1>6. ASSUME NEW g \in Goroutine, WalkEnd(g) PROVE WalkInv'
  <2>1. \A h \in Goroutine \ {g} : pc'[h] = pc[h] /\ pc[h] \notin Building
    BY <1>6 DEF WalkEnd, OnceInv
  <2>2. pc[g] = "walk" /\ pc'[g] = "leaveDo"
    BY <1>6 DEF WalkEnd
  <2>3. Settled'
    BY <1>6, <2>2, WalkDecides DEF WalkEnd, Settled, WalkInv, AllAdded
  <2> QED BY <2>1, <2>2, <2>3 DEF WalkInv
<1>7. ASSUME NEW g \in Goroutine, LeaveDo(g) PROVE WalkInv'
  <2>1. \A h \in Goroutine : pc'[h] \notin Building
    BY <1>7 DEF LeaveDo, OnceInv
  <2> QED BY <2>1 DEF WalkInv
<1>8. ASSUME NEW g \in Goroutine, Singleton(g) PROVE WalkInv'
  BY <1>8, <1>a DEF Singleton
<1>9. ASSUME NEW g \in Goroutine, Unmarshal(g) PROVE WalkInv'
  BY <1>9, <1>a DEF Unmarshal
<1>10. ASSUME NEW g \in Goroutine, Lock(g) PROVE WalkInv'
  BY <1>10, <1>a DEF Lock
<1>11. ASSUME NEW g \in Goroutine, Compile(g) PROVE WalkInv'
  BY <1>11, <1>a DEF Compile
<1>12. ASSUME NEW g \in Goroutine, Validate(g) PROVE WalkInv'
  BY <1>12, <1>a DEF Validate
<1>13. ASSUME NEW g \in Goroutine, Unlock(g) PROVE WalkInv'
  BY <1>13, <1>a DEF Unlock
<1>14. ASSUME NEW g \in Goroutine, CodeError(g) PROVE WalkInv'
  BY <1>14, <1>a DEF CodeError, Return
<1>15. ASSUME NEW g \in Goroutine, ToDecode(g) PROVE WalkInv'
  BY <1>15, <1>a DEF ToDecode
<1>16. ASSUME NEW g \in Goroutine, Decode(g) PROVE WalkInv'
  BY <1>16, <1>a DEF Decode, Return
<1>17. CASE UNCHANGED vars
  BY <1>17 DEF WalkInv, vars, singleton, Settled, AllAdded
<1> QED
  BY <1>1, <1>2, <1>3, <1>4, <1>5, <1>6, <1>7, <1>8, <1>9, <1>10, <1>11, <1>12, <1>13,
     <1>14, <1>15, <1>16, <1>17 DEF Next, Step

-----------------------------------------------------------------------------
\* The goroutines that a step leaves where they are have reached what they had.
LEMMA ReachedByOthers ==
  ASSUME NEW g \in Goroutine, files' = files, Reached(g),
         pc'[g] = pc[g], call'[g] = call[g], err'[g] = err[g], answer'[g] = answer[g]
  PROVE  Reached(g)'
BY DEF Reached, Reply, Verdict, AllAdded

LEMMA ReachedStep ==
  ASSUME TypeOK, OnceInv, \A g \in Goroutine : Reached(g), [Next]_vars
  PROVE  \A g \in Goroutine : Reached(g)'
<1> SUFFICES ASSUME NEW h \in Goroutine PROVE Reached(h)'
  OBVIOUS
<1>a. Reached(h)
  OBVIOUS
<1>0. CASE /\ files' = files /\ pc'[h] = pc[h] /\ call'[h] = call[h]
           /\ err'[h] = err[h] /\ answer'[h] = answer[h]
  BY <1>0, <1>a, ReachedByOthers
<1> USE DEF TypeOK, Goto, Fail
<1>1. ASSUME NEW g \in Goroutine, Begin(g) PROVE Reached(h)'
  <2>1. CASE h = g
    BY <1>1, <2>1 DEF Begin, Reached
  <2> QED BY <1>1, <2>1, <1>0 DEF Begin
<1>2. ASSUME NEW g \in Goroutine,
             \/ OnceFirst(g) \/ OnceDone(g) \/ AddResource(g)
             \/ WalkErr(g) \/ WalkEnd(g) \/ LeaveDo(g)
      PROVE  Reached(h)'
  <2>1. CASE h = g
    BY <1>2, <2>1, <1>a
    DEF OnceFirst, OnceDone, AddResource, WalkErr, WalkEnd, LeaveDo, Reached
  <2> QED
    BY <1>2, <2>1, <1>0 DEF OnceFirst, OnceDone, AddResource, WalkErr, WalkEnd, LeaveDo
<1>3. ASSUME NEW g \in Goroutine, Singleton(g) PROVE Reached(h)'
  <2>1. CASE h = g
    <3>1. Settled
      BY <1>3 DEF Singleton, OnceInv, Building
    <3> QED BY <1>3, <2>1, <3>1, <1>a DEF Singleton, Reached, Settled, Verdict
  <2> QED BY <1>3, <2>1, <1>0 DEF Singleton
<1>4. ASSUME NEW g \in Goroutine, Unmarshal(g) PROVE Reached(h)'
  <2>1. CASE h = g
    BY <1>4, <2>1, <1>a DEF Unmarshal, Reached, Verdict
  <2> QED BY <1>4, <2>1, <1>0 DEF Unmarshal
<1>5. ASSUME NEW g \in Goroutine, Lock(g) PROVE Reached(h)'
  <2>1. CASE h = g
    BY <1>5, <2>1, <1>a DEF Lock, Reached
  <2> QED BY <1>5, <2>1, <1>0 DEF Lock
<1>6. ASSUME NEW g \in Goroutine, Compile(g) PROVE Reached(h)'
  <2>1. CASE h = g
    <3>1. Settled /\ Sound(files)
      BY <1>6, <2>1, <1>a DEF Compile, OnceInv, Building, Reached
    <3>2. compiler.resources = AllAdded
      BY <3>1 DEF Settled, CompilerOf
    <3> QED BY <1>6, <2>1, <3>1, <3>2, <1>a DEF Compile, Reached, Verdict, AllAdded
  <2> QED BY <1>6, <2>1, <1>0 DEF Compile
<1>7. ASSUME NEW g \in Goroutine, Validate(g) PROVE Reached(h)'
  <2>1. CASE h = g
    BY <1>7, <2>1, <1>a DEF Validate, Reached, Verdict, AllAdded
  <2> QED BY <1>7, <2>1, <1>0 DEF Validate
<1>8. ASSUME NEW g \in Goroutine, Unlock(g) \/ ToDecode(g) PROVE Reached(h)'
  <2>1. CASE h = g
    BY <1>8, <2>1, <1>a DEF Unlock, ToDecode, Reached, Verdict, AllAdded
  <2> QED BY <1>8, <2>1, <1>0 DEF Unlock, ToDecode
<1>9. ASSUME NEW g \in Goroutine, CodeError(g) \/ Decode(g) PROVE Reached(h)'
  <2>1. CASE h = g
    <3>1. /\ files' = files /\ call'[h] = call[h] /\ pc'[h] = "idle" /\ call[h] \in Calls
          /\ answer'[h] = Reply(call[h].op, call[h].doc)
      BY <1>9, <2>1, <1>a
      DEF CodeError, Decode, Return, Value, DecodeFails, Reached, Reply
    <3> QED BY <3>1 DEF Reached, Reply, Verdict, AllAdded
  <2> QED BY <1>9, <2>1, <1>0 DEF CodeError, Decode, Return
<1>10. CASE UNCHANGED vars
  BY <1>10, <1>0 DEF vars
<1> QED
  BY <1>1, <1>2, <1>3, <1>4, <1>5, <1>6, <1>7, <1>8, <1>9, <1>10 DEF Next, Step

LEMMA InductiveInvariant == Spec => []IInv
<1>1. IInv /\ [Next]_vars => IInv'
  BY TypeStep, OnceStep, WalkStep, LockStep, ReachedStep DEF IInv
<1> QED BY <1>1, InitInv, PTL DEF Spec

\* Types; an answer is a value or an error, never both and never neither.
THEOREM TypeCorrect == Spec => []TypeOK
<1>1. IInv => TypeOK
  BY DEF IInv
<1> QED BY <1>1, InductiveInvariant, PTL

\* The shared compiler is used by one goroutine at a time.
THEOREM CompileNeverConcurrent == Spec => []CompilerUsedAlone
<1>1. IInv => CompilerUsedAlone
  BY DEF IInv, LockInv, CompilerUsedAlone
<1> QED BY <1>1, InductiveInvariant, PTL

\* Whoever is past the Once finds the complete compiler or the error.
THEOREM CompilerComplete == Spec => []SingletonSettled
<1>1. IInv => SingletonSettled
  BY DEF IInv, OnceInv, Building, Settled, AllAdded, SingletonSettled
<1> QED BY <1>1, InductiveInvariant, PTL

LEMMA CodeOfReply ==
  ASSUME NEW op, NEW doc, Reply(op, doc).code # "none"
  PROVE  ~ doc.json \/ ~ doc.typed \/ op.url \notin doc.valid
<1>1. CASE Verdict(op, doc) = "nil"
  BY <1>1 DEF Reply
<1>2. CASE Verdict(op, doc) = "ErrValidation"
  BY <1>2 DEF Verdict
<1>3. CASE Verdict(op, doc) \in {"schema", "compile"}
  BY <1>3 DEF Reply, ValidationErr, Failed
<1> QED BY <1>1, <1>2, <1>3 DEF Verdict

\* A code is given only to a failure of the document.
THEOREM OnlyDocumentsAreCoded == Spec => []CodedOnlyForTheDocument
<1>1. IInv => CodedOnlyForTheDocument
  BY CodeOfReply DEF IInv, Reached, CodedOnlyForTheDocument
<1> QED BY <1>1, InductiveInvariant, PTL

-----------------------------------------------------------------------------
pendingBar == [g \in Goroutine |-> IF pc[g] = "idle" THEN NoCall ELSE call[g]]

LEMMA ReplyContract ==
  ASSUME NEW op, NEW doc
  PROVE  Contract!Answer(op, doc) = Reply(op, doc)
BY DEF Contract!Answer, Contract!Verdict, Contract!Sound, Sound, Contract!Added, Added,
   Contract!Addable, Addable, Contract!Compiles, Compiles, AllAdded, Verdict, Reply,
   Contract!ValidationErr, ValidationErr, Contract!Failed, Failed

LEMMA InitContract == Init => Contract!Init
BY DEF Init, Contract!Init

\* A step inside a call is none of the contract's.
LEMMA StutterOfOne ==
  ASSUME TypeOK, NEW g \in Goroutine, NEW from, NEW to, Goto(g, from, to),
         from # "idle", to # "idle", UNCHANGED <<files, call, answer>>
  PROVE  UNCHANGED Contract!vars
<1>1. pendingBar' = pendingBar
  BY DEF pendingBar, Goto, TypeOK
<1> QED BY <1>1 DEF Contract!vars, pendingBar

LEMMA StepContract ==
  ASSUME IInv, [Next]_vars
  PROVE  [Contract!Next]_Contract!vars
<1> USE DEF IInv
<1>1. ASSUME NEW g \in Goroutine, Begin(g) PROVE Contract!Invoke(g)
  <2>1. PICK c \in Calls : call' = [call EXCEPT ![g] = c]
    BY <1>1 DEF Begin
  <2>2. pendingBar[g] = NoCall
    BY <1>1 DEF Begin, Goto, pendingBar
  <2>3. pendingBar' = [pendingBar EXCEPT ![g] = c]
    BY <1>1, <2>1 DEF Begin, Goto, pendingBar, TypeOK
  <2> QED
    BY <1>1, <2>1, <2>2, <2>3 DEF Begin, pendingBar, Contract!Invoke, Contract!Calls, Calls
<1>2. ASSUME NEW g \in Goroutine, CodeError(g) \/ Decode(g) PROVE Contract!Respond(g)
  <2>1. pc[g] # "idle" /\ call[g] \in Calls /\ call[g] # NoCall
    BY <1>2, NoValueAssumption DEF CodeError, Decode, Return, Goto, Reached
  <2>2. pendingBar[g] = call[g]
    BY <2>1 DEF pendingBar
  <2>3. pendingBar' = [pendingBar EXCEPT ![g] = NoCall]
    BY <1>2, <2>1 DEF CodeError, Decode, Return, Goto, pendingBar, TypeOK
  <2>4. answer' = [answer EXCEPT ![g] = Reply(call[g].op, call[g].doc)]
    BY <1>2 DEF CodeError, Decode, Return, Goto, Value, DecodeFails, Reached, Reply
  <2> QED
    BY <1>2, <2>1, <2>2, <2>3, <2>4, ReplyContract
    DEF CodeError, Decode, Return, pendingBar, Contract!Respond
<1>3. ASSUME NEW g \in Goroutine, OnceFirst(g) \/ OnceDone(g) \/ AddResource(g)
                \/ WalkErr(g) \/ WalkEnd(g) \/ LeaveDo(g)
      PROVE  UNCHANGED Contract!vars
  <2>1. CASE AddResource(g)
    BY <2>1 DEF AddResource, Contract!vars
  <2> QED BY <1>3, <2>1, StutterOfOne DEF OnceFirst, OnceDone, WalkErr, WalkEnd, LeaveDo
<1>4. ASSUME NEW g \in Goroutine, Singleton(g) \/ Unmarshal(g) \/ Lock(g) \/ Compile(g)
                \/ Validate(g) \/ Unlock(g) \/ ToDecode(g)
      PROVE  UNCHANGED Contract!vars
  BY <1>4, StutterOfOne
  DEF Singleton, Unmarshal, Lock, Compile, Validate, Unlock, ToDecode
<1>5. CASE UNCHANGED vars
  BY <1>5 DEF vars, Contract!vars
<1> QED
  BY <1>1, <1>2, <1>3, <1>4, <1>5 DEF Next, Step, Contract!Next

\* The goroutines get the answers of the contract, whatever they share.
THEOREM AnswersAreTheDocuments == Spec => ImplementsContract
<1>1. IInv /\ [Next]_vars => [Contract!Next]_Contract!vars
  BY StepContract
<1> QED
  BY <1>1, InitContract, InductiveInvariant, PTL
  DEF Spec, ImplementsContract, Contract!Spec

=============================================================================
