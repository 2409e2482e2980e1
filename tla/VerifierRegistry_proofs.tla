----------------------- MODULE VerifierRegistry_proofs -----------------------
(***************************************************************************)
(* The registry is linearizable and its map is never written while it is   *)
(* used, for every number of goroutines, algorithms and verifiers.         *)
(***************************************************************************)
EXTENDS VerifierRegistry, TLAPS

\* What the lock means: who is in it, and what a goroutine does there.
Readers ==
  \A g \in Goroutine :
    g \in readers <=> ~ Writes(g) /\ pc[g] \in {"body", "RUnlock"}

TheWriter ==
  \A g \in Goroutine :
    writer = g <=> Writes(g) /\ pc[g] \in {"drain", "body", "Unlock"}

Exclusion ==
  \A g \in Goroutine : Writes(g) /\ pc[g] \in {"body", "Unlock"} => readers = {}

Paths ==
  \A g \in Goroutine :
    /\ pc[g] \in {"RLock", "blocked", "RUnlock"} => ~ Writes(g)
    /\ pc[g] \in {"Lock", "drain", "Unlock"} => Writes(g)

\* A list holds keys of the map as it is, and only SupportedAlgorithms makes one.
Lists ==
  \A g \in Goroutine :
    /\ call[g].op # "SupportedAlgorithms" \/ pc[g] \in {"RLock", "blocked"}
         => listed[g] = <<>>
    /\ call[g].op = "SupportedAlgorithms" /\ pc[g] = "body"
         => Listed(g) \subseteq Registered(verifiers)

IInv == TypeOK /\ Readers /\ TheWriter /\ Exclusion /\ Paths /\ Lists

-----------------------------------------------------------------------------
LEMMA StoredType ==
  ASSUME NEW r \in Registry, NEW v \in Verifier
  PROVE  Stored(r, v) \in Registry
BY LowerAssumption, VerifierAssumption DEF Stored, Registry, Registered

LEMMA LookupType ==
  ASSUME NEW r \in Registry, NEW n \in Name
  PROVE  Lookup(r, n) \in Verifier \cup {ErrUnsupportedAlg}
BY LowerAssumption DEF Lookup, Registry

LEMMA InitIInv == Init => IInv
<1> SUFFICES ASSUME Init PROVE IInv
  OBVIOUS
<1>1. TypeOK
  BY BuiltInAssumption DEF Init, TypeOK, Calls
<1> QED
  BY <1>1, GoroutineAssumption
  DEF Init, IInv, Readers, TheWriter, Exclusion, Paths, Lists, Writes, Listed

LEMMA NextType ==
  ASSUME TypeOK, [Next]_vars
  PROVE  TypeOK'
<1> USE DEF TypeOK
<1>1. ASSUME NEW g \in Goroutine, Begin(g) PROVE TypeOK'
  BY <1>1 DEF Begin, Goto, lock
<1>2. ASSUME NEW g \in Goroutine, Announce(g) PROVE TypeOK'
  BY <1>2 DEF Announce, Goto
<1>3. ASSUME NEW g \in Goroutine, RLock(g) PROVE TypeOK'
  BY <1>3 DEF RLock, Goto
<1>4. ASSUME NEW g \in Goroutine, RUnlock(g) PROVE TypeOK'
  BY <1>4 DEF RUnlock, Goto
<1>5. ASSUME NEW g \in Goroutine, Drained(g) PROVE TypeOK'
  BY <1>5 DEF Drained, Goto, lock
<1>6. ASSUME NEW g \in Goroutine, Unlock(g) PROVE TypeOK'
  BY <1>6 DEF Unlock
<1>7. ASSUME NEW g \in Goroutine, RegisterVerifier(g) PROVE TypeOK'
  <2>1. call[g].arg \in Verifier
    BY <1>7 DEF RegisterVerifier, Writes, Calls
  <2> QED BY <1>7, <2>1, StoredType DEF RegisterVerifier, Goto, lock
<1>8. ASSUME NEW g \in Goroutine, GetVerifier(g) PROVE TypeOK'
  <2>1. call[g].arg \in Name
    BY <1>8 DEF GetVerifier, Calls
  <2> QED BY <1>8, <2>1, LookupType DEF GetVerifier, Goto, lock
<1>9. ASSUME NEW g \in Goroutine, RangeKey(g) PROVE TypeOK'
  BY <1>9 DEF RangeKey, Registered, lock
<1>10. ASSUME NEW g \in Goroutine, RangeEnd(g) PROVE TypeOK'
  BY <1>10 DEF RangeEnd, Goto, lock
<1>11. CASE UNCHANGED vars
  BY <1>11 DEF vars, lock
<1> QED
  BY <1>1, <1>2, <1>3, <1>4, <1>5, <1>6, <1>7, <1>8, <1>9, <1>10, <1>11
  DEF Next, Step

LEMMA NextLock ==
  ASSUME IInv, TypeOK', [Next]_vars
  PROVE  (Readers /\ TheWriter /\ Exclusion /\ Paths)'
<1> USE GoroutineAssumption DEF IInv, TypeOK, Readers, TheWriter, Exclusion, Paths, Writes
<1>1. ASSUME NEW g \in Goroutine, Begin(g)
      PROVE  (Readers /\ TheWriter /\ Exclusion /\ Paths)'
  BY <1>1 DEF Begin, Goto, lock
<1>2. ASSUME NEW g \in Goroutine, Announce(g)
      PROVE  (Readers /\ TheWriter /\ Exclusion /\ Paths)'
  BY <1>2 DEF Announce, Goto
<1>3. ASSUME NEW g \in Goroutine, RLock(g)
      PROVE  (Readers /\ TheWriter /\ Exclusion /\ Paths)'
  BY <1>3 DEF RLock, Goto
<1>4. ASSUME NEW g \in Goroutine, RUnlock(g)
      PROVE  (Readers /\ TheWriter /\ Exclusion /\ Paths)'
  BY <1>4 DEF RUnlock, Goto
<1>5. ASSUME NEW g \in Goroutine, Drained(g)
      PROVE  (Readers /\ TheWriter /\ Exclusion /\ Paths)'
  BY <1>5 DEF Drained, Goto, lock
<1>6. ASSUME NEW g \in Goroutine, Unlock(g)
      PROVE  (Readers /\ TheWriter /\ Exclusion /\ Paths)'
  BY <1>6 DEF Unlock
<1>7. ASSUME NEW g \in Goroutine, RegisterVerifier(g)
      PROVE  (Readers /\ TheWriter /\ Exclusion /\ Paths)'
  BY <1>7 DEF RegisterVerifier, Goto, lock
<1>8. ASSUME NEW g \in Goroutine, GetVerifier(g)
      PROVE  (Readers /\ TheWriter /\ Exclusion /\ Paths)'
  BY <1>8 DEF GetVerifier, Goto, lock
<1>9. ASSUME NEW g \in Goroutine, RangeKey(g)
      PROVE  (Readers /\ TheWriter /\ Exclusion /\ Paths)'
  BY <1>9 DEF RangeKey, lock
<1>10. ASSUME NEW g \in Goroutine, RangeEnd(g)
      PROVE  (Readers /\ TheWriter /\ Exclusion /\ Paths)'
  BY <1>10 DEF RangeEnd, Goto, lock
<1>11. CASE UNCHANGED vars
  BY <1>11 DEF vars, lock
<1> QED
  BY <1>1, <1>2, <1>3, <1>4, <1>5, <1>6, <1>7, <1>8, <1>9, <1>10, <1>11
  DEF Next, Step

\* A registration while a list is being made would spoil the list: the lock
\* excludes it.
LEMMA NextLists ==
  ASSUME IInv, TypeOK', [Next]_vars
  PROVE  Lists'
<1> USE DEF IInv, TypeOK, Lists, Listed
<1>1. ASSUME NEW g \in Goroutine, Begin(g) PROVE Lists'
  BY <1>1 DEF Begin, Goto, lock
<1>2. ASSUME NEW g \in Goroutine, Announce(g) PROVE Lists'
  BY <1>2 DEF Announce, Goto
<1>3. ASSUME NEW g \in Goroutine, RLock(g) PROVE Lists'
  BY <1>3 DEF RLock, Goto
<1>4. ASSUME NEW g \in Goroutine, RUnlock(g) PROVE Lists'
  BY <1>4 DEF RUnlock, Goto
<1>5. ASSUME NEW g \in Goroutine, Drained(g) PROVE Lists'
  <2>1. call[g].op # "SupportedAlgorithms"
    BY <1>5 DEF Drained, Goto, Paths, Writes
  <2> QED BY <1>5, <2>1 DEF Drained, Goto, lock
<1>6. ASSUME NEW g \in Goroutine, Unlock(g) PROVE Lists'
  BY <1>6 DEF Unlock
<1>7. ASSUME NEW g \in Goroutine, RegisterVerifier(g) PROVE Lists'
  <2>1. readers = {}
    BY <1>7 DEF RegisterVerifier, Goto, Exclusion
  <2>2. \A h \in Goroutine : ~ (call[h].op = "SupportedAlgorithms" /\ pc[h] = "body")
    BY <2>1 DEF Readers, Writes
  <2> QED BY <1>7, <2>2 DEF RegisterVerifier, Writes, Goto, lock
<1>8. ASSUME NEW g \in Goroutine, GetVerifier(g) PROVE Lists'
  BY <1>8 DEF GetVerifier, Goto, lock
<1>9. ASSUME NEW g \in Goroutine, RangeKey(g) PROVE Lists'
  BY <1>9 DEF RangeKey, Registered, lock
<1>10. ASSUME NEW g \in Goroutine, RangeEnd(g) PROVE Lists'
  BY <1>10 DEF RangeEnd, Goto, lock
<1>11. CASE UNCHANGED vars
  BY <1>11 DEF vars, lock
<1> QED
  BY <1>1, <1>2, <1>3, <1>4, <1>5, <1>6, <1>7, <1>8, <1>9, <1>10, <1>11
  DEF Next, Step

LEMMA NextIInv == IInv /\ [Next]_vars => IInv'
<1> SUFFICES ASSUME IInv, [Next]_vars PROVE IInv'
  OBVIOUS
<1>1. TypeOK'
  BY NextType DEF IInv
<1> QED BY <1>1, NextLock, NextLists DEF IInv

THEOREM InductiveInvariant == Spec => []IInv
BY InitIInv, NextIInv, PTL DEF Spec

\* Types: in particular every key of the map is in lower case, whatever the
\* spelling a verifier was registered under.
THEOREM TypeCorrect == Spec => []TypeOK
<1>1. IInv => TypeOK
  BY DEF IInv
<1> QED BY <1>1, InductiveInvariant, PTL

\* While RegisterVerifier writes the map no other goroutine is using it.
THEOREM NoMapRace == Spec => []NoConcurrentMapWrite
<1>1. IInv => NoConcurrentMapWrite
  <2> SUFFICES ASSUME IInv,
                      NEW g \in Goroutine, NEW h \in Goroutine,
                      g # h, pc[g] = "body", pc[h] = "body",
                      Writes(g)
               PROVE  FALSE
    BY DEF NoConcurrentMapWrite
  <2>1. readers = {} /\ writer = g
    BY DEF IInv, Exclusion, TheWriter
  <2>2. CASE Writes(h)
    BY <2>1, <2>2 DEF IInv, TheWriter
  <2>3. CASE ~ Writes(h)
    BY <2>1, <2>3 DEF IInv, Readers
  <2> QED BY <2>2, <2>3
<1> QED BY <1>1, InductiveInvariant, PTL

-----------------------------------------------------------------------------
\* The refinement: a call takes effect at its step on the map.
pendingBar == [g \in Goroutine |->
                 IF pc[g] \in {"idle", "Unlock", "RUnlock"} THEN NoCall ELSE call[g]]
namesBar   == [g \in Goroutine |->
                 IF pc[g] \in {"idle", "Unlock", "RUnlock"} THEN Listed(g) ELSE {}]

InvokeBar(g) ==
  /\ pendingBar[g] = NoCall
  /\ \E c \in Calls : pendingBar' = [pendingBar EXCEPT ![g] = c]
  /\ found' = [found EXCEPT ![g] = ErrUnsupportedAlg]
  /\ namesBar' = [namesBar EXCEPT ![g] = {}]
  /\ UNCHANGED verifiers

RespondBar(g) ==
  /\ pendingBar[g] # NoCall
  /\ \/ /\ pendingBar[g].op = "RegisterVerifier"
        /\ verifiers' = Stored(verifiers, pendingBar[g].arg)
        /\ UNCHANGED <<found, namesBar>>
     \/ /\ pendingBar[g].op = "GetVerifier"
        /\ found' = [found EXCEPT ![g] = Lookup(verifiers, pendingBar[g].arg)]
        /\ UNCHANGED <<verifiers, namesBar>>
     \/ /\ pendingBar[g].op = "SupportedAlgorithms"
        /\ namesBar' = [namesBar EXCEPT ![g] = Registered(verifiers)]
        /\ UNCHANGED <<verifiers, found>>
  /\ pendingBar' = [pendingBar EXCEPT ![g] = NoCall]

LEMMA SameActions ==
  ASSUME NEW g \in Goroutine
  PROVE  /\ InvokeBar(g) => Contract!Invoke(g)
         /\ RespondBar(g) => Contract!Respond(g)
<1>1. InvokeBar(g) => Contract!Invoke(g)
  BY DEF InvokeBar, Contract!Invoke, Contract!Calls, Calls, pendingBar, namesBar
<1>2. RespondBar(g) => Contract!Respond(g)
  BY DEF RespondBar, Contract!Respond, Contract!Stored, Stored, Contract!Lookup, Lookup,
         Contract!Registered, Registered, pendingBar, namesBar
<1> QED BY <1>1, <1>2

LEMMA InitContract == Init => Contract!Init
BY DEF Init, Contract!Init, Listed

\* Moves of one goroutine that the contract does not see.
LEMMA StutterOfOne ==
  ASSUME TypeOK, TypeOK', NEW g \in Goroutine,
         UNCHANGED <<verifiers, call, found>>,
         \A h \in Goroutine \ {g} : pc'[h] = pc[h] /\ listed'[h] = listed[h],
         \/ pc[g] \in {"idle", "Unlock", "RUnlock"} /\ pc'[g] \in {"idle", "Unlock", "RUnlock"}
              /\ listed'[g] = listed[g]
         \/ pc[g] \notin {"idle", "Unlock", "RUnlock"} /\ pc'[g] \notin {"idle", "Unlock", "RUnlock"}
  PROVE  UNCHANGED Contract!vars
<1>1. pendingBar' = pendingBar
  BY DEF pendingBar
<1>2. namesBar' = namesBar
  BY DEF namesBar, Listed
<1> QED BY <1>1, <1>2 DEF Contract!vars, pendingBar, namesBar

LEMMA StepContract ==
  ASSUME IInv, IInv', [Next]_vars
  PROVE  [Contract!Next]_Contract!vars
<1> USE DEF IInv
<1>1. ASSUME NEW g \in Goroutine, Begin(g) PROVE Contract!Invoke(g)
  <2>1. PICK c \in Calls :
          /\ call' = [call EXCEPT ![g] = c]
          /\ Goto(g, "idle", IF c.op = "RegisterVerifier" THEN "Lock" ELSE "RLock")
    BY <1>1 DEF Begin
  <2>2. pendingBar[g] = NoCall
    BY <2>1 DEF Goto, pendingBar
  <2>3. pendingBar' = [pendingBar EXCEPT ![g] = c]
    BY <2>1 DEF Goto, pendingBar, TypeOK
  <2>4. namesBar' = [namesBar EXCEPT ![g] = {}]
    <3>1. \A h \in Goroutine : h # g => Listed(h)' = Listed(h) /\ pc'[h] = pc[h]
      BY <1>1, <2>1 DEF Begin, Goto, TypeOK, Listed
    <3>2. pc'[g] \in {"RLock", "Lock"}
      BY <2>1 DEF Goto, TypeOK
    <3> QED BY <3>1, <3>2 DEF namesBar
  <2> QED
    BY <1>1, <2>1, <2>2, <2>3, <2>4, SameActions DEF Begin, InvokeBar
<1>2. ASSUME NEW g \in Goroutine, Announce(g) PROVE UNCHANGED Contract!vars
  BY <1>2, StutterOfOne DEF Announce, Goto, TypeOK
<1>3. ASSUME NEW g \in Goroutine, RLock(g) PROVE UNCHANGED Contract!vars
  BY <1>3, StutterOfOne DEF RLock, Goto, TypeOK
<1>4. ASSUME NEW g \in Goroutine, RUnlock(g) PROVE UNCHANGED Contract!vars
  BY <1>4, StutterOfOne DEF RUnlock, Goto, TypeOK
<1>5. ASSUME NEW g \in Goroutine, Drained(g) PROVE UNCHANGED Contract!vars
  BY <1>5, StutterOfOne DEF Drained, Goto, TypeOK, lock
<1>6. ASSUME NEW g \in Goroutine, Unlock(g) PROVE UNCHANGED Contract!vars
  <2>1. pendingBar' = pendingBar
    BY <1>6 DEF Unlock, pendingBar, TypeOK
  <2>2. namesBar' = namesBar
    BY <1>6 DEF Unlock, namesBar, TypeOK, Listed
  <2> QED BY <1>6, <2>1, <2>2 DEF Unlock, Contract!vars, pendingBar, namesBar
<1>7. ASSUME NEW g \in Goroutine, RegisterVerifier(g) PROVE Contract!Respond(g)
  <2>1. pendingBar[g] = call[g] /\ call[g] # NoCall
    BY <1>7, NoCallAssumption DEF RegisterVerifier, Goto, pendingBar, TypeOK
  <2>2. pendingBar' = [pendingBar EXCEPT ![g] = NoCall]
    BY <1>7 DEF RegisterVerifier, Goto, pendingBar, TypeOK
  <2>3. namesBar' = namesBar
    <3>1. \A h \in Goroutine : Listed(h)' = Listed(h) /\ (h # g => pc'[h] = pc[h])
      BY <1>7 DEF RegisterVerifier, Goto, TypeOK, Listed
    <3>2. pc[g] = "body" /\ pc'[g] \in {"Unlock", "RUnlock"} /\ Listed(g) = {}
      BY <1>7 DEF RegisterVerifier, Goto, TypeOK, Listed, Lists, Writes
    <3> QED BY <3>1, <3>2 DEF namesBar
  <2> QED
    BY <1>7, <2>1, <2>2, <2>3, SameActions
    DEF RegisterVerifier, Writes, RespondBar
<1>8. ASSUME NEW g \in Goroutine, GetVerifier(g) PROVE Contract!Respond(g)
  <2>1. pendingBar[g] = call[g] /\ call[g] # NoCall
    BY <1>8, NoCallAssumption DEF GetVerifier, Goto, pendingBar, TypeOK
  <2>2. pendingBar' = [pendingBar EXCEPT ![g] = NoCall]
    BY <1>8 DEF GetVerifier, Goto, pendingBar, TypeOK
  <2>3. namesBar' = namesBar
    <3>1. \A h \in Goroutine : Listed(h)' = Listed(h) /\ (h # g => pc'[h] = pc[h])
      BY <1>8 DEF GetVerifier, Goto, TypeOK, Listed
    <3>2. pc[g] = "body" /\ pc'[g] \in {"Unlock", "RUnlock"} /\ Listed(g) = {}
      BY <1>8 DEF GetVerifier, Goto, TypeOK, Listed, Lists
    <3> QED BY <3>1, <3>2 DEF namesBar
  <2> QED
    BY <1>8, <2>1, <2>2, <2>3, SameActions DEF GetVerifier, RespondBar
<1>9. ASSUME NEW g \in Goroutine, RangeKey(g) PROVE UNCHANGED Contract!vars
  <2>1. \A h \in Goroutine \ {g} : listed'[h] = listed[h]
    BY <1>9 DEF RangeKey, TypeOK
  <2> QED BY <1>9, <2>1, StutterOfOne DEF RangeKey, TypeOK, lock
<1>10. ASSUME NEW g \in Goroutine, RangeEnd(g) PROVE Contract!Respond(g)
  <2>1. pendingBar[g] = call[g] /\ call[g] # NoCall
    BY <1>10, NoCallAssumption DEF RangeEnd, Goto, pendingBar, TypeOK
  <2>2. pendingBar' = [pendingBar EXCEPT ![g] = NoCall]
    BY <1>10 DEF RangeEnd, Goto, pendingBar, TypeOK
  <2>3. Listed(g) = Registered(verifiers)
    BY <1>10 DEF RangeEnd, Goto, Lists
  <2>4. namesBar' = [namesBar EXCEPT ![g] = Registered(verifiers)]
    <3>1. \A h \in Goroutine : Listed(h)' = Listed(h) /\ (h # g => pc'[h] = pc[h])
      BY <1>10 DEF RangeEnd, Goto, TypeOK, Listed
    <3>2. pc'[g] = "RUnlock"
      BY <1>10 DEF RangeEnd, Goto, TypeOK
    <3> QED BY <2>3, <3>1, <3>2 DEF namesBar
  <2> QED
    BY <1>10, <2>1, <2>2, <2>4, SameActions DEF RangeEnd, lock, RespondBar
<1>11. CASE UNCHANGED vars
  BY <1>11 DEF vars, lock, Contract!vars, Listed
<1> QED
  BY <1>1, <1>2, <1>3, <1>4, <1>5, <1>6, <1>7, <1>8, <1>9, <1>10, <1>11
  DEF Next, Step, Contract!Next

\* Every call takes effect at one moment: the RWMutex makes the registry
\* linearizable.
THEOREM Linearizable == Spec => ImplementsContract
<1>1. IInv /\ IInv' /\ [Next]_vars => [Contract!Next]_Contract!vars
  BY StepContract
<1> QED BY <1>1, InitContract, InductiveInvariant, PTL DEF Spec, ImplementsContract, Contract!Spec

=============================================================================
