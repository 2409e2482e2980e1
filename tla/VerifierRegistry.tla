-------------------------- MODULE VerifierRegistry --------------------------
(***************************************************************************)
(* The verifier registry of sign/registry.go: a Go map, which must never   *)
(* be written while another goroutine uses it, behind verifiersMu.  The    *)
(* RWMutex is modelled as the Go library implements it: a writer announces *)
(* itself, waits for the readers that are in and keeps later ones out;     *)
(* when it unlocks, every reader it kept out is in.                        *)
(***************************************************************************)
EXTENDS Verifiers, Sequences

CONSTANTS Goroutine, NoCall, NoWriter

ASSUME GoroutineAssumption == NoWriter \notin Goroutine

VARIABLES
  verifiers,         \* the map
  readers, writer,   \* verifiersMu: the readers that are in, the writer that holds
                     \* it or waits for them to leave
  pc, call,          \* where each goroutine is in which call
  found,             \* the last answer of GetVerifier
  listed             \* the algs of SupportedAlgorithms so far

lock == <<readers, writer>>
vars == <<verifiers, lock, pc, call, found, listed>>

Calls == [op : {"RegisterVerifier"}, arg : Verifier]
           \cup [op : {"GetVerifier"}, arg : Name]
           \cup [op : {"SupportedAlgorithms"}, arg : {NoCall}]

ASSUME NoCallAssumption == NoCall \notin Calls

Writes(g) == call[g].op = "RegisterVerifier"

Init ==
  /\ verifiers = BuiltIn
  /\ readers = {} /\ writer = NoWriter
  /\ pc     = [g \in Goroutine |-> "idle"]
  /\ call   = [g \in Goroutine |-> [op |-> "SupportedAlgorithms", arg |-> NoCall]]
  /\ found  = [g \in Goroutine |-> ErrUnsupportedAlg]
  /\ listed = [g \in Goroutine |-> <<>>]

Goto(g, from, to) == pc[g] = from /\ pc' = [pc EXCEPT ![g] = to]

Begin(g) ==
  /\ \E c \in Calls :
       /\ call' = [call EXCEPT ![g] = c]
       /\ Goto(g, "idle", IF c.op = "RegisterVerifier" THEN "Lock" ELSE "RLock")
  /\ found'  = [found EXCEPT ![g] = ErrUnsupportedAlg]
  /\ listed' = [listed EXCEPT ![g] = <<>>]
  /\ UNCHANGED <<verifiers, lock>>

-----------------------------------------------------------------------------
\* verifiersMu
\* Variant: the map is read without the lock.
RLock_NotTaken(g) ==
  /\ Goto(g, "RLock", "body")
  /\ UNCHANGED <<verifiers, lock, call, found, listed>>

RLock(g) ==
  /\ Goto(g, "RLock", IF writer = NoWriter THEN "body" ELSE "blocked")
  /\ readers' = IF writer = NoWriter THEN readers \cup {g} ELSE readers
  /\ UNCHANGED <<verifiers, writer, call, found, listed>>

Announce(g) ==
  /\ writer = NoWriter /\ writer' = g
  /\ Goto(g, "Lock", "drain")
  /\ UNCHANGED <<verifiers, readers, call, found, listed>>

Drained(g) ==
  /\ readers = {}
  /\ Goto(g, "drain", "body")
  /\ UNCHANGED <<verifiers, lock, call, found, listed>>

Unlock(g) ==
  /\ pc[g] = "Unlock"
  /\ LET blocked == { h \in Goroutine : pc[h] = "blocked" } IN
       /\ readers' = readers \cup blocked
       /\ pc' = [h \in Goroutine |-> IF h = g THEN "idle"
                                     ELSE IF h \in blocked THEN "body" ELSE pc[h]]
  /\ writer' = NoWriter
  /\ UNCHANGED <<verifiers, call, found, listed>>

RUnlock(g) ==
  /\ Goto(g, "RUnlock", "idle")
  /\ readers' = readers \ {g}
  /\ UNCHANGED <<verifiers, writer, call, found, listed>>

-----------------------------------------------------------------------------
\* The map: pc is "body" while a goroutine uses it.
\* Variant: a name that is registered keeps its verifier.
RegisterVerifier_FirstWins(g) ==
  /\ Writes(g) /\ Goto(g, "body", "Unlock")
  /\ verifiers' = IF Lookup(verifiers, call[g].arg.alg) = ErrUnsupportedAlg
                  THEN Stored(verifiers, call[g].arg) ELSE verifiers
  /\ UNCHANGED <<lock, call, found, listed>>

RegisterVerifier(g) ==
  /\ Writes(g) /\ Goto(g, "body", "Unlock")
  /\ verifiers' = Stored(verifiers, call[g].arg)
  /\ UNCHANGED <<lock, call, found, listed>>

\* Variant: the error path returns without unlocking.
GetVerifier_ErrorKeepsLock(g) ==
  /\ call[g].op = "GetVerifier"
  /\ found' = [found EXCEPT ![g] = Lookup(verifiers, call[g].arg)]
  /\ Goto(g, "body", IF found'[g] = ErrUnsupportedAlg THEN "idle" ELSE "RUnlock")
  /\ UNCHANGED <<verifiers, lock, call, listed>>

GetVerifier(g) ==
  /\ call[g].op = "GetVerifier" /\ Goto(g, "body", "RUnlock")
  /\ found' = [found EXCEPT ![g] = Lookup(verifiers, call[g].arg)]
  /\ UNCHANGED <<verifiers, lock, call, listed>>

Listed(g) == { listed[g][n] : n \in DOMAIN listed[g] }

\* A range over a Go map yields its keys in any order.
RangeKey(g) ==
  /\ pc[g] = "body" /\ call[g].op = "SupportedAlgorithms"
  /\ \E alg \in Registered(verifiers) \ Listed(g) :
       listed' = [listed EXCEPT ![g] = Append(@, alg)]
  /\ UNCHANGED <<verifiers, lock, pc, call, found>>

RangeEnd(g) ==
  /\ call[g].op = "SupportedAlgorithms" /\ Goto(g, "body", "RUnlock")
  /\ Registered(verifiers) \subseteq Listed(g)
  /\ UNCHANGED <<verifiers, lock, call, found, listed>>

Step(g) ==
  \/ RLock(g) \/ RUnlock(g) \/ Drained(g) \/ Unlock(g)
  \/ RegisterVerifier(g) \/ GetVerifier(g) \/ RangeKey(g) \/ RangeEnd(g)

Next == \E g \in Goroutine : Begin(g) \/ Announce(g) \/ Step(g)

\* A goroutine that can run does.  Writers contend for the writer's turn on a
\* sync.Mutex, which hands over to one that has waited long enough.
Spec ==
  /\ Init /\ [][Next]_vars
  /\ \A g \in Goroutine : WF_vars(Step(g)) /\ SF_vars(Announce(g))

-----------------------------------------------------------------------------
TypeOK ==
  /\ verifiers \in Registry
  /\ readers \subseteq Goroutine /\ writer \in Goroutine \cup {NoWriter}
  /\ pc \in [Goroutine -> {"idle", "RLock", "Lock", "blocked", "drain", "body",
                           "Unlock", "RUnlock"}]
  /\ call \in [Goroutine -> Calls]
  /\ found \in [Goroutine -> Verifier \cup {ErrUnsupportedAlg}]
  /\ listed \in [Goroutine -> Seq(Name)]

\* No goroutine uses the map while RegisterVerifier writes it: the Go runtime
\* ends the program when it sees that.
NoConcurrentMapWrite ==
  \A g, h \in Goroutine :
    g # h /\ pc[g] = "body" /\ pc[h] = "body" => ~ Writes(g) /\ ~ Writes(h)

\* The calls are linearizable: a list is the registry of one moment although
\* it is collected key by key, and no registration is lost.
Contract == INSTANCE RegistryContract WITH
  pending <- [g \in Goroutine |->
                IF pc[g] \in {"idle", "Unlock", "RUnlock"} THEN NoCall ELSE call[g]],
  names   <- [g \in Goroutine |->
                IF pc[g] \in {"idle", "Unlock", "RUnlock"} THEN Listed(g) ELSE {}]

ImplementsContract == Contract!Spec

\* Every call returns: no reader keeps a writer out for ever, and no writer a
\* reader.
CallsReturn == \A g \in Goroutine : pc[g] # "idle" ~> pc[g] = "idle"

\* SupportedAlgorithms "returns a sorted list" (registry.go:39).
SupportedAlgorithmsSorted ==
  \A g \in Goroutine : \A m, n \in DOMAIN listed[g] :
    m < n => listed[g][m] < listed[g][n]

=============================================================================
