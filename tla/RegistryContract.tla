-------------------------- MODULE RegistryContract --------------------------
(***************************************************************************)
(* What RegisterVerifier, GetVerifier and SupportedAlgorithms promise to   *)
(* goroutines that call them at the same time: each call takes effect, or  *)
(* reads the whole registry, at one moment between its start and its end.  *)
(***************************************************************************)
EXTENDS Verifiers

CONSTANTS Goroutine, NoCall

VARIABLES
  verifiers,       \* the registry
  pending,         \* the call of each goroutine, until it has taken effect
  found, names     \* the last answers of GetVerifier and SupportedAlgorithms

vars == <<verifiers, pending, found, names>>

Calls == [op : {"RegisterVerifier"}, arg : Verifier]
           \cup [op : {"GetVerifier"}, arg : Name]
           \cup [op : {"SupportedAlgorithms"}, arg : {NoCall}]

Init ==
  /\ verifiers = BuiltIn
  /\ pending = [g \in Goroutine |-> NoCall]
  /\ found   = [g \in Goroutine |-> ErrUnsupportedAlg]
  /\ names   = [g \in Goroutine |-> {}]

Invoke(g) ==
  /\ pending[g] = NoCall
  /\ \E c \in Calls : pending' = [pending EXCEPT ![g] = c]
  /\ found' = [found EXCEPT ![g] = ErrUnsupportedAlg]
  /\ names' = [names EXCEPT ![g] = {}]
  /\ UNCHANGED verifiers

Respond(g) ==
  /\ pending[g] # NoCall
  /\ LET c == pending[g] IN
       \/ /\ c.op = "RegisterVerifier"
          /\ verifiers' = Stored(verifiers, c.arg)
          /\ UNCHANGED <<found, names>>
       \/ /\ c.op = "GetVerifier"
          /\ found' = [found EXCEPT ![g] = Lookup(verifiers, c.arg)]
          /\ UNCHANGED <<verifiers, names>>
       \/ /\ c.op = "SupportedAlgorithms"
          /\ names' = [names EXCEPT ![g] = Registered(verifiers)]
          /\ UNCHANGED <<verifiers, found>>
  /\ pending' = [pending EXCEPT ![g] = NoCall]

Next == \E g \in Goroutine : Invoke(g) \/ Respond(g)

Spec == Init /\ [][Next]_vars

=============================================================================
