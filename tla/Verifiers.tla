------------------------------ MODULE Verifiers ------------------------------
(***************************************************************************)
(* The map of sign/registry.go from algorithm names to verifiers, and what *)
(* its operations do to it.  An entry the map does not have is             *)
(* ErrUnsupportedAlg, which is what a lookup answers.                      *)
(***************************************************************************)
EXTENDS Naturals

CONSTANTS
  Name,              \* algorithm names, numbered in the order of strings
  Lower,             \* strings.ToLower
  Verifier,          \* implementations; v.alg is what Alg() returns
  ErrUnsupportedAlg,
  BuiltIn            \* the registry after package init

ASSUME NameAssumption == Name \subseteq Nat
ASSUME LowerAssumption ==
  Lower \in [Name -> Name] /\ \A n \in Name : Lower[Lower[n]] = Lower[n]
ASSUME VerifierAssumption ==
  ErrUnsupportedAlg \notin Verifier /\ \A v \in Verifier : v.alg \in Name

Registered(registry) == { n \in Name : registry[n] # ErrUnsupportedAlg }

\* No key that ToLower would change is ever stored.
Registry ==
  { r \in [Name -> Verifier \cup {ErrUnsupportedAlg}] :
      \A n \in Registered(r) : Lower[n] = n }

ASSUME BuiltInAssumption == BuiltIn \in Registry

\* Variant: the name is stored as Alg() spells it.
Stored_AsSpelt(registry, v) == [registry EXCEPT ![v.alg] = v]

Stored(registry, v) == [registry EXCEPT ![Lower[v.alg]] = v]

\* Variant: the lookup is case-sensitive.
Lookup_CaseSensitive(registry, name) == registry[name]

Lookup(registry, name) == registry[Lower[name]]

=============================================================================
