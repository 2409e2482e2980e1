------------------------ MODULE MC_VerifierRegistry ------------------------
(***************************************************************************)
(* Both built-in verifiers, one that replaces ed25519 under another        *)
(* spelling, and one of a third algorithm.                                 *)
(***************************************************************************)
EXTENDS VerifierRegistry

CONSTANTS g1, g2, g3

\* In the order of strings: "ED25519", "ecdsa-p256", "ed25519", "eip191".
MCName  == 1 .. 4
MCLower == <<3, 2, 3, 4>>

Ed25519  == [alg |-> 3, impl |-> "Ed25519Verifier"]
EIP191   == [alg |-> 4, impl |-> "EthereumVerifier"]
Replacer == [alg |-> 1, impl |-> "custom"]
P256     == [alg |-> 2, impl |-> "custom"]

MCVerifier == {Ed25519, EIP191, Replacer, P256}
MCBuiltIn  == <<ErrUnsupportedAlg, ErrUnsupportedAlg, Ed25519, EIP191>>

\* A registered algorithm, another spelling that replaces it, one that is not registered.
FewNames     == 1 .. 3
FewLower     == <<3, 2, 3>>
FewVerifiers == {Ed25519, Replacer}
FewBuiltIn   == <<ErrUnsupportedAlg, ErrUnsupportedAlg, Ed25519>>

Pair   == {g1, g2}
Triple == {g1, g2, g3}
=============================================================================
