-------------------------- MODULE MC_SignatureChain --------------------------
(***************************************************************************)
(* Two spellings of one content, another content and a text that is no     *)
(* JSON; two signers; entries of other software that never verify.         *)
(***************************************************************************)
EXTENDS SignatureChain

\* In the order of strings: "ED25519", "ecdsa-p256", "ed25519", "eip191".
MCName  == 1 .. 4
MCLower == <<3, 2, 3, 4>>

Ed25519  == [alg |-> 3, impl |-> "Ed25519Verifier"]
EIP191   == [alg |-> 4, impl |-> "EthereumVerifier"]
Replacer == [alg |-> 1, impl |-> "custom"]

MCVerifier == {Ed25519, EIP191, Replacer}
MCCustomVerdict == [v \in MCVerifier |-> "other"]
MCBuiltIn  == <<ErrUnsupportedAlg, ErrUnsupportedAlg, Ed25519, EIP191>>

MCText      == {"a1", "a2", "b", NotJSON}
MCContent   == {"a", "b"}
MCCanonical == [t \in MCText \ {NotJSON} |-> IF t = "b" THEN "b" ELSE "a"]
MCKey       == {"k1", "k2"}

Curator == [alg |-> 1, key |-> "k1", v |-> 0]
Wallet  == [alg |-> 4, key |-> "k2", v |-> 27]
MCSigners == {Curator, Wallet}

OfA == [text |-> "a", signature |-> NoSignature, signatures |-> <<>>]

Unsupported == [SignMulti(Curator, OfA) EXCEPT !.alg = 2]
BadKid      == [SignMulti(Wallet, OfA) EXCEPT !.kid = [method |-> "key", key |-> "k2"]]
MCForeign   == {Unsupported, BadKid}
=============================================================================
