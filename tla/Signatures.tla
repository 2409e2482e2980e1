----------------------------- MODULE Signatures -----------------------------
(***************************************************************************)
(* Signing and verifying one document (sign/payload.go, multisig.go, the   *)
(* signers and verifiers, ed25519_legacy.go).  A document is its text and  *)
(* its two signature fields.  Hashes and signatures are perfect: a digest  *)
(* is the canonical document it was computed from, and a signature knows   *)
(* its key and its digest.                                                 *)
(***************************************************************************)
EXTENDS Verifiers, Sequences

CONSTANTS
  Text,           \* documents as written, without their signature fields
  NotJSON,        \* a text that json.Unmarshal rejects
  Content,        \* what texts say
  Canonical,      \* the JCS form of a text is that of its content
  Key,
  NoSignature,    \* no "signature" field
  AlgEd25519, AlgEIP191,
  CustomVerdict   \* what the verifiers of applications answer

ASSUME TextAssumption ==
  NotJSON \in Text /\ Canonical \in [Text \ {NotJSON} -> Content]
ASSUME AlgAssumption ==
  /\ AlgEd25519 \in Name /\ AlgEIP191 \in Name /\ AlgEd25519 # AlgEIP191
  /\ Lower[AlgEd25519] = AlgEd25519 /\ Lower[AlgEIP191] = AlgEIP191
  /\ BuiltIn[AlgEd25519] \in Verifier /\ BuiltIn[AlgEIP191] \in Verifier
  /\ BuiltIn[AlgEd25519] = [alg |-> AlgEd25519, impl |-> "Ed25519Verifier"]
  /\ BuiltIn[AlgEIP191] = [alg |-> AlgEIP191, impl |-> "EthereumVerifier"]

ASSUME OutcomeAssumption == ErrUnsupportedAlg # "ErrPayloadHashMismatch"

OK == "ok"

\* verifier.go:16: nil, ErrSigInvalid, or another error of the verifier's own.
ASSUME CustomAssumption ==
  CustomVerdict \in [Verifier -> {OK, "ErrSigInvalid", "other"}]

Digest == [text : Content, signature : {NoSignature}, signatures : {<<>>}]

LegacyValue == [key : Key, over : Digest]

ASSUME NoSignatureAssumption == NoSignature \notin Content \cup LegacyValue

SignatureValue == [encoding : {"base64url", "garbled"}, scheme : {AlgEd25519, AlgEIP191},
                   key : Key, over : Digest, v : {0, 27}]

Entry == [alg : Name, kid : [method : {"key", "pkh"}, key : Key],
          payloadHash : Digest, sig : SignatureValue]

Document == [text : Text, signature : {NoSignature} \cup LegacyValue,
             signatures : Seq(Entry)]

-----------------------------------------------------------------------------
\* Variant: only the field of v1.1 is stripped.
StripSignatureFields_LegacyKept(doc) == [doc EXCEPT !.signatures = <<>>]

StripSignatureFields(doc) ==
  [doc EXCEPT !.signature = NoSignature, !.signatures = <<>>]

\* Variant: the text is hashed as it is written.
SigningDigest_NotCanonical(doc) == StripSignatureFields(doc)

SigningDigest(doc) == [StripSignatureFields(doc) EXCEPT !.text = Canonical[@]]

-----------------------------------------------------------------------------
(***************************************************************************)
(* Signatures.  A signer spells its algorithm and, for Ethereum, adds 27   *)
(* to the recovery id or not, as wallets do.                               *)
(***************************************************************************)
Signer == [alg : { n \in Name : Lower[n] \in {AlgEd25519, AlgEIP191} },
           key : Key, v : {0, 27}]

SignatureBytes(s, digest) ==
  [encoding |-> "base64url", scheme |-> Lower[s.alg], key |-> s.key,
   over |-> digest, v |-> s.v]

SignMulti(s, digest) ==
  [alg         |-> s.alg,
   kid         |-> [method |-> IF Lower[s.alg] = AlgEd25519 THEN "key" ELSE "pkh",
                    key |-> s.key],
   payloadHash |-> digest,
   sig         |-> SignatureBytes(s, digest)]

SignLegacyEd25519(key, digest) == [key |-> key, over |-> digest]

\* A scheme is told by its length: 64 or 65 bytes.
Ed25519Verify(kid, sig, digest) ==
  IF kid.method # "key" THEN "kid"
  ELSE IF sig.scheme = AlgEd25519 /\ sig.key = kid.key /\ sig.over = digest THEN OK
  ELSE "ErrSigInvalid"

\* Variant: the recovery id is used as it comes.
RecoveryId_AsIs(v) == v

RecoveryId(v) == IF v >= 27 THEN v - 27 ELSE v

\* Another digest recovers another key.
EthereumVerify(kid, sig, digest) ==
  IF kid.method # "pkh" THEN "kid"
  ELSE IF /\ sig.scheme = AlgEIP191 /\ RecoveryId(sig.v) = 0
          /\ sig.over = digest /\ sig.key = kid.key THEN OK
  ELSE "ErrSigInvalid"

\* The built-in verifiers, and those that applications register.
VerifySignature(verifier, kid, sig, digest) ==
  CASE verifier.impl = "Ed25519Verifier"  -> Ed25519Verify(kid, sig, digest)
    [] verifier.impl = "EthereumVerifier" -> EthereumVerify(kid, sig, digest)
    [] OTHER -> CustomVerdict[verifier]

-----------------------------------------------------------------------------
\* Variant: the algorithm is looked up before the payload hash is compared.
VerifyEntryAgainstDigest_AlgFirst(digest, e, registry) ==
  LET verifier == Lookup(registry, e.alg) IN
    IF verifier = ErrUnsupportedAlg THEN ErrUnsupportedAlg
    ELSE IF e.payloadHash # digest THEN "ErrPayloadHashMismatch"
    ELSE IF e.sig.encoding # "base64url" THEN "ErrSigInvalid"
    ELSE VerifySignature(verifier, e.kid, e.sig, digest)

VerifyEntryAgainstDigest(digest, e, registry) ==
  LET verifier == Lookup(registry, e.alg) IN
    IF e.payloadHash # digest THEN "ErrPayloadHashMismatch"
    ELSE IF verifier = ErrUnsupportedAlg THEN ErrUnsupportedAlg
    ELSE IF e.sig.encoding # "base64url" THEN "ErrSigInvalid"
    ELSE VerifySignature(verifier, e.kid, e.sig, digest)

VerifyMultiSignature(doc, e, registry) ==
  IF doc.text = NotJSON THEN "json"
  ELSE VerifyEntryAgainstDigest(SigningDigest(doc), e, registry)

VerifyMultiEd25519(doc, e, registry) ==
  IF Lower[e.alg] # AlgEd25519 THEN ErrUnsupportedAlg
  ELSE VerifyMultiSignature(doc, e, registry)

\* A value that is no hex of 64 bytes is the signature of no key.
VerifyLegacyEd25519(doc, key) ==
  IF doc.signature = NoSignature THEN "ErrSigInvalid"
  ELSE IF doc.text = NotJSON THEN "json"
  ELSE IF doc.signature.key = key /\ doc.signature.over = SigningDigest(doc) THEN OK
  ELSE "ErrSigInvalid"

=============================================================================
