--------------------------- MODULE SignatureChain ---------------------------
(***************************************************************************)
(* The life of a signed document: it is edited, signed by several parties  *)
(* that each read it some time before their signature is appended, and     *)
(* verified entry by entry while applications register verifiers.  The     *)
(* registry is the atomic one that VerifierRegistry implements.            *)
(***************************************************************************)
EXTENDS Signatures

CONSTANTS
  Signers, LegacyKey,
  Foreign,              \* entries of other software
  Verification,         \* calls of VerifyMultiSignaturesJSON, one of each
  MaxSignatures,        \* bounds the array
  Undecodable,          \* a "signatures" that is no array of signature objects
  NoDigest

ASSUME SignersAssumption == Signers \subseteq Signer /\ LegacyKey \in Key
ASSUME ForeignAssumption == Foreign \subseteq Entry
ASSUME MaxSignaturesAssumption == MaxSignatures \in Nat
ASSUME UndecodableAssumption == Undecodable \notin Seq(Entry)
ASSUME NoDigestAssumption == NoDigest \notin Digest

VARIABLES
  doc,                  \* [text, signature, signatures]
  madeFor, legacyFor,   \* what the document said when its signatures were made
  registry,
  signing,              \* the digest each signer holds
  call,                 \* the state of each verification
  answer                \* what it returned

document == <<doc, madeFor, legacyFor>>
verifications == <<call, answer>>
vars == <<document, registry, signing, verifications>>

Unsigned(t) == [text |-> t, signature |-> NoSignature, signatures |-> <<>>]

\* A verification holds the document it was called with and the results so far;
\* seen collects the registries it may have looked at.
NotCalled == [pc |-> "idle", raw |-> Unsigned(NotJSON), results |-> <<>>, seen |-> {}]

NoAnswer == [ok |-> FALSE, failed |-> <<>>, err |-> OK]

Init ==
  /\ \E t \in Text \ {NotJSON} : doc = Unsigned(t)
  /\ madeFor = <<>> /\ legacyFor = NoSignature
  /\ registry = BuiltIn
  /\ signing = [s \in Signers |-> NoDigest]
  /\ call   = [u \in Verification |-> NotCalled]
  /\ answer = [u \in Verification |-> NoAnswer]

-----------------------------------------------------------------------------
\* The parties around the document.
Edit ==
  /\ \E t \in Text : doc' = [doc EXCEPT !.text = t]
  /\ UNCHANGED <<madeFor, legacyFor, registry, signing, verifications>>

Reorder ==
  /\ \E i \in 1 .. Len(doc.signatures) - 1 :
       LET swapped(seq) == [seq EXCEPT ![i] = seq[i + 1], ![i + 1] = seq[i]] IN
         /\ doc' = [doc EXCEPT !.signatures = swapped(@)]
         /\ madeFor' = swapped(madeFor)
  /\ UNCHANGED <<legacyFor, registry, signing, verifications>>

AppendEntry(e, content) ==
  /\ Len(doc.signatures) < MaxSignatures
  /\ doc' = [doc EXCEPT !.signatures = Append(@, e)]
  /\ madeFor' = Append(madeFor, content)
  /\ UNCHANGED <<legacyFor, registry, verifications>>

Receive == \E e \in Foreign : AppendEntry(e, NoSignature) /\ UNCHANGED signing

SignLegacy ==
  /\ doc.text # NotJSON
  /\ doc' = [doc EXCEPT !.signature = SignLegacyEd25519(LegacyKey, SigningDigest(doc))]
  /\ legacyFor' = Canonical[doc.text]
  /\ UNCHANGED <<madeFor, registry, signing, verifications>>

\* SignMulti computes the digest, which fails for what is no JSON, and gives it
\* to a signer that may take its time.
StartSigning(s) ==
  /\ signing[s] = NoDigest /\ doc.text # NotJSON
  /\ signing' = [signing EXCEPT ![s] = SigningDigest(doc)]
  /\ UNCHANGED <<document, registry, verifications>>

FinishSigning(s) ==
  /\ signing[s] # NoDigest
  /\ AppendEntry(SignMulti(s, signing[s]), signing[s].text)
  /\ signing' = [signing EXCEPT ![s] = NoDigest]

RegisterVerifier(v) ==
  /\ registry' = Stored(registry, v)
  /\ call' = [u \in Verification |->
                IF call[u].pc = "entries"
                  THEN [call[u] EXCEPT !.seen = @ \cup {registry'}] ELSE call[u]]
  /\ UNCHANGED <<document, signing, answer>>

-----------------------------------------------------------------------------
\* VerifyMultiSignaturesJSON, by way of VerifyMultiSignaturesJSONDetailed.
\* The caller has the document, or one whose "signatures" was spoilt.
Given == {doc, [doc EXCEPT !.signatures = Undecodable]}

DecodeError(raw) ==
  IF raw.text = NotJSON \/ raw.signatures = Undecodable THEN "json"
  ELSE IF raw.signatures = <<>> THEN "ErrNoSignatures"
  ELSE OK

Decode(u) ==
  /\ call[u].pc = "idle"
  /\ \E raw \in Given :
       \/ /\ DecodeError(raw) = OK
          /\ call' = [call EXCEPT ![u] =
                        [pc |-> "entries", raw |-> raw, results |-> <<>>, seen |-> {registry}]]
          /\ UNCHANGED answer
       \/ /\ DecodeError(raw) # OK
          /\ call' = [call EXCEPT ![u].pc = "returned"]
          /\ answer' = [answer EXCEPT ![u] =
                          [ok |-> FALSE, failed |-> <<>>, err |-> DecodeError(raw)]]
  /\ UNCHANGED <<document, registry, signing>>

EntryOf(c) == c.raw.signatures[Len(c.results) + 1]

\* Variant: the digest is taken of the document as it is by now.
VerifyEntry_LiveDocument(u) ==
  /\ call[u].pc = "entries" /\ Len(call[u].results) < Len(call[u].raw.signatures)
  /\ call' = [call EXCEPT ![u].results =
                Append(@, VerifyMultiSignature(doc, EntryOf(call[u]), registry))]
  /\ UNCHANGED <<document, registry, signing, answer>>

VerifyEntry(u) ==
  /\ call[u].pc = "entries" /\ Len(call[u].results) < Len(call[u].raw.signatures)
  /\ call' = [call EXCEPT ![u].results =
                Append(@, VerifyEntryAgainstDigest(SigningDigest(call[u].raw),
                                                   EntryOf(call[u]), registry))]
  /\ UNCHANGED <<document, registry, signing, answer>>

FailedEntries(c) ==
  LET failed[n \in 0 .. Len(c.results)] ==
        IF n = 0 THEN <<>>
        ELSE IF c.results[n] = OK THEN failed[n - 1]
        ELSE Append(failed[n - 1], c.raw.signatures[n])
  IN  failed[Len(c.results)]

\* Variant: the answer is that of the last entry.
Answer_LastEntry(u) ==
  /\ call[u].pc = "entries" /\ Len(call[u].results) = Len(call[u].raw.signatures)
  /\ call' = [call EXCEPT ![u].pc = "returned"]
  /\ answer' = [answer EXCEPT ![u] =
                  [ok     |-> call[u].results[Len(call[u].results)] = OK,
                   failed |-> FailedEntries(call[u]), err |-> OK]]
  /\ UNCHANGED <<document, registry, signing>>

Answer(u) ==
  /\ call[u].pc = "entries" /\ Len(call[u].results) = Len(call[u].raw.signatures)
  /\ call' = [call EXCEPT ![u].pc = "returned"]
  /\ answer' = [answer EXCEPT ![u] =
                  [ok     |-> FailedEntries(call[u]) = <<>>,
                   failed |-> FailedEntries(call[u]), err |-> OK]]
  /\ UNCHANGED <<document, registry, signing>>

Next ==
  \/ Edit \/ Reorder \/ Receive \/ SignLegacy
  \/ \E s \in Signers : StartSigning(s) \/ FinishSigning(s)
  \/ \E v \in Verifier : RegisterVerifier(v)
  \/ \E u \in Verification : Decode(u) \/ VerifyEntry(u) \/ Answer(u)

Spec == Init /\ [][Next]_vars

-----------------------------------------------------------------------------
Outcome == {OK, "ErrPayloadHashMismatch", ErrUnsupportedAlg, "ErrSigInvalid", "kid", "other"}

Call == [pc : {"idle", "entries", "returned"}, raw : Document,
         results : Seq(Outcome), seen : SUBSET Registry]

\* Types; no digest depends on a signature field.
TypeOK ==
  /\ doc \in Document
  /\ madeFor \in Seq(Content \cup {NoSignature})
  /\ Len(madeFor) = Len(doc.signatures) /\ Len(madeFor) <= MaxSignatures
  /\ legacyFor \in Content \cup {NoSignature}
  /\ registry \in Registry
  /\ signing \in [Signers -> Digest \cup {NoDigest}]
  /\ call \in [Verification -> Call]
  /\ DOMAIN answer = Verification

\* A signature stays good for what was signed: signing again, in either format,
\* reordering and reformatting never spoil it, and once the document says
\* something else it is reported as one of another document, not as a bad one.
SignatureCoversContent ==
  doc.text # NotJSON =>
    /\ \A i \in DOMAIN madeFor : madeFor[i] # NoSignature =>
         LET e        == doc.signatures[i]
             expected == IF madeFor[i] = Canonical[doc.text]
                           THEN OK ELSE "ErrPayloadHashMismatch"
         IN  /\ VerifyMultiSignature(doc, e, BuiltIn) = expected
             /\ Lower[e.alg] = AlgEd25519 => VerifyMultiEd25519(doc, e, BuiltIn) = expected
    /\ legacyFor # NoSignature =>
         (VerifyLegacyEd25519(doc, LegacyKey) = OK <=> legacyFor = Canonical[doc.text])

\* Each result is what VerifyMultiSignature would have returned for the entry
\* (multisig.go:134), with a registry of the time of the call.
ResultsExplained ==
  \A u \in Verification : \A i \in DOMAIN call[u].results :
    \E r \in call[u].seen :
      call[u].results[i] = VerifyMultiSignature(call[u].raw, call[u].raw.signatures[i], r)

\* An entry about another document is reported as that, and only such an entry,
\* whatever else is wrong with it and whatever is registered (multisig.go:47).
MismatchReportedFirst ==
  \A u \in Verification : \A i \in DOMAIN call[u].results :
    call[u].results[i] = "ErrPayloadHashMismatch"
      <=> call[u].raw.signatures[i].payloadHash # SigningDigest(call[u].raw)

Members(seq) == { seq[n] : n \in DOMAIN seq }

\* While no verifier is registered, the verdict is that of the entries as a
\* set: their order decides neither whether the document holds nor which of
\* them are reported.
VerdictIsOfTheDocument ==
  \A u \in Verification : \A r \in call[u].seen :
    call[u].pc = "returned" /\ answer[u].err = OK /\ call[u].seen = {r} =>
      LET failing == { e \in Members(call[u].raw.signatures) :
                         VerifyMultiSignature(call[u].raw, e, r) # OK }
      IN  /\ answer[u].ok <=> failing = {}
          /\ Members(answer[u].failed) = failing

=============================================================================
