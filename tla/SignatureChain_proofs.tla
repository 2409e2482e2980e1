------------------------ MODULE SignatureChain_proofs ------------------------
(***************************************************************************)
(* Signatures keep covering what they were made for, and every result of a *)
(* verification is the one its entry deserves, for every set of parties,   *)
(* texts, verifiers and calls.                                             *)
(***************************************************************************)
EXTENDS SignatureChain, SequenceTheorems, WellFoundedInduction, TLAPS

DigestOf(c) == [text |-> c, signature |-> NoSignature, signatures |-> <<>>]

\* Every own entry is what its signer made of the digest of that content.
OwnEntries ==
  \A i \in DOMAIN madeFor : madeFor[i] # NoSignature =>
    \E s \in Signers : doc.signatures[i] = SignMulti(s, DigestOf(madeFor[i]))

OwnLegacy ==
  legacyFor # NoSignature =>
    doc.signature = SignLegacyEd25519(LegacyKey, DigestOf(legacyFor))

\* A verification under way has a document that could be decoded, has seen the
\* registry as it is, and has explained results.
Explained(c) ==
  /\ Len(c.results) <= Len(c.raw.signatures)
  /\ c.pc = "entries" \/ c.results # <<>> => c.raw.text # NotJSON
  /\ \A i \in DOMAIN c.results : \E r \in c.seen :
       c.results[i] = VerifyMultiSignature(c.raw, c.raw.signatures[i], r)

CallsExplained ==
  \A u \in Verification :
    /\ Explained(call[u])
    /\ call[u].pc = "entries" => registry \in call[u].seen

\* The answer of a call that decoded its document is that of all its results.
AnswerOfResults(c, a) ==
  c.pc = "returned" /\ a.err = OK =>
    /\ Len(c.results) = Len(c.raw.signatures)
    /\ a.failed = FailedEntries(c)
    /\ a.ok <=> FailedEntries(c) = <<>>

AnswersOfResults == \A u \in Verification : AnswerOfResults(call[u], answer[u])

IInv == TypeOK /\ OwnEntries /\ OwnLegacy /\ CallsExplained /\ AnswersOfResults

-----------------------------------------------------------------------------
(***************************************************************************)
(* The loop of VerifyMultiSignaturesJSON over the results.                 *)
(***************************************************************************)
LessThan == { r \in Nat \X Nat : r[1] < r[2] }

\* Induction over a set of naturals.
LEMMA SetInduction ==
  ASSUME NEW S, 0 \in S, \A n \in Nat : n \in S => n + 1 \in S
  PROVE  Nat \subseteq S
<1> DEFINE Bad == Nat \ S
<1> SUFFICES ASSUME Bad # {} PROVE FALSE
  OBVIOUS
<1>1. IsWellFoundedOn(LessThan, Nat)
  BY NatLessThanWellFounded DEF OpToRel, LessThan
<1>2. PICK n \in Bad : \A m \in Bad : ~ (<<m, n>> \in LessThan)
  BY <1>1, WFMin
<1>3. n \in Nat /\ n # 0
  OBVIOUS
<1>4. n - 1 \in Nat /\ <<n - 1, n>> \in LessThan
  BY <1>3 DEF LessThan
<1>5. n - 1 \in S
  BY <1>2, <1>4
<1>6. (n - 1) + 1 \in S
  BY <1>4, <1>5
<1> QED BY <1>3, <1>6

\* f[n] is what failed holds after n rounds of the loop.
IsFailed(f, c, k) ==
  f = [n \in 0 .. k |-> IF n = 0 THEN <<>>
                        ELSE IF c.results[n] = OK THEN f[n - 1]
                        ELSE Append(f[n - 1], c.raw.signatures[n])]

LEMMA FailedExists ==
  ASSUME NEW c, NEW k \in Nat
  PROVE  \E f : IsFailed(f, c, k)
<1> DEFINE S == { n \in Nat : \E f : IsFailed(f, c, n) }
<1>1. 0 \in S
  <2> DEFINE f == [n \in 0 .. 0 |-> <<>>]
  <2>1. IsFailed(f, c, 0)
    BY DEF IsFailed
  <2> HIDE DEF f
  <2> QED BY <2>1
<1>2. ASSUME NEW n \in Nat, n \in S
      PROVE  n + 1 \in S
  <2>1. PICK f : IsFailed(f, c, n)
    BY <1>2
  <2> DEFINE last == IF c.results[n + 1] = OK THEN f[n] ELSE Append(f[n], c.raw.signatures[n + 1])
             g == [m \in 0 .. n + 1 |-> IF m = n + 1 THEN last ELSE f[m]]
             next(m) == IF m = 0 THEN <<>>
                        ELSE IF c.results[m] = OK THEN g[m - 1]
                        ELSE Append(g[m - 1], c.raw.signatures[m])
  <2>2. ASSUME NEW m \in 0 .. n
        PROVE  g[m] = f[m]
    BY <1>2
  <2>3. g[n + 1] = last
    BY <1>2
  <2> HIDE DEF g, last
  <2>4. ASSUME NEW m \in 0 .. n + 1
        PROVE  g[m] = next(m)
    <3>1. CASE m = n + 1
      <4>1. m # 0 /\ m - 1 = n /\ n \in 0 .. n
        BY <1>2, <3>1
      <4>2. next(m) = last
        BY <2>2, <3>1, <4>1 DEF last
      <4> QED BY <2>3, <3>1, <4>2
    <3>2. CASE m \in 0 .. n
      <4>1. m # 0 => m - 1 \in 0 .. n
        BY <1>2, <3>2
      <4>2. f[m] = IF m = 0 THEN <<>>
                   ELSE IF c.results[m] = OK THEN f[m - 1]
                   ELSE Append(f[m - 1], c.raw.signatures[m])
        BY <2>1, <3>2 DEF IsFailed
      <4>3. m # 0 => g[m - 1] = f[m - 1]
        BY <2>2, <4>1
      <4> QED BY <2>2, <3>2, <4>2, <4>3
    <3> QED BY <1>2, <3>1, <3>2
  <2>5. g = [m \in 0 .. n + 1 |-> next(m)]
    <3>1. g = [m \in 0 .. n + 1 |-> g[m]]
      BY DEF g
    <3> HIDE DEF next
    <3> QED BY <2>4, <3>1
  <2>6. IsFailed(g, c, n + 1)
    BY <2>5 DEF IsFailed
  <2> QED BY <1>2, <2>6
<1> HIDE DEF S
<1>3. k \in S
  BY <1>1, <1>2, SetInduction
<1> QED BY <1>3 DEF S

\* failed lists the entries that did not verify, and only those.
LEMMA FailedEntriesAre ==
  ASSUME NEW c, c.results \in Seq(Outcome), c.raw.signatures \in Seq(Entry),
         Len(c.results) <= Len(c.raw.signatures)
  PROVE  /\ FailedEntries(c) \in Seq(Entry)
         /\ Members(FailedEntries(c))
              = { c.raw.signatures[m] : m \in { i \in DOMAIN c.results : c.results[i] # OK } }
<1> DEFINE k == Len(c.results)
           failing(n) == { c.raw.signatures[m] : m \in { i \in 1 .. n : c.results[i] # OK } }
<1>1. k \in Nat /\ DOMAIN c.results = 1 .. k
  OBVIOUS
<1>2. FailedEntries(c) = (CHOOSE f : IsFailed(f, c, k))[k]
  BY DEF FailedEntries, IsFailed
<1>3. PICK f : IsFailed(f, c, k) /\ FailedEntries(c) = f[k]
  <2>1. IsFailed(CHOOSE f : IsFailed(f, c, k), c, k)
    BY <1>1, FailedExists
  <2> QED BY <1>2, <2>1
<1> DEFINE S == { n \in Nat : n <= k => f[n] \in Seq(Entry) /\ Members(f[n]) = failing(n) }
<1>4. 0 \in S
  <2>1. f[0] = <<>>
    BY <1>1, <1>3 DEF IsFailed
  <2>2. Members(<<>>) = {} /\ <<>> \in Seq(Entry)
    BY DEF Members
  <2>3. failing(0) = {}
    OBVIOUS
  <2> HIDE DEF failing
  <2> QED BY <2>1, <2>2, <2>3
<1>5. ASSUME NEW n \in Nat, n \in S
      PROVE  n + 1 \in S
  <2>1. SUFFICES ASSUME n + 1 <= k
                 PROVE  f[n + 1] \in Seq(Entry) /\ Members(f[n + 1]) = failing(n + 1)
    OBVIOUS
  <2>2. /\ n + 1 \in 0 .. k /\ n + 1 # 0 /\ (n + 1) - 1 = n /\ n <= k
        /\ n + 1 \in 1 .. Len(c.raw.signatures) /\ 1 .. n + 1 = (1 .. n) \cup {n + 1}
    BY <1>1, <2>1
  <2>3. f[n + 1] = IF c.results[n + 1] = OK THEN f[n] ELSE Append(f[n], c.raw.signatures[n + 1])
    BY <1>3, <2>2 DEF IsFailed
  <2>4. f[n] \in Seq(Entry) /\ Members(f[n]) = failing(n)
    BY <1>5, <2>2
  <2>5. CASE c.results[n + 1] = OK
    <3>1. failing(n + 1) = failing(n)
      BY <2>2, <2>5
    <3> HIDE DEF failing
    <3> QED BY <2>3, <2>4, <2>5, <3>1
  <2>6. CASE c.results[n + 1] # OK
    <3>1. failing(n + 1) = failing(n) \cup {c.raw.signatures[n + 1]}
      BY <2>2, <2>6
    <3>2. c.raw.signatures[n + 1] \in Entry
      BY <2>2
    <3>3. ASSUME NEW q \in Seq(Entry), NEW e \in Entry
          PROVE  Append(q, e) \in Seq(Entry) /\ Members(Append(q, e)) = Members(q) \cup {e}
      <4>1. /\ Append(q, e) \in Seq(Entry) /\ Len(Append(q, e)) = Len(q) + 1 /\ Len(q) \in Nat
            /\ \A i \in 1 .. Len(q) : Append(q, e)[i] = q[i]
            /\ Append(q, e)[Len(q) + 1] = e
        BY AppendProperties
      <4>2. DOMAIN Append(q, e) = (1 .. Len(q)) \cup {Len(q) + 1} /\ DOMAIN q = 1 .. Len(q)
        BY <4>1
      <4>3. Members(Append(q, e)) = Members(q) \cup {e}
        BY <4>1, <4>2 DEF Members
      <4> QED BY <4>1, <4>3
    <3> HIDE DEF failing
    <3> QED BY <2>3, <2>4, <2>6, <3>1, <3>2, <3>3
  <2> QED BY <2>5, <2>6
<1>6. k \in S
  <2> HIDE DEF S
  <2> QED BY <1>1, <1>4, <1>5, SetInduction
<1>7. f[k] \in Seq(Entry) /\ Members(f[k]) = failing(k)
  <2> HIDE DEF failing
  <2> QED BY <1>1, <1>6
<1>8. failing(k) = { c.raw.signatures[m] : m \in { i \in DOMAIN c.results : c.results[i] # OK } }
  BY <1>1
<1> QED BY <1>3, <1>7, <1>8, Zenon

LEMMA NoMembers ==
  ASSUME NEW q \in Seq(Entry)
  PROVE  q = <<>> <=> Members(q) = {}
<1>1. q # <<>> => 1 \in DOMAIN q
  BY EmptySeq
<1> QED BY <1>1 DEF Members

\* What is registered meanwhile does not change which results failed.
LEMMA SameAnswer ==
  ASSUME NEW c, NEW d, NEW a, c.pc = d.pc, c.raw = d.raw, c.results = d.results
  PROVE  AnswerOfResults(c, a) <=> AnswerOfResults(d, a)
<1>1. FailedEntries(c) = FailedEntries(d)
  BY DEF FailedEntries
<1> QED BY <1>1 DEF AnswerOfResults

-----------------------------------------------------------------------------
LEMMA CanonicalType ==
  ASSUME NEW t \in Text \ {NotJSON}
  PROVE  Canonical[t] \in Content
BY TextAssumption

LEMMA DigestIsContent ==
  ASSUME NEW d \in Document, d.text # NotJSON
  PROVE  /\ Canonical[d.text] \in Content
         /\ SigningDigest(d) = DigestOf(Canonical[d.text])
         /\ SigningDigest(d) \in Digest
<1>1. Canonical[d.text] \in Content
  <2>1. d.text \in Text \ {NotJSON}
    BY DEF Document
  <2> QED BY <2>1, CanonicalType
<1>2. SigningDigest(d) = DigestOf(Canonical[d.text])
  <2>1. StripSignatureFields(d) = DigestOf(d.text)
    <3>1. StripSignatureFields(d)
            \in [text : {d.text}, signature : {NoSignature}, signatures : {<<>>}]
      BY DEF StripSignatureFields, Document
    <3> QED BY <3>1 DEF DigestOf
  <2>2. [DigestOf(d.text) EXCEPT !.text = Canonical[d.text]]
          \in [text : {Canonical[d.text]}, signature : {NoSignature}, signatures : {<<>>}]
    BY DEF DigestOf
  <2> QED BY <2>1, <2>2 DEF SigningDigest, DigestOf
<1> QED BY <1>1, <1>2 DEF DigestOf, Digest

LEMMA DigestsDiffer ==
  ASSUME NEW c \in Content, NEW d \in Content
  PROVE  DigestOf(c) = DigestOf(d) <=> c = d
<1>1. DigestOf(c) = DigestOf(d) => DigestOf(c).text = DigestOf(d).text
  OBVIOUS
<1> QED BY <1>1 DEF DigestOf

LEMMA SignedEntryType ==
  ASSUME NEW s \in Signers, NEW d \in Digest
  PROVE  SignMulti(s, d) \in Entry
BY SignersAssumption, AlgAssumption
DEF Signer, SignMulti, SignatureBytes, Entry, SignatureValue

LEMMA LookupType ==
  ASSUME NEW r \in Registry, NEW n \in Name
  PROVE  Lookup(r, n) \in Verifier \cup {ErrUnsupportedAlg}
BY LowerAssumption DEF Lookup, Registry

LEMMA StoredType ==
  ASSUME NEW r \in Registry, NEW v \in Verifier
  PROVE  Stored(r, v) \in Registry
BY LowerAssumption, VerifierAssumption DEF Stored, Registry, Registered

\* No verifier takes a bad signature for one of another document.
LEMMA VerifierOutcome ==
  ASSUME NEW v \in Verifier, NEW kid, NEW sig, NEW d
  PROVE  VerifySignature(v, kid, sig, d) \in {OK, "ErrSigInvalid", "kid", "other"}
<1>1. CustomVerdict[v] \in {OK, "ErrSigInvalid", "other"}
  BY CustomAssumption
<1> QED BY <1>1 DEF VerifySignature, Ed25519Verify, EthereumVerify

LEMMA OutcomeType ==
  ASSUME NEW d, NEW e \in Entry, NEW r \in Registry
  PROVE  VerifyEntryAgainstDigest(d, e, r) \in Outcome
<1>1. Lookup(r, e.alg) \in Verifier \cup {ErrUnsupportedAlg}
  BY LookupType DEF Entry
<1> QED BY <1>1, VerifierOutcome DEF VerifyEntryAgainstDigest, Outcome

\* What a signer makes verifies over its digest and no other.
LEMMA SignThenVerify ==
  ASSUME NEW s \in Signers, NEW c \in Content, NEW d \in Content
  PROVE  VerifyEntryAgainstDigest(DigestOf(d), SignMulti(s, DigestOf(c)), BuiltIn)
           = IF c = d THEN OK ELSE "ErrPayloadHashMismatch"
<1> DEFINE e == SignMulti(s, DigestOf(c))
<1>1. /\ s.alg \in Name /\ Lower[s.alg] \in {AlgEd25519, AlgEIP191}
      /\ RecoveryId(s.v) = 0
  BY SignersAssumption DEF Signer, RecoveryId
<1>2. e.payloadHash = DigestOf(c) /\ e.alg = s.alg /\ e.sig.encoding = "base64url"
  BY DEF SignMulti, SignatureBytes
<1>3. CASE c # d
  BY <1>2, <1>3, DigestsDiffer DEF VerifyEntryAgainstDigest
<1>4. CASE c = d
  <2>1. e.sig.scheme = Lower[s.alg] /\ e.sig.key = e.kid.key /\ e.sig.over = DigestOf(d)
        /\ e.sig.v = s.v
    BY <1>4 DEF SignMulti, SignatureBytes
  <2>2. Lookup(BuiltIn, e.alg) = BuiltIn[Lower[s.alg]]
    BY <1>2 DEF Lookup
  <2>3. BuiltIn[Lower[s.alg]] # ErrUnsupportedAlg
    BY <1>1, AlgAssumption, VerifierAssumption
  <2>4. VerifySignature(BuiltIn[Lower[s.alg]], e.kid, e.sig, DigestOf(d)) = OK
    <3>1. CASE Lower[s.alg] = AlgEd25519
      <4>1. e.kid.method = "key"
        BY <3>1 DEF SignMulti
      <4> QED BY <3>1, <4>1, <2>1, AlgAssumption DEF VerifySignature, Ed25519Verify
    <3>2. CASE Lower[s.alg] = AlgEIP191
      <4>1. e.kid.method = "pkh"
        BY <3>2, AlgAssumption DEF SignMulti
      <4> QED BY <3>2, <4>1, <2>1, <1>1, AlgAssumption DEF VerifySignature, EthereumVerify
    <3> QED BY <1>1, <3>1, <3>2
  <2> QED BY <1>2, <1>4, <2>2, <2>3, <2>4 DEF VerifyEntryAgainstDigest
<1> QED BY <1>3, <1>4

\* Exchanging two neighbours keeps a sequence what it is.
LEMMA Swapped ==
  ASSUME NEW S, NEW q \in Seq(S), NEW i \in 1 .. Len(q) - 1
  PROVE  LET r == [q EXCEPT ![i] = q[i + 1], ![i + 1] = q[i]] IN
           /\ r \in Seq(S) /\ Len(r) = Len(q)
           /\ r[i] = q[i + 1] /\ r[i + 1] = q[i]
           /\ \A j \in 1 .. Len(q) : j # i /\ j # i + 1 => r[j] = q[j]
<1> DEFINE r == [q EXCEPT ![i] = q[i + 1], ![i + 1] = q[i]]
<1>1. Len(q) \in Nat /\ i \in 1 .. Len(q) /\ i + 1 \in 1 .. Len(q) /\ DOMAIN q = 1 .. Len(q)
  OBVIOUS
<1>2. r \in [1 .. Len(q) -> S]
  BY <1>1
<1>3. r \in Seq(S) /\ Len(r) = Len(q)
  BY <1>1, <1>2
<1> QED BY <1>1, <1>3

LEMMA InitIInv == Init => IInv
<1> SUFFICES ASSUME Init PROVE IInv
  OBVIOUS
<1>1. PICK t \in Text \ {NotJSON} : doc = Unsigned(t)
  BY DEF Init
<1>2. \A x \in Text : Unsigned(x) \in Document
  BY DEF Unsigned, Document
<1>3. NotCalled \in Call
  BY <1>2, TextAssumption DEF NotCalled, Call
<1>4. Len(Unsigned(t).signatures) = 0 /\ Len(<<>>) = 0
  BY DEF Unsigned
<1>5. TypeOK
  BY <1>1, <1>2, <1>3, <1>4, BuiltInAssumption, MaxSignaturesAssumption DEF Init, TypeOK
<1>6. OwnEntries /\ OwnLegacy
  BY DEF Init, OwnEntries, OwnLegacy
<1>7. CallsExplained
  BY DEF Init, CallsExplained, Explained, NotCalled, Unsigned
<1>8. AnswersOfResults
  BY DEF Init, AnswersOfResults, AnswerOfResults, NotCalled
<1> QED BY <1>5, <1>6, <1>7, <1>8 DEF IInv

-----------------------------------------------------------------------------
\* The steps on the document.
LEMMA AppendPreserves ==
  ASSUME IInv, NEW e \in Entry, NEW c \in Content \cup {NoSignature},
         AppendEntry(e, c), signing' \in [Signers -> Digest \cup {NoDigest}],
         c # NoSignature => \E s \in Signers : e = SignMulti(s, DigestOf(c))
  PROVE  IInv'
<1> USE DEF IInv, AppendEntry
<1>1. /\ doc' \in Document /\ doc'.signatures = Append(doc.signatures, e)
      /\ doc'.signature = doc.signature
  <2>1. doc.signatures \in Seq(Entry) /\ Append(doc.signatures, e) \in Seq(Entry)
    BY DEF TypeOK, Document
  <2> QED BY <2>1 DEF TypeOK, Document
<1>2. /\ madeFor' = Append(madeFor, c) /\ madeFor' \in Seq(Content \cup {NoSignature})
      /\ Len(madeFor') = Len(madeFor) + 1
  BY DEF TypeOK
<1>3. doc.signatures \in Seq(Entry) /\ Len(doc'.signatures) = Len(doc.signatures) + 1
  BY <1>1 DEF TypeOK, Document
<1>4. TypeOK'
  BY <1>1, <1>2, <1>3, MaxSignaturesAssumption DEF TypeOK, verifications
<1>5. OwnEntries'
  <2> SUFFICES ASSUME NEW i \in DOMAIN madeFor', madeFor'[i] # NoSignature
               PROVE  \E s \in Signers :
                        doc'.signatures[i] = SignMulti(s, DigestOf(madeFor'[i]))
    BY DEF OwnEntries
  <2>1. Len(madeFor) \in Nat /\ i \in 1 .. Len(madeFor) + 1 /\ Len(madeFor) = Len(doc.signatures)
    BY <1>2 DEF TypeOK
  <2>2. CASE i = Len(madeFor) + 1
    <3>1. madeFor'[i] = c /\ doc'.signatures[i] = e
      BY <1>1, <1>2, <1>3, <2>1, <2>2 DEF TypeOK
    <3> QED BY <3>1
  <2>3. CASE i \in 1 .. Len(madeFor)
    <3>1. madeFor'[i] = madeFor[i] /\ doc'.signatures[i] = doc.signatures[i]
      BY <1>1, <1>2, <1>3, <2>1, <2>3 DEF TypeOK
    <3>2. i \in DOMAIN madeFor
      BY <2>3 DEF TypeOK
    <3> QED BY <3>1, <3>2 DEF OwnEntries
  <2> QED BY <2>1, <2>2, <2>3
<1>6. OwnLegacy'
  BY <1>1 DEF OwnLegacy
<1>7. CallsExplained' /\ AnswersOfResults'
  BY DEF CallsExplained, AnswersOfResults, verifications
<1> QED BY <1>4, <1>5, <1>6, <1>7

LEMMA DocumentSteps ==
  ASSUME IInv, Edit \/ Reorder \/ Receive \/ SignLegacy
  PROVE  IInv'
<1> USE DEF IInv
<1>1. CASE Edit
  <2>1. /\ doc' \in Document /\ doc'.signatures = doc.signatures
        /\ doc'.signature = doc.signature
    BY <1>1 DEF Edit, TypeOK, Document
  <2>2. TypeOK'
    BY <1>1, <2>1 DEF Edit, TypeOK, verifications
  <2>3. (OwnEntries /\ OwnLegacy /\ CallsExplained /\ AnswersOfResults)'
    BY <1>1, <2>1 DEF Edit, OwnEntries, OwnLegacy, CallsExplained, AnswersOfResults, verifications
  <2> QED BY <2>2, <2>3
<1>2. CASE Reorder
  <2>1. PICK i \in 1 .. Len(doc.signatures) - 1 :
          /\ doc' = [doc EXCEPT !.signatures =
                       [doc.signatures EXCEPT ![i] = doc.signatures[i + 1],
                                              ![i + 1] = doc.signatures[i]]]
          /\ madeFor' = [madeFor EXCEPT ![i] = madeFor[i + 1], ![i + 1] = madeFor[i]]
    BY <1>2 DEF Reorder
  <2>2. /\ doc.signatures \in Seq(Entry) /\ madeFor \in Seq(Content \cup {NoSignature})
        /\ Len(madeFor) = Len(doc.signatures) /\ Len(madeFor) \in Nat
        /\ i \in 1 .. Len(madeFor) - 1
    BY <2>1 DEF TypeOK, Document
  <2>3. /\ doc'.signature = doc.signature /\ doc'.text = doc.text
        /\ doc'.signatures = [doc.signatures EXCEPT ![i] = doc.signatures[i + 1],
                                                    ![i + 1] = doc.signatures[i]]
    BY <2>1 DEF TypeOK, Document
  <2>4. /\ doc'.signatures \in Seq(Entry) /\ Len(doc'.signatures) = Len(doc.signatures)
        /\ doc'.signatures[i] = doc.signatures[i + 1]
        /\ doc'.signatures[i + 1] = doc.signatures[i]
        /\ \A j \in 1 .. Len(madeFor) :
             j # i /\ j # i + 1 => doc'.signatures[j] = doc.signatures[j]
    BY <2>1, <2>2, <2>3, Swapped
  <2>5. /\ madeFor' \in Seq(Content \cup {NoSignature}) /\ Len(madeFor') = Len(madeFor)
        /\ madeFor'[i] = madeFor[i + 1] /\ madeFor'[i + 1] = madeFor[i]
        /\ \A j \in 1 .. Len(madeFor) : j # i /\ j # i + 1 => madeFor'[j] = madeFor[j]
    BY <2>1, <2>2, Swapped
  <2>6. doc' \in Document
    BY <2>1, <2>4, <2>3 DEF TypeOK, Document
  <2>7. TypeOK'
    BY <1>2, <2>2, <2>4, <2>5, <2>6 DEF Reorder, TypeOK, verifications
  <2>8. OwnEntries'
    <3> SUFFICES ASSUME NEW j \in DOMAIN madeFor', madeFor'[j] # NoSignature
                 PROVE  \E s \in Signers :
                          doc'.signatures[j] = SignMulti(s, DigestOf(madeFor'[j]))
      BY DEF OwnEntries
    <3>1. j \in 1 .. Len(madeFor) /\ DOMAIN madeFor = 1 .. Len(madeFor)
      BY <2>2, <2>5
    <3>2. PICK k \in DOMAIN madeFor :
            madeFor'[j] = madeFor[k] /\ doc'.signatures[j] = doc.signatures[k]
      <4>1. CASE j = i
        BY <2>2, <2>4, <2>5, <3>1, <4>1
      <4>2. CASE j = i + 1
        BY <2>2, <2>4, <2>5, <3>1, <4>2
      <4>3. CASE j # i /\ j # i + 1
        BY <2>4, <2>5, <3>1, <4>3
      <4> QED BY <4>1, <4>2, <4>3
    <3> QED BY <3>2 DEF OwnEntries
  <2>9. (OwnLegacy /\ CallsExplained /\ AnswersOfResults)'
    BY <1>2, <2>3 DEF Reorder, OwnLegacy, CallsExplained, AnswersOfResults, verifications
  <2> QED BY <2>7, <2>8, <2>9
<1>3. CASE Receive
  <2>1. PICK e \in Foreign : AppendEntry(e, NoSignature) /\ UNCHANGED signing
    BY <1>3 DEF Receive
  <2>2. e \in Entry /\ signing' \in [Signers -> Digest \cup {NoDigest}]
    BY <2>1, ForeignAssumption DEF TypeOK
  <2> QED BY <2>1, <2>2, AppendPreserves
<1>4. CASE SignLegacy
  <2>1. /\ Canonical[doc.text] \in Content
        /\ SigningDigest(doc) = DigestOf(Canonical[doc.text])
        /\ SigningDigest(doc) \in Digest
    BY <1>4, DigestIsContent DEF SignLegacy, TypeOK
  <2>2. SignLegacyEd25519(LegacyKey, SigningDigest(doc)) \in LegacyValue
    BY <2>1, SignersAssumption DEF SignLegacyEd25519, LegacyValue
  <2>3. /\ doc' \in Document /\ doc'.signatures = doc.signatures
        /\ doc'.signature = SignLegacyEd25519(LegacyKey, SigningDigest(doc))
    BY <1>4, <2>2 DEF SignLegacy, TypeOK, Document
  <2>4. TypeOK'
    BY <1>4, <2>1, <2>3 DEF SignLegacy, TypeOK, verifications
  <2>5. OwnLegacy'
    BY <1>4, <2>1, <2>3 DEF SignLegacy, OwnLegacy
  <2>6. (OwnEntries /\ CallsExplained /\ AnswersOfResults)'
    BY <1>4, <2>3 DEF SignLegacy, OwnEntries, CallsExplained, AnswersOfResults, verifications
  <2> QED BY <2>4, <2>5, <2>6
<1> QED BY <1>1, <1>2, <1>3, <1>4

LEMMA SigningSteps ==
  ASSUME IInv, NEW s \in Signers, StartSigning(s) \/ FinishSigning(s)
  PROVE  IInv'
<1> USE DEF IInv
<1>1. CASE StartSigning(s)
  <2>1. SigningDigest(doc) \in Digest
    BY <1>1, DigestIsContent DEF StartSigning, TypeOK
  <2>2. TypeOK'
    BY <1>1, <2>1 DEF StartSigning, TypeOK, document, verifications
  <2>3. (OwnEntries /\ OwnLegacy /\ CallsExplained /\ AnswersOfResults)'
    BY <1>1 DEF StartSigning, OwnEntries, OwnLegacy, CallsExplained, AnswersOfResults,
                document, verifications
  <2> QED BY <2>2, <2>3
<1>2. CASE FinishSigning(s)
  <2>1. signing[s] \in Digest
    BY <1>2 DEF FinishSigning, TypeOK
  <2>2. signing[s].text \in Content /\ signing[s] = DigestOf(signing[s].text)
    BY <2>1 DEF Digest, DigestOf
  <2>3. SignMulti(s, signing[s]) \in Entry
    BY <2>1, SignedEntryType
  <2>4. signing' \in [Signers -> Digest \cup {NoDigest}]
    BY <1>2 DEF FinishSigning, TypeOK
  <2>5. AppendEntry(SignMulti(s, signing[s]), signing[s].text)
    BY <1>2 DEF FinishSigning
  <2> QED BY <2>2, <2>3, <2>4, <2>5, AppendPreserves
<1> QED BY <1>1, <1>2

-----------------------------------------------------------------------------
\* The verifications.
LEMMA RegisterStep ==
  ASSUME IInv, NEW v \in Verifier, RegisterVerifier(v)
  PROVE  IInv'
<1> USE DEF IInv
<1>1. registry' \in Registry
  BY StoredType DEF RegisterVerifier, TypeOK
<1>2. ASSUME NEW u \in Verification
      PROVE  /\ call'[u] \in Call
             /\ call'[u].pc = call[u].pc /\ call'[u].raw = call[u].raw
             /\ call'[u].results = call[u].results
             /\ call[u].seen \subseteq call'[u].seen
             /\ call[u].pc = "entries" => registry' \in call'[u].seen
  <2>1. call[u] \in Call
    BY DEF TypeOK
  <2>2. CASE call[u].pc = "entries"
    <3>1. call'[u] = [call[u] EXCEPT !.seen = @ \cup {registry'}]
      BY <2>2 DEF RegisterVerifier
    <3> QED BY <1>1, <2>1, <3>1 DEF Call
  <2>3. CASE call[u].pc # "entries"
    BY <2>1, <2>3 DEF RegisterVerifier
  <2> QED BY <2>2, <2>3
<1>3. call' \in [Verification -> Call]
  BY <1>2 DEF RegisterVerifier
<1>4. TypeOK'
  BY <1>1, <1>3 DEF RegisterVerifier, TypeOK, document
<1>5. (OwnEntries /\ OwnLegacy)'
  BY DEF RegisterVerifier, OwnEntries, OwnLegacy, document
<1>6. CallsExplained'
  BY <1>2 DEF CallsExplained, Explained
<1>7. AnswersOfResults'
  <2>1. ASSUME NEW u \in Verification
        PROVE  AnswerOfResults(call'[u], answer'[u])
    <3>1. AnswerOfResults(call[u], answer[u]) /\ answer' = answer
      BY DEF AnswersOfResults, RegisterVerifier
    <3> QED BY <1>2, <3>1, SameAnswer
  <2> QED BY <2>1 DEF AnswersOfResults
<1> QED BY <1>4, <1>5, <1>6, <1>7

LEMMA VerificationSteps ==
  ASSUME IInv, NEW u \in Verification, Decode(u) \/ VerifyEntry(u) \/ Answer(u)
  PROVE  IInv'
<1> USE DEF IInv
<1>1. UNCHANGED <<document, registry, signing>>
  BY DEF Decode, VerifyEntry, Answer
<1>2. (OwnEntries /\ OwnLegacy)'
  BY <1>1 DEF OwnEntries, OwnLegacy, document
<1>3. call[u] \in Call /\ Explained(call[u])
  BY DEF TypeOK, CallsExplained
<1>4. ASSUME call'[u] \in Call, Explained(call'[u]),
             call' = [call EXCEPT ![u] = call'[u]], DOMAIN answer' = Verification,
             AnswerOfResults(call'[u], answer'[u]),
             \A v \in Verification \ {u} : answer'[v] = answer[v],
             call'[u].pc = "entries" => registry \in call'[u].seen
      PROVE  IInv'
  <2>1. TypeOK'
    BY <1>1, <1>4 DEF TypeOK, document
  <2>2. CallsExplained'
    BY <1>1, <1>4 DEF CallsExplained, TypeOK
  <2>3. AnswersOfResults'
    BY <1>4 DEF AnswersOfResults, TypeOK
  <2> QED BY <1>2, <2>1, <2>2, <2>3
<1>5. CASE Decode(u)
  <2> PICK raw \in Given :
        \/ /\ DecodeError(raw) = OK
           /\ call' = [call EXCEPT ![u] = [pc |-> "entries", raw |-> raw, results |-> <<>>,
                                           seen |-> {registry}]]
           /\ UNCHANGED answer
        \/ /\ DecodeError(raw) # OK
           /\ call' = [call EXCEPT ![u].pc = "returned"]
           /\ answer' = [answer EXCEPT ![u] =
                           [ok |-> FALSE, failed |-> <<>>, err |-> DecodeError(raw)]]
    BY <1>5 DEF Decode
  <2>1. CASE DecodeError(raw) = OK
    <3>0. raw = doc /\ doc.text # NotJSON
      <4>1. raw.text # NotJSON /\ raw.signatures # Undecodable
        BY <2>1 DEF DecodeError, OK
      <4>2. [doc EXCEPT !.signatures = Undecodable].signatures = Undecodable
        BY DEF TypeOK, Document
      <4> QED BY <4>1, <4>2 DEF Given
    <3>1. /\ call' = [call EXCEPT ![u] = [pc |-> "entries", raw |-> doc, results |-> <<>>,
                                          seen |-> {registry}]]
          /\ UNCHANGED answer
      BY <2>1, <3>0
    <3>2. call'[u] = [pc |-> "entries", raw |-> doc, results |-> <<>>, seen |-> {registry}]
      BY <3>1 DEF TypeOK
    <3>3. call'[u] \in Call
      BY <3>2 DEF Call, TypeOK
    <3>4. Explained(call'[u])
      <4>1. Len(<<>>) = 0 /\ Len(doc.signatures) \in Nat
        BY DEF TypeOK, Document
      <4> QED BY <3>0, <3>2, <4>1 DEF Explained
    <3>5. AnswerOfResults(call'[u], answer'[u])
      BY <3>2 DEF AnswerOfResults
    <3> QED BY <1>4, <3>1, <3>2, <3>3, <3>4, <3>5 DEF TypeOK
  <2>2. CASE DecodeError(raw) # OK
    <3>1. /\ call' = [call EXCEPT ![u].pc = "returned"] /\ DOMAIN answer' = DOMAIN answer
          /\ \A v \in Verification \ {u} : answer'[v] = answer[v]
      BY <2>2 DEF TypeOK
    <3>2. /\ call'[u] \in Call /\ call'[u].pc = "returned" /\ call'[u].raw = call[u].raw
          /\ call'[u].results = call[u].results /\ call'[u].seen = call[u].seen
      BY <1>3, <3>1 DEF TypeOK, Call
    <3>3. Explained(call'[u])
      BY <1>3, <3>2 DEF Explained
    <3>4. answer'[u].err # OK
      BY <2>2 DEF TypeOK
    <3>5. AnswerOfResults(call'[u], answer'[u])
      BY <3>4 DEF AnswerOfResults
    <3> QED BY <1>4, <3>1, <3>2, <3>3, <3>5 DEF TypeOK
  <2> QED BY <2>1, <2>2
<1>6. CASE VerifyEntry(u)
  <2> DEFINE outcome == VerifyEntryAgainstDigest(SigningDigest(call[u].raw), EntryOf(call[u]),
                                                 registry)
  <2>1. /\ call' = [call EXCEPT ![u].results = Append(call[u].results, outcome)]
        /\ call[u].pc = "entries" /\ Len(call[u].results) < Len(call[u].raw.signatures)
        /\ UNCHANGED answer
    BY <1>6 DEF VerifyEntry
  <2>2. outcome \in Outcome
    <3>1. /\ call[u].raw.signatures \in Seq(Entry) /\ call[u].results \in Seq(Outcome)
          /\ Len(call[u].results) < Len(call[u].raw.signatures)
      BY <1>3, <2>1 DEF Call, Document
    <3>2. Len(call[u].results) + 1 \in 1 .. Len(call[u].raw.signatures)
      BY <3>1
    <3>3. EntryOf(call[u]) \in Entry
      BY <3>1, <3>2 DEF EntryOf
    <3> QED BY <3>3, OutcomeType DEF TypeOK
  <2>3. call[u].results \in Seq(Outcome) /\ Len(call[u].raw.signatures) \in Nat
    BY <1>3 DEF Call, Document
  <2> HIDE DEF outcome
  <2>4. Append(call[u].results, outcome) \in Seq(Outcome)
    BY <2>2, <2>3
  <2>5. /\ call'[u] \in Call /\ call'[u].pc = "entries" /\ call'[u].raw = call[u].raw
        /\ call'[u].results = Append(call[u].results, outcome)
        /\ call'[u].seen = call[u].seen
    BY <1>3, <2>1, <2>4 DEF TypeOK, Call
  <2>6. call[u].raw.text # NotJSON /\ registry \in call[u].seen
    BY <1>3, <2>1 DEF Explained, CallsExplained
  <2>7. Explained(call'[u])
    <3>1. Len(call'[u].results) = Len(call[u].results) + 1
      BY <2>3, <2>4, <2>5
    <3>2. ASSUME NEW i \in DOMAIN call'[u].results
          PROVE  \E r \in call'[u].seen : call'[u].results[i]
                   = VerifyMultiSignature(call'[u].raw, call'[u].raw.signatures[i], r)
      <4>1. Len(call[u].results) \in Nat /\ i \in 1 .. Len(call[u].results) + 1
            /\ DOMAIN call[u].results = 1 .. Len(call[u].results)
        BY <2>3, <2>4, <2>5, <3>1
      <4>2. CASE i = Len(call[u].results) + 1
        <5>1. call'[u].results[i] = outcome
          BY <2>2, <2>3, <2>5, <4>2
        <5> QED BY <2>5, <2>6, <4>2, <5>1 DEF outcome, VerifyMultiSignature, EntryOf
      <4>3. CASE i \in 1 .. Len(call[u].results)
        <5>1. call'[u].results[i] = call[u].results[i]
          BY <2>2, <2>3, <2>5, <4>3
        <5> QED BY <1>3, <2>5, <4>1, <4>3, <5>1 DEF Explained
      <4> QED BY <4>1, <4>2, <4>3
    <3> QED BY <2>1, <2>3, <2>5, <2>6, <3>1, <3>2 DEF Explained
  <2>8. call' = [call EXCEPT ![u] = call'[u]]
    BY <2>1 DEF TypeOK
  <2>9. AnswerOfResults(call'[u], answer'[u])
    BY <2>5 DEF AnswerOfResults
  <2> QED BY <1>4, <2>1, <2>5, <2>6, <2>7, <2>8, <2>9 DEF TypeOK
<1>7. CASE Answer(u)
  <2>1. /\ call' = [call EXCEPT ![u].pc = "returned"] /\ DOMAIN answer' = DOMAIN answer
        /\ \A v \in Verification \ {u} : answer'[v] = answer[v]
        /\ answer'[u] = [ok |-> FailedEntries(call[u]) = <<>>,
                         failed |-> FailedEntries(call[u]), err |-> OK]
        /\ Len(call[u].results) = Len(call[u].raw.signatures)
    BY <1>7 DEF Answer, TypeOK
  <2>2. /\ call'[u] \in Call /\ call'[u].pc = "returned" /\ call'[u].raw = call[u].raw
        /\ call'[u].results = call[u].results /\ call'[u].seen = call[u].seen
    BY <1>3, <2>1 DEF TypeOK, Call
  <2>3. Explained(call'[u])
    BY <1>3, <2>2 DEF Explained
  <2>4. AnswerOfResults(call'[u], answer'[u])
    <3>1. FailedEntries(call'[u]) = FailedEntries(call[u])
      BY <2>2 DEF FailedEntries
    <3> DEFINE F == FailedEntries(call[u])
               b == (F = <<>>)
    <3>2. answer'[u] = [ok |-> b, failed |-> F, err |-> OK]
      BY <2>1
    <3>3. answer'[u].failed = F /\ answer'[u].ok = b
      <4> HIDE DEF F, b
      <4> QED BY <3>2
    <3>4. Len(call'[u].results) = Len(call'[u].raw.signatures)
      BY <2>1, <2>2
    <3> HIDE DEF F
    <3>5. answer'[u].ok <=> F = <<>>
      BY <3>3, Zenon
    <3> QED BY <3>1, <3>3, <3>4, <3>5, Zenon DEF AnswerOfResults, F
  <2> QED BY <1>4, <2>1, <2>2, <2>3, <2>4 DEF TypeOK
<1> QED BY <1>5, <1>6, <1>7

LEMMA NextIInv == IInv /\ [Next]_vars => IInv'
<1> SUFFICES ASSUME IInv, [Next]_vars PROVE IInv'
  OBVIOUS
<1>1. CASE UNCHANGED vars
  BY <1>1 DEF IInv, TypeOK, OwnEntries, OwnLegacy, CallsExplained, AnswersOfResults,
              vars, document, verifications
<1> QED
  BY <1>1, DocumentSteps, SigningSteps, RegisterStep, VerificationSteps DEF Next

THEOREM InductiveInvariant == Spec => []IInv
BY InitIInv, NextIInv, PTL DEF Spec

-----------------------------------------------------------------------------
\* Types; in particular every digest a signer holds is free of signature fields.
THEOREM TypeCorrect == Spec => []TypeOK
<1>1. IInv => TypeOK
  BY DEF IInv
<1> QED BY <1>1, InductiveInvariant, PTL

\* Signatures made over one content verify for exactly that content, however the
\* document is signed, reordered and reformatted afterwards.
THEOREM SignaturesHold == Spec => []SignatureCoversContent
<1>1. IInv => SignatureCoversContent
  <2> SUFFICES ASSUME IInv, doc.text # NotJSON PROVE SignatureCoversContent
    BY DEF SignatureCoversContent
  <2>1. /\ Canonical[doc.text] \in Content
        /\ SigningDigest(doc) = DigestOf(Canonical[doc.text])
    BY DigestIsContent DEF IInv, TypeOK
  <2>2. ASSUME NEW i \in DOMAIN madeFor, madeFor[i] # NoSignature
        PROVE  VerifyMultiSignature(doc, doc.signatures[i], BuiltIn)
                 = IF madeFor[i] = Canonical[doc.text] THEN OK ELSE "ErrPayloadHashMismatch"
    <3>1. madeFor[i] \in Content
      BY <2>2 DEF IInv, TypeOK
    <3>2. PICK s \in Signers : doc.signatures[i] = SignMulti(s, DigestOf(madeFor[i]))
      BY <2>2 DEF IInv, OwnEntries
    <3> QED BY <2>1, <3>1, <3>2, SignThenVerify DEF VerifyMultiSignature
  <2>3. ASSUME legacyFor # NoSignature
        PROVE  VerifyLegacyEd25519(doc, LegacyKey) = OK <=> legacyFor = Canonical[doc.text]
    <3>1. legacyFor \in Content /\ doc.signature = SignLegacyEd25519(LegacyKey, DigestOf(legacyFor))
      BY <2>3 DEF IInv, TypeOK, OwnLegacy
    <3>2. doc.signature.key = LegacyKey /\ doc.signature.over = DigestOf(legacyFor)
      BY <3>1 DEF SignLegacyEd25519
    <3>3. doc.signature # NoSignature
      BY <3>1, SignersAssumption, NoSignatureAssumption
      DEF SignLegacyEd25519, LegacyValue, DigestOf, Digest
    <3> QED BY <2>1, <3>1, <3>2, <3>3, DigestsDiffer DEF VerifyLegacyEd25519, OK
  <2> QED BY <2>2, <2>3 DEF SignatureCoversContent, VerifyMultiEd25519
<1> QED BY <1>1, InductiveInvariant, PTL

\* Every result is what VerifyMultiSignature returns for its entry under a
\* registry of the time of the call.
THEOREM ResultsAreExplained == Spec => []ResultsExplained
<1>1. IInv => ResultsExplained
  BY DEF IInv, CallsExplained, Explained, ResultsExplained
<1> QED BY <1>1, InductiveInvariant, PTL

\* A mismatching payload hash, and only that, is reported as a mismatch.
THEOREM MismatchFirst == Spec => []MismatchReportedFirst
<1>1. IInv => MismatchReportedFirst
  <2> SUFFICES ASSUME IInv, NEW u \in Verification, NEW i \in DOMAIN call[u].results
               PROVE  call[u].results[i] = "ErrPayloadHashMismatch"
                        <=> call[u].raw.signatures[i].payloadHash # SigningDigest(call[u].raw)
    BY DEF MismatchReportedFirst
  <2>1. Explained(call[u]) /\ call[u].results \in Seq(Outcome)
    BY DEF IInv, CallsExplained, TypeOK, Call
  <2>2. call[u].raw.text # NotJSON
    BY <2>1 DEF Explained
  <2>3. PICK r \in call[u].seen :
          call[u].results[i]
            = VerifyEntryAgainstDigest(SigningDigest(call[u].raw), call[u].raw.signatures[i], r)
    BY <2>1, <2>2 DEF Explained, VerifyMultiSignature
  <2>4. r \in Registry /\ call[u].raw.signatures[i] \in Entry
    <3>1. /\ call[u].raw.signatures \in Seq(Entry) /\ call[u].seen \subseteq Registry
          /\ Len(call[u].results) <= Len(call[u].raw.signatures)
      BY <2>1 DEF Explained, IInv, TypeOK, Call, Document
    <3>2. i \in 1 .. Len(call[u].raw.signatures)
      BY <2>1, <3>1
    <3> QED BY <3>1, <3>2
  <2>5. Lookup(r, call[u].raw.signatures[i].alg) \in Verifier \cup {ErrUnsupportedAlg}
    BY <2>4, LookupType DEF Entry
  <2> QED
    BY <2>3, <2>5, VerifierOutcome, OutcomeAssumption DEF VerifyEntryAgainstDigest, OK
<1> QED BY <1>1, InductiveInvariant, PTL

(***************************************************************************)
(* While no verifier is registered, VerifyMultiSignaturesJSON answers ok   *)
(* exactly when every entry verifies, and reports those that do not,       *)
(* wherever in the array they are.                                         *)
(***************************************************************************)
THEOREM VerdictOfTheDocument == Spec => []VerdictIsOfTheDocument
<1>1. IInv => VerdictIsOfTheDocument
  <2> SUFFICES ASSUME IInv, NEW u \in Verification, NEW r \in call[u].seen,
                      call[u].pc = "returned", answer[u].err = OK, call[u].seen = {r}
               PROVE  LET failing == { e \in Members(call[u].raw.signatures) :
                                         VerifyMultiSignature(call[u].raw, e, r) # OK }
                      IN  /\ answer[u].ok <=> failing = {}
                          /\ Members(answer[u].failed) = failing
    BY DEF VerdictIsOfTheDocument
  <2> DEFINE sigs == call[u].raw.signatures
             results == call[u].results
             verdict(e) == VerifyMultiSignature(call[u].raw, e, r)
             failing == { e \in Members(sigs) : verdict(e) # OK }
  <2>1. Explained(call[u]) /\ AnswerOfResults(call[u], answer[u]) /\ call[u] \in Call
    BY DEF IInv, CallsExplained, AnswersOfResults, TypeOK
  <2>2. results \in Seq(Outcome) /\ sigs \in Seq(Entry) /\ Len(results) = Len(sigs)
    BY <2>1 DEF Call, Document, AnswerOfResults
  <2>3. \A i \in DOMAIN results : results[i] = verdict(sigs[i])
    BY <2>1 DEF Explained
  <2>4. DOMAIN results = DOMAIN sigs
    BY <2>2
  <2>5. FailedEntries(call[u]) \in Seq(Entry)
        /\ Members(FailedEntries(call[u]))
             = { sigs[m] : m \in { i \in DOMAIN results : results[i] # OK } }
    BY <2>2, FailedEntriesAre
  <2> HIDE DEF verdict, sigs, results
  <2>6. Members(FailedEntries(call[u])) = failing
    BY <2>3, <2>4, <2>5 DEF Members
  <2>7. /\ answer[u].failed = FailedEntries(call[u])
        /\ answer[u].ok <=> FailedEntries(call[u]) = <<>>
    BY <2>1 DEF AnswerOfResults
  <2>8. FailedEntries(call[u]) = <<>> <=> Members(FailedEntries(call[u])) = {}
    BY <2>5, NoMembers
  <2>9. /\ answer[u].ok <=> failing = {}
        /\ Members(answer[u].failed) = failing
    <3> HIDE DEF failing
    <3> QED BY <2>6, <2>7, <2>8, Zenon
  <2> QED BY <2>9 DEF failing, verdict, sigs
<1> QED BY <1>1, InductiveInvariant, PTL

=============================================================================
