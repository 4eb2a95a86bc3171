--------------------------- MODULE EnvelopeProofs ---------------------------
(***************************************************************************)
(* Verification accepts what was signed and nothing else (protocol/        *)
(* envelope.ts), for any agents, object kinds and field values.            *)
(*                                                                         *)
(* The argument: the signed value says who signed which record, the id     *)
(* included, and carrying an envelope leaves the value as it is or damages *)
(* it (Carried).  So a value that verification finds right for the         *)
(* envelope at hand is right for the envelope that was issued, and their   *)
(* records are the same.                                                   *)
(***************************************************************************)
EXTENDS Envelope, TLAPS

UnsignedFields ==
  {"protocol", "version", "objectKind", "words", "actorDid", "issuedAt", "payload", "attachments"}

SignedFields == UnsignedFields \cup {"eventId", "signerDid", "publicKey", "value"}

\* The value that signer puts under envelope e.
ValueOf(signer, e) == [key |-> signer, message |-> SignedRecord(e), damaged |-> FALSE]

\* What signing makes sure of.
Issued(e) ==
  /\ DOMAIN e = SignedFields
  /\ SoundAttachments(e) /\ e.issuedAt = "iso"
  /\ e.eventId = EventId(e)
  /\ e.publicKey = e.actorDid
  /\ e.value = ValueOf(e.actorDid, e)

\* What carrying an envelope leaves of its value.
Carried(e, i) == e.value = i.value \/ e.value.damaged = TRUE

EnvelopeInv ==
  /\ phase = "unsigned" => DOMAIN envelope = UnsignedFields
  /\ phase \in {"signed", "carried", "verified"} => Issued(issued) /\ Carried(envelope, issued)
  /\ phase = "signed" => envelope = issued
  /\ VerifiesWhatWasSigned

\* Records are the same exactly if all that is hashed of them is.
LEMMA SameRecord ==
  ASSUME NEW e, NEW i
  PROVE  UnsignedRecord(e) = UnsignedRecord(i) <=>
           /\ e.protocol = i.protocol /\ e.version = i.version /\ e.objectKind = i.objectKind
           /\ e.words = i.words /\ e.actorDid = i.actorDid /\ e.issuedAt = i.issuedAt
           /\ Canonical(e.payload) = Canonical(i.payload) /\ e.attachments = i.attachments
BY DEF UnsignedRecord

\* Envelopes mean the same exactly if their records and signatures are the same.
LEMMA SameMeaning ==
  ASSUME NEW e, NEW i
  PROVE  Meaning(e) = Meaning(i) <=>
           /\ UnsignedRecord(e) = UnsignedRecord(i)
           /\ e.eventId = i.eventId /\ e.publicKey = i.publicKey /\ e.value = i.value
BY SameRecord DEF Meaning

\* A version is refused or has a reducer.
LEMMA MajorIsOne == ASSUME NEW e PROVE ResolvedMajor(e) \in {0, 1}
BY DEF ResolvedMajor, SupportedMajors

\* What verification says of an envelope that was carried.
LEMMA VerificationIsRight ==
  ASSUME NEW e, NEW i, Issued(i), Carried(e, i)
  PROVE  (SoundShape(e) /\ e.publicKey = e.actorDid /\ e.value = ValueOf(e.actorDid, e))
           <=> (Meaning(e) = Meaning(i) /\ HasReducer(i))
<1>1. ASSUME SoundShape(e), e.publicKey = e.actorDid, e.value = ValueOf(e.actorDid, e)
      PROVE  Meaning(e) = Meaning(i) /\ HasReducer(i)
  <2>1. e.value = i.value
    <3>1. e.value.damaged = FALSE
      BY <1>1 DEF ValueOf
    <3>2. QED
      BY <3>1 DEF Carried
  <2>2. SignedRecord(e) = SignedRecord(i) /\ e.actorDid = i.actorDid
    BY <1>1, <2>1 DEF Issued, ValueOf
  <2>3. UnsignedRecord(e) = UnsignedRecord(i) /\ e.eventId = i.eventId
    BY <2>2 DEF SignedRecord
  <2>4. e.publicKey = i.publicKey
    BY <1>1, <2>2 DEF Issued
  <2>5. Meaning(e) = Meaning(i)
    BY <2>1, <2>3, <2>4, SameMeaning
  <2>6. HasReducer(e)
    BY <1>1, MajorIsOne DEF SoundShape, HasReducer
  <2>7. e.protocol = i.protocol /\ e.version = i.version /\ e.objectKind = i.objectKind
    BY <2>3, SameRecord
  <2>8. HasReducer(i)
    BY <2>6, <2>7 DEF HasReducer, ResolvedMajor
  <2>9. QED
    BY <2>5, <2>8
<1>2. ASSUME Meaning(e) = Meaning(i), HasReducer(i)
      PROVE  SoundShape(e) /\ e.publicKey = e.actorDid /\ e.value = ValueOf(e.actorDid, e)
  <2>1. UnsignedRecord(e) = UnsignedRecord(i) /\ e.eventId = i.eventId /\ e.publicKey = i.publicKey /\ e.value = i.value
    BY <1>2, SameMeaning
  <2>2. /\ e.protocol = i.protocol /\ e.version = i.version /\ e.objectKind = i.objectKind
        /\ e.actorDid = i.actorDid /\ e.issuedAt = i.issuedAt /\ e.attachments = i.attachments
    BY <2>1, SameRecord
  <2>3. EventId(e) = EventId(i) /\ SignedRecord(e) = SignedRecord(i)
    BY <2>1 DEF EventId, SignedRecord
  <2>4. e.publicKey = e.actorDid /\ e.value = ValueOf(e.actorDid, e)
    BY <2>1, <2>2, <2>3 DEF Issued, ValueOf
  <2>5. SoundAttachments(e) /\ e.issuedAt = "iso" /\ e.eventId = EventId(e)
    BY <2>1, <2>2, <2>3 DEF Issued, SoundAttachments
  <2>6. IsObjectKind(e.objectKind) /\ ResolvedMajor(e) # 0
    BY <1>2, <2>2 DEF HasReducer, ResolvedMajor
  <2>7. QED
    BY <2>4, <2>5, <2>6 DEF SoundShape
<1>3. QED
  BY <1>1, <1>2

\* Signing adds the id of the record and a value over both.
LEMMA SigningIssues ==
  ASSUME EnvelopeInv, NEW signer, SignEnvelope(signer)
  PROVE  Issued(issued') /\ issued' = envelope'
<1> DEFINE w == With(envelope, [eventId |-> EventId(envelope)])
           v == [signerDid |-> signer, publicKey |-> signer, value |-> ValueOf(signer, w)]
<1>1. /\ DOMAIN envelope = UnsignedFields /\ envelope.actorDid = signer
      /\ SoundAttachments(envelope) /\ envelope.issuedAt = "iso"
      /\ envelope' = With(w, v) /\ issued' = envelope'
  BY DEF SignEnvelope, EnvelopeInv, ValueOf
<1>2. /\ DOMAIN w = UnsignedFields \cup {"eventId"} /\ w.eventId = EventId(envelope)
      /\ \A f \in UnsignedFields : w[f] = envelope[f]
  BY <1>1 DEF With, UnsignedFields
<1> HIDE DEF w
<1>3. /\ DOMAIN envelope' = SignedFields
      /\ envelope'.publicKey = signer /\ envelope'.value = ValueOf(signer, w)
      /\ \A f \in UnsignedFields \cup {"eventId"} : envelope'[f] = w[f]
  BY <1>1, <1>2 DEF With, UnsignedFields, SignedFields
<1>4. /\ envelope'.protocol = envelope.protocol /\ envelope'.version = envelope.version
      /\ envelope'.objectKind = envelope.objectKind /\ envelope'.words = envelope.words
      /\ envelope'.actorDid = envelope.actorDid /\ envelope'.issuedAt = envelope.issuedAt
      /\ envelope'.payload = envelope.payload /\ envelope'.attachments = envelope.attachments
  BY <1>2, <1>3 DEF UnsignedFields
<1>5. /\ w.protocol = envelope.protocol /\ w.version = envelope.version
      /\ w.objectKind = envelope.objectKind /\ w.words = envelope.words
      /\ w.actorDid = envelope.actorDid /\ w.issuedAt = envelope.issuedAt
      /\ w.payload = envelope.payload /\ w.attachments = envelope.attachments
  BY <1>2 DEF UnsignedFields
<1>6. UnsignedRecord(envelope') = UnsignedRecord(envelope) /\ UnsignedRecord(w) = UnsignedRecord(envelope)
  BY <1>4, <1>5, SameRecord
<1>7. envelope'.eventId = EventId(envelope)
  BY <1>2, <1>3
<1>8. EventId(envelope') = EventId(envelope) /\ SignedRecord(envelope') = SignedRecord(w)
  BY <1>2, <1>6, <1>7 DEF EventId, SignedRecord
<1>9. SoundAttachments(envelope')
  BY <1>1, <1>4 DEF SoundAttachments
<1>10. QED
  BY <1>1, <1>3, <1>4, <1>7, <1>8, <1>9 DEF Issued, ValueOf

\* Reordered keys and damage elsewhere leave the value alone.
LEMMA CarryingShows ==
  ASSUME EnvelopeInv, Carry
  PROVE  Carried(envelope', issued)
<1>1. Issued(envelope) /\ envelope = issued
  BY DEF Carry, EnvelopeInv
<1>2. "value" \in DOMAIN envelope /\ "damaged" \in DOMAIN envelope.value
  BY <1>1 DEF Issued, SignedFields, ValueOf
<1>3. ASSUME NEW f, f # "value", NEW x, envelope' = [envelope EXCEPT ![f] = x]
      PROVE  envelope'.value = envelope.value
  BY <1>2, <1>3
<1>4. CASE Damage(envelope)
  <2>1. CASE envelope' = [envelope EXCEPT !.value.damaged = TRUE]
    BY <1>2, <2>1 DEF Carried
  <2>2. CASE envelope' # [envelope EXCEPT !.value.damaged = TRUE]
    <3>1. envelope'.value = envelope.value
      BY <1>2, <1>4, <2>2 DEF Damage
    <3>2. QED
      BY <1>1, <3>1 DEF Carried
  <2>3. QED
    BY <2>1, <2>2
<1>5. CASE envelope' = [envelope EXCEPT !.payload = Reverse(@)]
  BY <1>1, <1>2, <1>5 DEF Carried
<1>6. QED
  BY <1>4, <1>5 DEF Carry

\* The inductive invariant.
THEOREM EnvelopeCorrect == EnvelopeSpec => []EnvelopeInv
<1>1. EnvelopeInit => EnvelopeInv
  BY DEF EnvelopeInit, EnvelopeInv, VerifiesWhatWasSigned
<1>2. EnvelopeInv /\ [EnvelopeNext]_envelopeVars => EnvelopeInv'
  <2>1. SUFFICES ASSUME EnvelopeInv, [EnvelopeNext]_envelopeVars PROVE EnvelopeInv'
    OBVIOUS
  <2>2. ASSUME NEW kind, NEW protocol, NEW version, NEW actor, NEW issuedAt, NEW payload, NEW attachments, NEW w,
               CreateUnsigned(kind, protocol, version, actor, issuedAt, payload, attachments, w)
        PROVE  EnvelopeInv'
    BY <2>2 DEF CreateUnsigned, EnvelopeInv, VerifiesWhatWasSigned, UnsignedFields
  <2>3. ASSUME NEW signer, SignEnvelope(signer) PROVE EnvelopeInv'
    <3>1. phase' = "signed" /\ Issued(issued') /\ issued' = envelope'
      BY <2>1, <2>3, SigningIssues DEF SignEnvelope
    <3>2. QED
      BY <3>1 DEF EnvelopeInv, VerifiesWhatWasSigned, Carried
  <2>4. CASE Carry
    <3>1. phase = "signed" /\ phase' = "carried" /\ issued' = issued /\ Carried(envelope', issued)
      BY <2>1, <2>4, CarryingShows DEF Carry
    <3>2. QED
      BY <2>1, <3>1 DEF EnvelopeInv, VerifiesWhatWasSigned
  <2>5. CASE Verify
    <3>1. /\ phase \in {"signed", "carried"} /\ phase' = "verified" /\ UNCHANGED <<envelope, issued>>
          /\ accepted' = (SoundShape(envelope) /\ envelope.publicKey = envelope.actorDid
                            /\ envelope.value = ValueOf(envelope.actorDid, envelope))
      BY <2>5 DEF Verify, ValueOf
    <3>2. Issued(issued) /\ Carried(envelope, issued)
      BY <2>1, <3>1 DEF EnvelopeInv
    <3>3. accepted' <=> (Meaning(envelope) = Meaning(issued) /\ HasReducer(issued))
      BY <3>1, <3>2, VerificationIsRight
    <3>4. QED
      BY <3>1, <3>2, <3>3 DEF EnvelopeInv, VerifiesWhatWasSigned
  <2>6. CASE UNCHANGED envelopeVars
    BY <2>1, <2>6 DEF EnvelopeInv, VerifiesWhatWasSigned, envelopeVars
  <2>7. QED
    BY <2>1, <2>2, <2>3, <2>4, <2>5, <2>6 DEF EnvelopeNext
<1>3. QED
  BY <1>1, <1>2, PTL DEF EnvelopeSpec

\* Verification accepts exactly what was signed and has a reducer, whatever became
\* of the envelope in between.
THEOREM AcceptedWasSigned == EnvelopeSpec => []VerifiesWhatWasSigned
<1>1. EnvelopeInv => VerifiesWhatWasSigned
  BY DEF EnvelopeInv
<1>2. QED
  BY <1>1, EnvelopeCorrect, PTL
=============================================================================
