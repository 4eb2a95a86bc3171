------------------------------ MODULE Envelope ------------------------------
(***************************************************************************)
(* One protocol envelope from its making to its verification:              *)
(* protocol/envelope.ts with versioning.ts, the canonical form of          *)
(* shared.ts, and the choice of a reducer in repository.ts.  Between       *)
(* signing and verifying an envelope is kept and carried as JSON, whose    *)
(* keys may change their order and of which one part may be damaged.       *)
(*                                                                         *)
(* Hashes and signatures are ideal: a hash is the record it was made of,   *)
(* a signature the key and the record it was made with.  A DID resolves to *)
(* the key of its agent.  The fields that nothing looks into (object id,   *)
(* event kind, subject, previous events) hold words.                       *)
(***************************************************************************)
EXTENDS Sequences, SequencesExt, Integers

CONSTANTS
  Signers,      \* agents; each DID has one key, called by the same name
  Words,        \* values of a field that nothing looks into
  ObjectKinds   \* the object kinds envelopes are made for

VARIABLES
  phase,      \* none, unsigned, signed, carried, verified
  envelope,   \* the envelope as it is now
  issued,     \* the envelope as it was signed                     (history)
  accepted    \* what verification said

envelopeVars == <<phase, envelope, issued, accepted>>

Legacy == "emporion.protocol"
LegacyVersion == "1"

FamilyOf(kind) ==
  CASE kind \in {"agent-profile", "feedback-credential-ref"} -> "emporion.identity"
    [] kind = "company" -> "emporion.company"
    [] kind \in {"product", "listing", "request", "offer", "bid", "agreement"} -> "emporion.market"
    [] kind \in {"contract", "evidence-bundle", "oracle-attestation", "dispute-case"} ->
         "emporion.contract"
    [] kind \in {"space", "space-membership", "message"} -> "emporion.messaging"
    [] OTHER -> "none"

IsObjectKind(kind) == FamilyOf(kind) # "none"

LatestVersion == "1.0"
Versions == {LatestVersion, "1.3", "2.0", "v1", LegacyVersion}

\* parseProtocolVersion: 0 stands for a version it refuses.
MajorOf(version) ==
  CASE version \in {"1.0", "1.3"} -> 1 [] version = "2.0" -> 2 [] OTHER -> 0

SupportedMajors(family) == {1}

\* resolveEnvelopeProtocolVersion: the major version, 0 where it throws.
ResolvedMajor(e) ==
  IF e.protocol = Legacy
  THEN IF e.version = LegacyVersion THEN 1 ELSE 0
  ELSE IF e.protocol = FamilyOf(e.objectKind) /\ MajorOf(e.version) \in SupportedMajors(e.protocol)
       THEN MajorOf(e.version) ELSE 0

\* The reducers applyToSnapshot chooses from: every family has those of version 1.
HasReducer(e) == IsObjectKind(e.objectKind) /\ ResolvedMajor(e) = 1

\* canonicalizeProtocolValue: an object is the set of its entries.
Canonical(object) == ToSet(object)

\* Faulty variant: a field of the envelope is left out of the record.
UnsignedRecord_NoAttachments(e) ==
  [protocol |-> e.protocol, version |-> e.version, objectKind |-> e.objectKind,
   words |-> e.words, actorDid |-> e.actorDid, issuedAt |-> e.issuedAt,
   payload |-> Canonical(e.payload), attachments |-> <<>>]

\* What is hashed and signed; lists keep their order.
UnsignedRecord(e) ==
  [protocol |-> e.protocol, version |-> e.version, objectKind |-> e.objectKind,
   words |-> e.words, actorDid |-> e.actorDid, issuedAt |-> e.issuedAt,
   payload |-> Canonical(e.payload), attachments |-> e.attachments]

\* A record with more fields than e has.
With(e, added) ==
  [f \in DOMAIN e \cup DOMAIN added |-> IF f \in DOMAIN e THEN e[f] ELSE added[f]]

EventId(e) == [hashOf |-> UnsignedRecord(e), damaged |-> FALSE]

SignedRecord(e) == [body |-> UnsignedRecord(e), eventId |-> e.eventId]

SoundAttachments(e) == \A i \in DOMAIN e.attachments : e.attachments[i] = "hash"

SoundShape(e) ==
  /\ IsObjectKind(e.objectKind)
  /\ ResolvedMajor(e) # 0
  /\ e.issuedAt = "iso"
  /\ SoundAttachments(e)
  /\ e.eventId = EventId(e)

-----------------------------------------------------------------------------

WordFields == {"objectId", "eventKind", "subjectId", "previousEventIds"}

Payloads == {<<>>, <<"k", "l">>}

NoEnvelope == [protocol |-> "none"]

EnvelopeInit ==
  /\ phase = "none" /\ accepted = FALSE
  /\ envelope = NoEnvelope /\ issued = NoEnvelope

\* createUnsignedEnvelope: the protocol and version default to the latest of the kind.
CreateUnsigned(kind, protocol, version, actor, issuedAt, payload, attachments, w) ==
  LET family == IF protocol = "default" THEN FamilyOf(kind) ELSE protocol IN
  /\ phase = "none" /\ phase' = "unsigned"
  /\ envelope' =
       [protocol |-> family,
        version |-> CASE version # "default" -> version
                      [] family = Legacy -> LegacyVersion
                      [] OTHER -> LatestVersion,
        objectKind |-> kind, words |-> [f \in WordFields |-> w], actorDid |-> actor,
        issuedAt |-> issuedAt, payload |-> payload, attachments |-> attachments]
  /\ UNCHANGED <<issued, accepted>>

\* signProtocolEnvelope looks at the attachments and the time, not at the version.
SignEnvelope(signer) ==
  LET withId == With(envelope, [eventId |-> EventId(envelope)]) IN
  /\ phase = "unsigned"
  /\ envelope.actorDid = signer
  /\ SoundAttachments(envelope) /\ envelope.issuedAt = "iso"
  /\ phase' = "signed"
  /\ envelope' = With(withId,
       [signerDid |-> signer, publicKey |-> signer,
        value |-> [key |-> signer, message |-> SignedRecord(withId), damaged |-> FALSE]])
  /\ issued' = envelope'
  /\ UNCHANGED accepted

Damage(e) ==
  \/ \E v \in Versions \ {e.version} : envelope' = [e EXCEPT !.version = v]
  \/ \E p \in {FamilyOf(k) : k \in ObjectKinds} \cup {Legacy} :
       p # e.protocol /\ envelope' = [e EXCEPT !.protocol = p]
  \/ \E k \in (ObjectKinds \cup {"nothing"}) \ {e.objectKind} : envelope' = [e EXCEPT !.objectKind = k]
  \/ \E f \in WordFields, w \in Words : w # e.words[f] /\ envelope' = [e EXCEPT !.words[f] = w]
  \/ \E a \in Signers \ {e.actorDid} :
       \/ envelope' = [e EXCEPT !.actorDid = a]
       \/ envelope' = [e EXCEPT !.signerDid = a]
       \/ envelope' = [e EXCEPT !.publicKey = a]
  \/ envelope' = [e EXCEPT !.issuedAt = "other"]
  \/ \E p \in Payloads \ {e.payload} : envelope' = [e EXCEPT !.payload = p]
  \/ envelope' = [e EXCEPT !.attachments = Append(@, "hash")]
  \/ envelope' = [e EXCEPT !.eventId.damaged = TRUE]
  \/ envelope' = [e EXCEPT !.value.damaged = TRUE]

\* Kept and carried: the order of keys is not promised, and one part may be damaged.
Carry ==
  /\ phase = "signed" /\ phase' = "carried"
  /\ \/ envelope' = [envelope EXCEPT !.payload = Reverse(@)]
     \/ Damage(envelope)
  /\ UNCHANGED <<issued, accepted>>

\* verifyProtocolEnvelopeSignature.
Verify ==
  /\ phase \in {"signed", "carried"} /\ phase' = "verified"
  /\ accepted' =
       /\ SoundShape(envelope)
       /\ envelope.publicKey = envelope.actorDid
       /\ envelope.value = [key |-> envelope.actorDid, message |-> SignedRecord(envelope),
                            damaged |-> FALSE]
  /\ UNCHANGED <<envelope, issued>>

EnvelopeNext ==
  \/ \E kind \in ObjectKinds, protocol \in {"default", Legacy} \cup {FamilyOf(k) : k \in ObjectKinds},
        version \in {"default"} \cup Versions, actor \in Signers, issuedAt \in {"iso", "other"},
        payload \in Payloads, attachments \in {<<>>, <<"hash">>, <<"blank">>}, w \in Words :
       CreateUnsigned(kind, protocol, version, actor, issuedAt, payload, attachments, w)
  \/ \E signer \in Signers : SignEnvelope(signer)
  \/ Carry
  \/ Verify

EnvelopeSpec == EnvelopeInit /\ [][EnvelopeNext]_envelopeVars

-----------------------------------------------------------------------------

\* The parts of an envelope that mean something: the signer's DID is said twice,
\* and nothing looks at the second.
Meaning(e) ==
  [record |-> <<e.protocol, e.version, e.objectKind, e.words, e.actorDid, e.issuedAt,
                Canonical(e.payload), e.attachments>>,
   signature |-> <<e.eventId, e.publicKey, e.value>>]

\* Verification accepts exactly the envelopes that are still what their actor
\* signed, whatever the order of their keys, and that some reducer takes: what
\* signing leaves unchecked (protocol and version), verification refuses, and
\* nothing it accepts is then without a reducer (signProtocolEnvelope,
\* verifyProtocolEnvelopeSignature, applyToSnapshot).
VerifiesWhatWasSigned ==
  phase = "verified" =>
    (accepted <=> (Meaning(envelope) = Meaning(issued) /\ HasReducer(issued)))
=============================================================================
