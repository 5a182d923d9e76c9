--------------------------- MODULE FieldEnvelope ---------------------------
(***************************************************************************)
(* Sealed fields: envelope.rs with the classifications of privacy.rs and   *)
(* the tombstones of tombstone.rs.  One envelope is sealed for a field of  *)
(* a record, or as its tombstone, in a wrapper that carries the record id; *)
(* it is written, read back, maybe filed under another place or            *)
(* damaged, while the field's classification changes and keys come and go; *)
(* then somebody opens it where it is.                                     *)
(*                                                                         *)
(* Bytes are numbers and the length of a component is one of them.  The    *)
(* cipher is external: what was sealed opens under the same key, nonce and *)
(* associated data, and under nothing else.                                *)
(***************************************************************************)
EXTENDS Naturals, Sequences

CONSTANTS
    Records,         \* record ids, as bytes
    Fields,          \* field ids, as bytes
    TombstoneField,  \* TOMBSTONE_FIELD_ID, which a field may be called as well
    Domains,         \* of PrivacyDomain, as numbers
    Keys, NoKey,     \* the key a process holds, if it is not locked
    MaxBytes,        \* MAX_CIPHERTEXT_BYTES
    Nothing

ASSUME EnvelopeAssumption ==
    /\ Records \subseteq Seq(Nat) /\ Fields \subseteq Seq(Nat)
    /\ TombstoneField \in Fields
    /\ Domains \subseteq Nat /\ 0 \in Domains
    /\ MaxBytes \in Nat /\ NoKey \notin Keys

Places ==
    [record : Records, field : Fields, purpose : {"RecordField"}] \cup
    [record : Records, field : {TombstoneField}, purpose : {"Tombstone"}]

Classifications ==
    [domain : Domains, sensitivity : {"Sensitive", "NonSensitive"},
     export : {"Denied", "Approved"}, ai : {"Denied", "Approved"}]

VARIABLES
    class,    \* the classification of the field group
    envelope, \* as it is stored: the record id in a tombstone's wrapper (for a field,
              \* that of its place), its wire form, and what it was sealed for
    filed,    \* the place it is stored at
    key,      \* the key the process holds
    answer    \* what the last call answered

vars == <<class, envelope, filed, key, answer>>

-----------------------------------------------------------------------------
(* privacy.rs                                                              *)

DefaultFor(domain) ==
    [domain |-> domain, sensitivity |-> "Sensitive", export |-> "Denied", ai |-> "Denied"]

NonSensitive(domain) == [DefaultFor(domain) EXCEPT !.sensitivity = "NonSensitive"]

ApproveExport(c) == [c EXCEPT !.export = "Approved"]

ApproveAi(c) == [c EXCEPT !.ai = "Approved"]

EligibleForIndex(c, approved) == c.sensitivity = "NonSensitive" /\ approved

\* The classification as JSON: the version, then its fields in order.
PrivacyBytes(c) ==
    <<1, c.domain,
      IF c.sensitivity = "Sensitive" THEN 0 ELSE 1,
      IF c.export = "Denied" THEN 0 ELSE 1,
      IF c.ai = "Denied" THEN 0 ELSE 1>>

-----------------------------------------------------------------------------
(* The associated data.                                                    *)

\* Mutant: no length before the bytes.
ComponentBare(bytes) == bytes

Component(bytes) == <<Len(bytes)>> \o bytes

PurposeBytes(purpose) == IF purpose = "RecordField" THEN <<3>> ELSE <<4>>

TombstonePlace(record) ==
    [record |-> record, field |-> TombstoneField, purpose |-> "Tombstone"]

\* The context of a field, and of a tombstone, which is always ordinary,
\* sensitive and denied.
ContextOf(place, c) ==
    [place |-> place,
     privacy |-> IF place.purpose = "Tombstone" THEN DefaultFor(0) ELSE c]

Aad(context) ==
    Component(context.place.record) \o Component(context.place.field) \o
    Component(PrivacyBytes(context.privacy)) \o Component(PurposeBytes(context.place.purpose))

-----------------------------------------------------------------------------

\* What deserialization takes.
Fits(size) == size <= MaxBytes

WireIsValid(wire) ==
    /\ wire.version = 1
    /\ wire.lengths = "exact"
    /\ Fits(wire.size)

\* The wrapper a tombstone is written in.
TombstoneIsValid(wire) == wire.wrapper = 1

\* decrypt_field on what deserialization returned.
OpenVerdict(context) ==
    IF ~ WireIsValid(envelope) THEN "InvalidEnvelope"
    ELSE IF key = NoKey THEN "KeyLocked"
    ELSE IF envelope.key = key /\ envelope.aad = Aad(context) /\ envelope.intact THEN "Opened"
    ELSE "AuthenticationFailed"

Init ==
    /\ class \in {DefaultFor(domain) : domain \in Domains}
    /\ envelope = Nothing
    /\ filed = Nothing
    /\ key = NoKey
    /\ answer = "none"

Classify ==
    /\ \E domain \in Domains : class' \in {DefaultFor(domain), NonSensitive(domain)}
    /\ answer' = "none"
    /\ UNCHANGED <<envelope, filed, key>>

\* A classification that was written before is read back, with the approvals it
\* had; of another version, it is refused.
ReadClassification ==
    /\ \/ class' \in Classifications /\ answer' = "none"
       \/ UNCHANGED class /\ answer' = "InvalidClassification"
    /\ UNCHANGED <<envelope, filed, key>>

Approve ==
    /\ class' \in {ApproveExport(class), ApproveAi(class)}
    /\ answer' = "none"
    /\ UNCHANGED <<envelope, filed, key>>

Index ==
    /\ \E approved \in BOOLEAN :
         answer' = IF EligibleForIndex(class, approved) THEN "Indexed" ELSE "NotIndexed"
    /\ UNCHANGED <<class, envelope, filed, key>>

\* Authentication, and a lock or another process.
ChangeKey ==
    /\ key' \in Keys \cup {NoKey}
    /\ answer' = "none"
    /\ UNCHANGED <<class, envelope, filed>>

\* encrypt_field.
Encrypt(place) ==
    /\ envelope = Nothing
    /\ \E size \in 0..(MaxBytes + 1) :
         IF size > MaxBytes \/ key = NoKey
         THEN /\ answer' = IF size > MaxBytes THEN "FieldTooLarge" ELSE "KeyLocked"
              /\ UNCHANGED <<envelope, filed>>
         ELSE /\ envelope' = [wrapper |-> 1, carried |-> place.record, version |-> 1,
                              lengths |-> "exact", size |-> size, key |-> key,
                              aad |-> Aad(ContextOf(place, class)),
                              intact |-> TRUE, origin |-> ContextOf(place, class)]
              /\ filed' = place
              /\ answer' = "none"
    /\ UNCHANGED <<class, key>>

SealField(place) == place.purpose = "RecordField" /\ Encrypt(place)

\* EncryptedTombstone::seal; its envelope is written inside a wrapper of its own.
SealTombstone(record) == Encrypt(TombstonePlace(record))

\* The envelope is filed under another place: as a tombstone in its wrapper, or in
\* one that carries another record.
Misfile(place) ==
    /\ envelope # Nothing
    /\ filed' = place
    /\ \E record \in (IF place.purpose = "Tombstone" THEN Records ELSE {place.record}) :
         envelope' = [envelope EXCEPT !.carried = record]
    /\ answer' = "none"
    /\ UNCHANGED <<class, key>>

Undamaged ==
    /\ envelope.version = 1 /\ envelope.lengths = "exact" /\ envelope.intact
    /\ filed.purpose = "Tombstone" => envelope.wrapper = 1

\* It is cut short, of another version, or its bytes change.
Damage ==
    /\ envelope # Nothing
    /\ Undamaged /\ envelope.wrapper = 1
    /\ envelope' \in {[envelope EXCEPT !.wrapper = 2],
                      [envelope EXCEPT !.version = 2],
                      [envelope EXCEPT !.lengths = "short"],
                      [envelope EXCEPT !.intact = FALSE]}
    /\ answer' = "none"
    /\ UNCHANGED <<class, filed, key>>

\* Deserialization and decrypt_field.
OpenField ==
    /\ envelope # Nothing
    /\ filed.purpose = "RecordField"
    /\ answer' = OpenVerdict(ContextOf(filed, class))
    /\ UNCHANGED <<class, envelope, filed, key>>

\* The wrapper's version is checked, then it is opened as the tombstone of the
\* record that the wrapper carries, wherever it is filed.
OpenTombstone ==
    /\ envelope # Nothing
    /\ filed.purpose = "Tombstone"
    /\ answer' = IF ~ TombstoneIsValid(envelope) THEN "InvalidTombstone"
                 ELSE OpenVerdict(ContextOf(TombstonePlace(envelope.carried), class))
    /\ UNCHANGED <<class, envelope, filed, key>>

Next ==
    \/ Classify \/ ReadClassification \/ Approve \/ Index \/ ChangeKey
    \/ Damage \/ OpenField \/ OpenTombstone
    \/ \E place \in Places : SealField(place) \/ Misfile(place)
    \/ \E record \in Records : SealTombstone(record)

Spec == Init /\ [][Next]_vars

-----------------------------------------------------------------------------
(* Properties.                                                             *)

\* Undamaged, under the key it was sealed with, and for what it was sealed for.
BelongsTo(context) ==
    /\ Undamaged
    /\ envelope.key = key
    /\ envelope.origin = context

\* A field opens for the record, field and classification under which it was
\* sealed, and a tombstone for the record its wrapper names, under the same key,
\* and for nothing else: two contexts never share their bytes, a field is no
\* tombstone, and a field that is classified anew has to be sealed anew.
\* Whatever was sealed can be read back.
OpensExactlyWhereSealed ==
    [][/\ OpenField => (answer' = "Opened" <=> BelongsTo(ContextOf(filed, class)))
       /\ OpenTombstone =>
            (answer' = "Opened" <=> BelongsTo(ContextOf(TombstonePlace(envelope.carried), class)))]_vars
=============================================================================
