------------------------- MODULE FieldEnvelope_proof -------------------------
(***************************************************************************)
(* Theorems about FieldEnvelope, for every set of record ids, field ids,   *)
(* domains and keys, of any lengths, and every limit on a ciphertext.      *)
(***************************************************************************)
EXTENDS FieldEnvelope, SequenceTheorems, TLAPS

-----------------------------------------------------------------------------
(* The inductive invariant.                                                *)

Contexts == [place : Places, privacy : Classifications]

Envelopes ==
    [wrapper : {1, 2}, carried : Records, version : {1, 2}, lengths : {"exact", "short"},
     size : 0..MaxBytes, key : Keys, aad : {Aad(c) : c \in Contexts}, intact : BOOLEAN, origin : Contexts]

\* An envelope is bound to what it was sealed for, whatever became of it since.
Sealed ==
    /\ envelope \in Envelopes
    /\ envelope.aad = Aad(envelope.origin)
    /\ filed \in Places

IInv ==
    /\ class \in Classifications
    /\ key \in Keys \cup {NoKey}
    /\ envelope # Nothing => Sealed

-----------------------------------------------------------------------------
(* The associated data.                                                    *)

\* What a concatenation has where.
LEMMA ConcatFacts ==
    ASSUME NEW s \in Seq(Nat), NEW t \in Seq(Nat)
    PROVE  /\ s \o t \in Seq(Nat)
           /\ Len(s \o t) = Len(s) + Len(t)
           /\ \A i \in 1..Len(s) : (s \o t)[i] = s[i]
           /\ \A i \in 1..Len(t) : (s \o t)[Len(s) + i] = t[i]
OBVIOUS

\* The length comes first, then the bytes, then what follows.
LEMMA ComponentFacts ==
    ASSUME NEW c \in Seq(Nat), NEW r \in Seq(Nat)
    PROVE  /\ Component(c) \in Seq(Nat)
           /\ (Component(c) \o r)[1] = Len(c)
           /\ Len(Component(c) \o r) = Len(c) + 1 + Len(r)
           /\ \A i \in 1..Len(c) : (Component(c) \o r)[1 + i] = c[i]
           /\ \A i \in 1..Len(r) : (Component(c) \o r)[1 + Len(c) + i] = r[i]
<1> DEFINE l == <<Len(c)>>
<1>1. l \in Seq(Nat) /\ Len(l) = 1 /\ l[1] = Len(c) /\ Len(c) \in Nat /\ Len(r) \in Nat
    OBVIOUS
<1> HIDE DEF l
<1>2. /\ l \o c \in Seq(Nat) /\ Len(l \o c) = 1 + Len(c)
      /\ (l \o c)[1] = Len(c)
      /\ \A i \in 1..Len(c) : (l \o c)[1 + i] = c[i]
    <2>1. /\ l \o c \in Seq(Nat) /\ Len(l \o c) = Len(l) + Len(c)
          /\ \A i \in 1..Len(l) : (l \o c)[i] = l[i]
          /\ \A i \in 1..Len(c) : (l \o c)[Len(l) + i] = c[i]
        BY <1>1, ConcatFacts
    <2>2. 1 \in 1..Len(l)
        BY <1>1
    <2>3. (l \o c)[1] = Len(c)
        BY <1>1, <2>1, <2>2
    <2> QED BY <1>1, <2>1, <2>3
<1>3. Component(c) = l \o c
    BY DEF Component, l
<1> DEFINE k == l \o c
<1>4. /\ k \in Seq(Nat) /\ Len(k) = 1 + Len(c) /\ k[1] = Len(c)
      /\ \A i \in 1..Len(c) : k[1 + i] = c[i]
    BY <1>2
<1> HIDE DEF k
<1>5. /\ Len(k \o r) = Len(k) + Len(r)
      /\ \A i \in 1..Len(k) : (k \o r)[i] = k[i]
      /\ \A i \in 1..Len(r) : (k \o r)[Len(k) + i] = r[i]
    BY <1>4, ConcatFacts
<1>6. 1 \in 1..Len(k) /\ \A i \in 1..Len(c) : 1 + i \in 1..Len(k)
    BY <1>1, <1>4
<1>7. \A i \in 1..Len(r) : (k \o r)[1 + Len(c) + i] = r[i]
    BY <1>4, <1>5
<1>8. Len(k \o r) = Len(c) + 1 + Len(r) /\ (k \o r)[1] = Len(c)
    BY <1>1, <1>4, <1>5, <1>6
<1>9. \A i \in 1..Len(c) : (k \o r)[1 + i] = c[i]
    BY <1>4, <1>5, <1>6
<1> QED BY <1>3, <1>4, <1>7, <1>8, <1>9 DEF k

\* Concatenation by a name: the rest needs only the facts that follow.
Then(s, t) == s \o t

LEMMA ThenIsSeq == \A s, t \in Seq(Nat) : Then(s, t) \in Seq(Nat)
BY DEF Then

LEMMA ThenIsAssociative ==
    \A s, t, u \in Seq(Nat) : Then(Then(s, t), u) = Then(s, Then(t, u))
<1> SUFFICES ASSUME NEW s \in Seq(Nat), NEW t \in Seq(Nat), NEW u \in Seq(Nat)
             PROVE  Then(Then(s, t), u) = Then(s, Then(t, u))
    OBVIOUS
<1> QED BY DEF Then

\* A component in front of other bytes can be told from them: its length is
\* where the reader expects it.
LEMMA ComponentIsPrefixFree ==
    \A a, b, s, t \in Seq(Nat) :
        Then(Component(a), s) = Then(Component(b), t) => a = b /\ s = t
<1> SUFFICES ASSUME NEW a \in Seq(Nat), NEW b \in Seq(Nat), NEW s \in Seq(Nat), NEW t \in Seq(Nat),
                    Then(Component(a), s) = Then(Component(b), t)
             PROVE  a = b /\ s = t
    OBVIOUS
<1>0. Component(a) \o s = Component(b) \o t
    BY DEF Then
<1> DEFINE u == Component(a) \o s
<1>1. /\ u[1] = Len(a) /\ Len(u) = Len(a) + 1 + Len(s)
      /\ \A i \in 1..Len(a) : u[1 + i] = a[i]
      /\ \A i \in 1..Len(s) : u[1 + Len(a) + i] = s[i]
    BY ComponentFacts
<1>2. /\ u[1] = Len(b) /\ Len(u) = Len(b) + 1 + Len(t)
      /\ \A i \in 1..Len(b) : u[1 + i] = b[i]
      /\ \A i \in 1..Len(t) : u[1 + Len(b) + i] = t[i]
    <2> DEFINE v == Component(b) \o t
    <2>1. /\ v[1] = Len(b) /\ Len(v) = Len(b) + 1 + Len(t)
          /\ \A i \in 1..Len(b) : v[1 + i] = b[i]
          /\ \A i \in 1..Len(t) : v[1 + Len(b) + i] = t[i]
        BY ComponentFacts
    <2>2. u = v
        BY <1>0
    <2> HIDE DEF u, v
    <2> QED BY <2>1, <2>2
<1> HIDE DEF u
<1>3. Len(a) = Len(b) /\ Len(s) = Len(t)
    <2>1. Len(a) \in Nat /\ Len(b) \in Nat /\ Len(s) \in Nat /\ Len(t) \in Nat
        OBVIOUS
    <2> QED BY <1>1, <1>2, <2>1
<1>4. \A i \in 1..Len(a) : a[i] = b[i]
    BY <1>1, <1>2, <1>3
<1>5. \A i \in 1..Len(s) : s[i] = t[i]
    BY <1>1, <1>2, <1>3
<1>6. a = b
    BY <1>3, <1>4, SeqEqual
<1>7. s = t
    BY <1>3, <1>5, SeqEqual
<1> QED BY <1>6, <1>7

LEMMA ContextBytes ==
    ASSUME NEW c \in Contexts
    PROVE  /\ c.place.record \in Seq(Nat) /\ c.place.field \in Seq(Nat)
           /\ PrivacyBytes(c.privacy) \in Seq(Nat) /\ PurposeBytes(c.place.purpose) \in Seq(Nat)
           /\ Component(c.place.record) \in Seq(Nat) /\ Component(c.place.field) \in Seq(Nat)
           /\ Component(PrivacyBytes(c.privacy)) \in Seq(Nat)
           /\ Component(PurposeBytes(c.place.purpose)) \in Seq(Nat)
<1>1. c.place.record \in Seq(Nat) /\ c.place.field \in Seq(Nat)
    BY EnvelopeAssumption DEF Contexts, Places
<1>2. PrivacyBytes(c.privacy) \in Seq(Nat)
    <2>1. c.privacy.domain \in Nat
        BY EnvelopeAssumption DEF Contexts, Classifications
    <2> QED BY <2>1 DEF PrivacyBytes
<1>3. PurposeBytes(c.place.purpose) \in Seq(Nat)
    BY DEF PurposeBytes
<1>4. ASSUME NEW b \in Seq(Nat) PROVE Component(b) \in Seq(Nat)
    BY LenProperties, ConcatProperties DEF Component
<1> QED BY <1>1, <1>2, <1>3, <1>4

\* The classification and the purpose are determined by their bytes.
LEMMA PrivacyBytesInjective ==
    ASSUME NEW c \in Classifications, NEW d \in Classifications, PrivacyBytes(c) = PrivacyBytes(d)
    PROVE  c = d
<1>1. /\ c.domain = d.domain
      /\ (IF c.sensitivity = "Sensitive" THEN 0 ELSE 1) = (IF d.sensitivity = "Sensitive" THEN 0 ELSE 1)
      /\ (IF c.export = "Denied" THEN 0 ELSE 1) = (IF d.export = "Denied" THEN 0 ELSE 1)
      /\ (IF c.ai = "Denied" THEN 0 ELSE 1) = (IF d.ai = "Denied" THEN 0 ELSE 1)
    BY DEF PrivacyBytes
<1>2. c.sensitivity = d.sensitivity /\ c.export = d.export /\ c.ai = d.ai
    BY <1>1 DEF Classifications
<1> QED BY <1>1, <1>2 DEF Classifications

LEMMA PurposeBytesInjective ==
    ASSUME NEW p \in Places, NEW q \in Places, PurposeBytes(p.purpose) = PurposeBytes(q.purpose)
    PROVE  p.purpose = q.purpose
<1>1. <<3>> # <<4>>
    OBVIOUS
<1>2. p.purpose \in {"RecordField", "Tombstone"} /\ q.purpose \in {"RecordField", "Tombstone"}
    BY DEF Places
<1> QED BY <1>1, <1>2 DEF PurposeBytes

Components(r, f, p, u) == Component(r) \o Component(f) \o Component(p) \o Component(u)

\* Four components, one after the other, are a component and the other three.
LEMMA ComponentsNested ==
    ASSUME NEW a \in Seq(Nat), NEW b \in Seq(Nat), NEW c \in Seq(Nat), NEW d \in Seq(Nat)
    PROVE  Components(a, b, c, d)
             = Then(Component(a), Then(Component(b), Then(Component(c), Component(d))))
<1>1. \A x \in Seq(Nat) : Component(x) \in Seq(Nat)
    BY ComponentFacts
<1>2. Components(a, b, c, d)
        = Then(Then(Then(Component(a), Component(b)), Component(c)), Component(d))
    BY DEF Then, Components
<1>3. Then(Component(a), Component(b)) \in Seq(Nat) /\ Then(Component(c), Component(d)) \in Seq(Nat)
    BY <1>1, ThenIsSeq
<1>4. Then(Then(Then(Component(a), Component(b)), Component(c)), Component(d))
        = Then(Then(Component(a), Component(b)), Then(Component(c), Component(d)))
    BY <1>1, <1>3, ThenIsAssociative
<1>5. Then(Then(Component(a), Component(b)), Then(Component(c), Component(d)))
        = Then(Component(a), Then(Component(b), Then(Component(c), Component(d))))
    <2> DEFINE rest == Then(Component(c), Component(d))
    <2>1. Component(a) \in Seq(Nat) /\ Component(b) \in Seq(Nat) /\ rest \in Seq(Nat)
        BY <1>1, <1>3
    <2> HIDE DEF rest
    <2>2. Then(Then(Component(a), Component(b)), rest) = Then(Component(a), Then(Component(b), rest))
        BY <2>1, ThenIsAssociative
    <2> QED BY <2>2 DEF rest
<1> QED BY <1>2, <1>4, <1>5

\* FieldContext::aad gives no two contexts the same bytes, however their ids run
\* into each other: each component is preceded by its length.
THEOREM AadIsInjective ==
    ASSUME NEW c \in Contexts, NEW d \in Contexts, Aad(c) = Aad(d)
    PROVE  c = d
<1> DEFINE r == c.place.record
           s == d.place.record
           f == c.place.field
           g == d.place.field
           p == PrivacyBytes(c.privacy)
           q == PrivacyBytes(d.privacy)
           u == PurposeBytes(c.place.purpose)
           v == PurposeBytes(d.place.purpose)
<1>1. r = s /\ f = g /\ p = q /\ u = v
    <2>1. Components(r, f, p, u) = Components(s, g, q, v)
        BY DEF Aad, Components
    <2>2. r \in Seq(Nat) /\ f \in Seq(Nat) /\ p \in Seq(Nat) /\ u \in Seq(Nat)
        BY ContextBytes
    <2>3. s \in Seq(Nat) /\ g \in Seq(Nat) /\ q \in Seq(Nat) /\ v \in Seq(Nat)
        BY ContextBytes
    <2> HIDE DEF r, s, f, g, p, q, u, v
    <2>4. \A x \in Seq(Nat) : Component(x) \in Seq(Nat)
        BY ComponentFacts
    <2>5. Then(Component(r), Then(Component(f), Then(Component(p), Component(u))))
            = Then(Component(s), Then(Component(g), Then(Component(q), Component(v))))
        BY <2>1, <2>2, <2>3, ComponentsNested
    <2>6. r = s /\ Then(Component(f), Then(Component(p), Component(u)))
                     = Then(Component(g), Then(Component(q), Component(v)))
        BY <2>2, <2>3, <2>4, <2>5, ThenIsSeq, ComponentIsPrefixFree
    <2>7. f = g /\ Then(Component(p), Component(u)) = Then(Component(q), Component(v))
        BY <2>2, <2>3, <2>4, <2>6, ThenIsSeq, ComponentIsPrefixFree
    <2>8. p = q /\ Component(u) = Component(v)
        BY <2>2, <2>3, <2>4, <2>7, ComponentIsPrefixFree
    <2>9. Then(Component(u), p) = Then(Component(v), p)
        BY <2>8
    <2>10. u = v
        BY <2>2, <2>3, <2>9, ComponentIsPrefixFree
    <2> QED BY <2>6, <2>7, <2>8, <2>10
<1>2. /\ c.place \in Places /\ d.place \in Places
      /\ c.privacy \in Classifications /\ d.privacy \in Classifications
    BY DEF Contexts
<1>3. c.place.purpose = d.place.purpose /\ c.privacy = d.privacy
    BY <1>1, <1>2, PurposeBytesInjective, PrivacyBytesInjective
<1>4. c.place = d.place
    BY <1>1, <1>2, <1>3 DEF Places
<1> QED BY <1>3, <1>4 DEF Contexts

-----------------------------------------------------------------------------
(* Invariance.                                                             *)

LEMMA ContextOfIsContext ==
    ASSUME NEW place \in Places, NEW c \in Classifications
    PROVE  ContextOf(place, c) \in Contexts
BY EnvelopeAssumption DEF ContextOf, Contexts, DefaultFor, Classifications

LEMMA InitInvariant == Init => IInv
BY DEF Init, IInv, DefaultFor, Classifications

LEMMA EncryptStep ==
    ASSUME IInv, NEW place \in Places, Encrypt(place)
    PROVE  IInv'
<1>1. PICK size \in 0..(MaxBytes + 1) :
         IF size > MaxBytes \/ key = NoKey
         THEN /\ answer' = IF size > MaxBytes THEN "FieldTooLarge" ELSE "KeyLocked"
              /\ UNCHANGED <<envelope, filed>>
         ELSE /\ envelope' = [wrapper |-> 1, carried |-> place.record, version |-> 1,
                              lengths |-> "exact", size |-> size, key |-> key,
                              aad |-> Aad(ContextOf(place, class)),
                              intact |-> TRUE, origin |-> ContextOf(place, class)]
              /\ filed' = place
              /\ answer' = "none"
    BY DEF Encrypt
<1>2. class' = class /\ key' = key
    BY DEF Encrypt
<1>3. envelope' # Nothing => Sealed'
    <2>1. CASE size > MaxBytes \/ key = NoKey
        BY <1>1, <2>1 DEF IInv, Encrypt
    <2>2. CASE ~ (size > MaxBytes \/ key = NoKey)
        <3>1. size \in 0..MaxBytes /\ key \in Keys /\ place.record \in Records
            BY <2>2, EnvelopeAssumption DEF IInv, Places
        <3>2. ContextOf(place, class) \in Contexts
            BY ContextOfIsContext DEF IInv
        <3> DEFINE context == ContextOf(place, class)
                   bytes == Aad(context)
        <3>3. /\ envelope' = [wrapper |-> 1, carried |-> place.record, version |-> 1,
                              lengths |-> "exact", size |-> size, key |-> key,
                              aad |-> bytes, intact |-> TRUE, origin |-> context]
              /\ filed' = place /\ bytes \in {Aad(c) : c \in Contexts}
            BY <1>1, <2>2, <3>2
        <3>4. envelope'.aad = Aad(envelope'.origin)
            BY <3>3
        <3> HIDE DEF context, bytes
        <3>5. envelope' \in Envelopes
            BY <3>1, <3>2, <3>3 DEF Envelopes, context
        <3> QED BY <3>3, <3>4, <3>5 DEF Sealed, Aad
    <2> QED BY <2>1, <2>2
<1> QED BY <1>2, <1>3 DEF IInv

\* A tombstone is of a place, whatever record its wrapper carries.
LEMMA TombstonePlaceIsPlace == \A record \in Records : TombstonePlace(record) \in Places
BY DEF TombstonePlace, Places

LEMMA StepInvariant == IInv /\ [Next]_vars => IInv'
<1> SUFFICES ASSUME IInv, [Next]_vars PROVE IInv'
    OBVIOUS
<1>1. CASE Classify \/ ReadClassification \/ Approve
    <2>1. class' \in Classifications
        <3>1. CASE Classify
            BY <3>1 DEF Classify, DefaultFor, NonSensitive, Classifications
        <3>2. CASE ReadClassification
            BY <3>2 DEF ReadClassification, IInv
        <3>3. CASE Approve
            BY <3>3 DEF Approve, ApproveExport, ApproveAi, IInv, Classifications
        <3> QED BY <1>1, <3>1, <3>2, <3>3
    <2>2. UNCHANGED <<envelope, filed, key>>
        BY <1>1 DEF Classify, ReadClassification, Approve
    <2> QED BY <2>1, <2>2 DEF IInv, Sealed, Aad
<1>2. CASE Index \/ ChangeKey \/ OpenField \/ OpenTombstone
    BY <1>2 DEF Index, ChangeKey, OpenField, OpenTombstone, IInv, Sealed, Aad
<1>3. CASE Damage
    <2>1. Sealed
        BY <1>3 DEF Damage, IInv
    <2>2. envelope' \in Envelopes /\ envelope'.origin = envelope.origin /\ envelope'.aad = envelope.aad
        BY <1>3, <2>1 DEF Damage, Sealed, Envelopes
    <2> QED BY <1>3, <2>1, <2>2 DEF Damage, IInv, Sealed, Aad
<1>4. ASSUME NEW place \in Places, Misfile(place) PROVE IInv'
    <2>1. Sealed
        BY <1>4 DEF Misfile, IInv
    <2>2. PICK record \in (IF place.purpose = "Tombstone" THEN Records ELSE {place.record}) :
             envelope' = [envelope EXCEPT !.carried = record]
        BY <1>4 DEF Misfile
    <2>3. record \in Records
        BY <2>2 DEF Places
    <2>4. envelope' \in Envelopes /\ envelope'.origin = envelope.origin /\ envelope'.aad = envelope.aad
        BY <2>1, <2>2, <2>3 DEF Sealed, Envelopes
    <2> QED BY <1>4, <2>1, <2>4 DEF Misfile, IInv, Sealed, Aad
<1>5. ASSUME NEW place \in Places, SealField(place) PROVE IInv'
    BY <1>5, EncryptStep DEF SealField
<1>6. ASSUME NEW record \in Records, SealTombstone(record) PROVE IInv'
    BY <1>6, EncryptStep, TombstonePlaceIsPlace DEF SealTombstone
<1>7. CASE UNCHANGED vars
    BY <1>7 DEF vars, IInv, Sealed, Aad
<1> QED BY <1>1, <1>2, <1>3, <1>4, <1>5, <1>6, <1>7 DEF Next

\* The inductive invariant holds in every state: a stored envelope carries the
\* associated data of what encrypt_field sealed it for.
THEOREM Invariance == Spec => []IInv
<1> QED BY InitInvariant, StepInvariant, PTL DEF Spec

\* decrypt_field returns a plaintext for the record, field and classification it
\* was sealed for, EncryptedTombstone::open for the record the wrapper names,
\* under the key of the sealing, undamaged, and for nothing else: no field opens
\* as a tombstone or a tombstone as a field, and no record's as another's.
THEOREM EnvelopesOpenWhereSealed == Spec => OpensExactlyWhereSealed
<1> DEFINE fieldContext == ContextOf(filed, class)
           tombstoneContext == ContextOf(TombstonePlace(envelope.carried), class)
           Opens == /\ OpenField => (answer' = "Opened" <=> BelongsTo(fieldContext))
                    /\ OpenTombstone => (answer' = "Opened" <=> BelongsTo(tombstoneContext))
<1>1. ASSUME IInv, envelope # Nothing, NEW context \in Contexts
      PROVE  OpenVerdict(context) = "Opened" <=>
               /\ envelope.version = 1 /\ envelope.lengths = "exact" /\ envelope.intact
               /\ envelope.key = key
               /\ envelope.origin = context
    <2>1. /\ envelope.key \in Keys /\ envelope.size \in 0..MaxBytes
          /\ envelope.origin \in Contexts /\ envelope.aad = Aad(envelope.origin)
        BY <1>1 DEF IInv, Sealed, Envelopes
    <2>2. envelope.aad = Aad(context) <=> envelope.origin = context
        BY <2>1, AadIsInjective
    <2>3. envelope.key = key => key # NoKey
        BY <2>1, EnvelopeAssumption
    <2> QED BY <2>1, <2>2, <2>3, EnvelopeAssumption DEF OpenVerdict, WireIsValid, Fits
<1>2. ASSUME IInv PROVE Opens
    <2>1. ASSUME OpenField PROVE answer' = "Opened" <=> BelongsTo(fieldContext)
        <3>1. fieldContext \in Contexts
            BY <1>2, <2>1, ContextOfIsContext DEF OpenField, IInv, Sealed
        <3> HIDE DEF fieldContext
        <3>2. answer' = OpenVerdict(fieldContext) /\ envelope # Nothing /\ filed.purpose = "RecordField"
            BY <2>1 DEF OpenField, fieldContext
        <3> QED BY <1>1, <1>2, <3>1, <3>2 DEF BelongsTo, Undamaged
    <2>2. ASSUME OpenTombstone PROVE answer' = "Opened" <=> BelongsTo(tombstoneContext)
        <3>1. tombstoneContext \in Contexts
            <4>1. envelope.carried \in Records /\ class \in Classifications
                BY <1>2, <2>2 DEF OpenTombstone, IInv, Sealed, Envelopes
            <4> QED BY <4>1, TombstonePlaceIsPlace, ContextOfIsContext
        <3> HIDE DEF tombstoneContext
        <3>2. /\ answer' = IF ~ TombstoneIsValid(envelope) THEN "InvalidTombstone"
                           ELSE OpenVerdict(tombstoneContext)
              /\ envelope # Nothing /\ filed.purpose = "Tombstone"
            BY <2>2 DEF OpenTombstone, tombstoneContext
        <3> QED BY <1>1, <1>2, <3>1, <3>2 DEF BelongsTo, Undamaged, TombstoneIsValid
    <2> QED BY <2>1, <2>2
<1>3. IInv /\ [Next]_vars => [Opens]_vars
    BY <1>2
<1> QED BY <1>3, Invariance, PTL DEF Spec, OpensExactlyWhereSealed
=============================================================================
