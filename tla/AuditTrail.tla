----------------------------- MODULE AuditTrail -----------------------------
(***************************************************************************)
(* The append-only audit trail of one record (src/src/audit.rs): what an   *)
(* append accepts, what it adds, and which stored trails the deserializer  *)
(* takes back.  Every operator speaks of the first n entries of a trail,   *)
(* so that the append (n = Len) and the deserializer (which rebuilds the   *)
(* trail entry by entry, n = 0, 1, ...) share the same checks.             *)
(*                                                                         *)
(* Abstracted: actor and provenance are constants of the program; an event *)
(* id "<record>:<n>" is the pair of the record and n, and only its length  *)
(* is kept of its text.                                                    *)
(***************************************************************************)
EXTENDS Integers, Sequences

CONSTANTS
    Ids,             \* the record ids RecordId::parse accepts
    IdBytes,         \* the length in bytes of each of them
    MaxIdBytes,      \* MAX_ID_BYTES, the limit on record ids and event ids
    MaxAuditEvents,  \* MAX_AUDIT_EVENTS
    MaxTimestamp,    \* i64::MAX milliseconds
    NoEvent,         \* the None of previous_event_id
    NoId             \* the subject of no trail

ASSUME AuditAssumption ==
    /\ MaxIdBytes \in Nat
    /\ IdBytes \in [Ids -> 1..MaxIdBytes]
    /\ MaxAuditEvents \in Nat \ {0}
    /\ MaxTimestamp \in Nat
    /\ NoId \notin Ids

AuditAction == {"created", "updated", "soft_deleted", "restored", "privacy_changed"}

Timestamps == 0..MaxTimestamp

EventId == [subject : Ids, number : Nat]

Event == [sequence : Nat, eventId : EventId, previous : EventId \cup {NoEvent},
          timestamp : Timestamps, action : AuditAction]

Trail == [subject : Ids, entries : Seq(Event)]

NewTrail(id) == [subject |-> id, entries |-> <<>>]

-----------------------------------------------------------------------------
(* Event ids: AuditEventId::parse(format!("{id}:{sequence}")).             *)

Digits(n) == CHOOSE d \in 1..20 : 10^(d - 1) <= n /\ n < 10^d

\* validate_token refuses an event id longer than a record id may be.
EventIdFits(id, n) == IdBytes[id] + 1 + Digits(n) <= MaxIdBytes

-----------------------------------------------------------------------------
(* AuditTrail::append on the first n entries, refusal by refusal.          *)

SequenceOverflow(n) == n >= MaxAuditEvents

DuplicateEvent(entries, n, eventId) ==
    \E i \in 1..n : entries[i].eventId = eventId

TimestampRegression(entries, n, timestamp) ==
    n > 0 /\ timestamp <= entries[n].timestamp

Accepts(entries, n, eventId, timestamp) ==
    /\ ~ SequenceOverflow(n)
    /\ ~ DuplicateEvent(entries, n, eventId)
    /\ ~ TimestampRegression(entries, n, timestamp)

PreviousId(entries, n) == IF n = 0 THEN NoEvent ELSE entries[n].eventId

\* Mutant: nothing links an event to what came before it.
AppendedUnlinked(trail, eventId, timestamp, action) ==
    [trail EXCEPT !.entries =
        Append(@, [sequence  |-> Len(@) + 1,
                   eventId   |-> eventId,
                   previous  |-> NoEvent,
                   timestamp |-> timestamp,
                   action    |-> action])]

\* The trail with one event pushed: numbered, and linked to the one before it.
Appended(trail, eventId, timestamp, action) ==
    LET n == Len(trail.entries)
    IN  [trail EXCEPT !.entries =
            Append(@, [sequence  |-> n + 1,
                       eventId   |-> eventId,
                       previous  |-> PreviousId(trail.entries, n),
                       timestamp |-> timestamp,
                       action    |-> action])]

-----------------------------------------------------------------------------
(* Deserialize for AuditTrail: the wire is rebuilt by append, entry by      *)
(* entry, and each entry must carry its number and the link to the last.    *)

Deserializes(trail) ==
    LET entries == trail.entries
    IN  /\ Len(entries) <= MaxAuditEvents
        /\ \A i \in DOMAIN entries :
             /\ entries[i].sequence = i
             /\ entries[i].previous = PreviousId(entries, i - 1)
             /\ Accepts(entries, i - 1, entries[i].eventId, entries[i].timestamp)

-----------------------------------------------------------------------------
(* next_timestamp of contact.rs: the clock's reading, or one past the last  *)
(* event when the clock has not moved beyond it; the addition saturates.    *)

\* Mutant: a plain addition, which leaves the range of i64.
SaturatingSuccPlain(t) == t + 1

SaturatingSucc(t) == IF t < MaxTimestamp THEN t + 1 ELSE MaxTimestamp

\* Mutant: the clock's reading as it is.
NextTimestampReading(entries, reading) == reading

NextTimestamp(entries, reading) ==
    LET floor == IF entries = <<>> THEN reading
                 ELSE SaturatingSucc(entries[Len(entries)].timestamp)
    IN  IF reading >= floor THEN reading ELSE floor
=============================================================================
