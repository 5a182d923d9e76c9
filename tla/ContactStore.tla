---------------------------- MODULE ContactStore ----------------------------
(***************************************************************************)
(* The contact operations of contact.rs over the SQLite table of store.rs: *)
(* create, update, soft_delete, get and list, run by any number of         *)
(* processes of the program on one database, each of which may be killed   *)
(* at any point.                                                           *)
(*                                                                         *)
(* A mutation is five steps: open the store, read the newest revision,     *)
(* build the next one from it, insert it, and read it back as a view.  The *)
(* read and the insert are separate SQLite statements, so other processes  *)
(* may insert in between; UNIQUE(record_id, revision) is all that stops    *)
(* the late one (the DEBT note of store.rs).                               *)
(*                                                                         *)
(* Abstracted: the three fields of a contact are one payload, sealed under *)
(* a key and a record id; the table is one sequence of rows per record id, *)
(* in insertion order, which is all the two SELECTs look at.               *)
(***************************************************************************)
EXTENDS AuditTrail

CONSTANTS
    Procs,          \* processes of the program sharing the database
    Payloads,       \* name, email and phone together, each of a legal size
    EmptyField,     \* fields of which one is empty
    OversizedField, \* fields of which one is over the envelope's limit
    NoInput,        \* get, delete and list take no fields
    Keys,           \* data keys; a second one is in use once a key file was lost
    Locked,         \* a KeyLifecycle that holds no key
    KeyHandles,     \* the KeyLifecycles callers hold: a key, or Locked
    BadId,          \* an id RecordId::parse refuses
    Clock,          \* the readings the wall clock gives, in any order
    NoCall          \* the process is doing nothing

Mutations == {"create", "update", "delete"}

Inputs == Payloads \cup {EmptyField, OversizedField}

\* The arguments an operation is called with, the key aside.
Requests ==
    [op : {"create", "update"}, id : Ids \cup {BadId}, input : Inputs]
    \cup [op : {"delete", "get"}, id : Ids \cup {BadId}, input : {NoInput}]
    \cup [op : {"list"}, id : {NoId}, input : {NoInput}]

ASSUME ContactAssumption ==
    /\ NoInput \notin Payloads
    /\ EmptyField \notin Payloads
    /\ OversizedField \notin Payloads
    /\ Locked \notin Keys
    /\ KeyHandles \subseteq Keys \cup {Locked}
    /\ BadId \notin Ids
    /\ NoCall \notin Requests
    /\ Clock \subseteq Timestamps

Sealed == [key : Keys, id : Ids, payload : Payloads]

Row == [revision : Nat, deleted : BOOLEAN, sealed : Sealed, audit : Trail]

NoRow == [revision |-> 0]

View == [id : Ids, payload : Payloads, revision : Nat, deleted : BOOLEAN]

Refusals == {"InvalidId", "InvalidField", "Encryption", "Audit", "Malformed",
             "FutureStore", "Read", "WriteFailed", "WriteConflict",
             "AlreadyExists", "NotFound", "Deleted"}

Result == [status : {"none", "Ok"} \cup Refusals, views : SUBSET View]

NoResult == [status |-> "none", views |-> {}]

Refused(status) == [status |-> status, views |-> {}]

VARIABLES
    revisions,  \* per record id, its rows of contact_revisions in insertion order
    pc,         \* how far each process is in its call
    call,       \* the call's arguments
    handle,     \* the KeyLifecycle the call was given
    snapshot,   \* the newest row the call read
    record,     \* the row the call built
    result      \* what the call answers

vars == <<revisions, pc, call, handle, snapshot, record, result>>

Init ==
    /\ revisions = [id \in Ids |-> <<>>]
    /\ pc = [p \in Procs |-> "idle"]
    /\ call = [p \in Procs |-> NoCall]
    /\ handle = [p \in Procs |-> Locked]
    /\ snapshot = [p \in Procs |-> NoRow]
    /\ record = [p \in Procs |-> NoRow]
    /\ result = [p \in Procs |-> NoResult]

-----------------------------------------------------------------------------
(* The table.                                                              *)

\* ORDER BY sequence DESC LIMIT 1: the row inserted last.
Newest(rows) == IF rows = <<>> THEN NoRow ELSE rows[Len(rows)]

\* contact_from_row takes a row back only if its audit column deserializes.
Readable(row) == Deserializes(row.audit)

\* Mutant: a table without the constraint.
ConflictsNever(rows, row) == FALSE

\* UNIQUE(record_id, revision)
Conflicts(rows, row) == \E i \in DOMAIN rows : rows[i].revision = row.revision

\* INSERT; history is never rewritten.
Inserted(rows, row) == Append(rows, row)

-----------------------------------------------------------------------------
(* Sealing and viewing.                                                    *)

\* decrypt_field authenticates the key and the record id of the envelope.
Openable(key, id, sealed) ==
    /\ key # Locked
    /\ sealed.key = key
    /\ sealed.id = id

ViewOf(id, row) == [id |-> id, payload |-> row.sealed.payload,
                    revision |-> row.revision, deleted |-> row.deleted]

\* view(): a row's fields, or the envelope's refusal.
Viewed(key, id, row) ==
    IF Openable(key, id, row.sealed)
    THEN [status |-> "Ok", views |-> {ViewOf(id, row)}]
    ELSE Refused("Encryption")

-----------------------------------------------------------------------------
(* What each operation makes of the newest row; "none" lets it go on.      *)

CreateRefusal(row) ==
    IF row = NoRow THEN "none"
    ELSE IF ~ Readable(row) THEN "Malformed"
    ELSE IF ~ row.deleted THEN "AlreadyExists"
    ELSE "none"

\* Mutant: no check of the deleted flag.
EditRefusalOnceExisted(row) ==
    IF row = NoRow THEN "NotFound"
    ELSE IF ~ Readable(row) THEN "Malformed"
    ELSE "none"

EditRefusal(row) ==
    IF row = NoRow THEN "NotFound"
    ELSE IF ~ Readable(row) THEN "Malformed"
    ELSE IF row.deleted THEN "Deleted"
    ELSE "none"

\* soft_delete decrypts the fields first, to seal them again in the tombstone.
DeleteRefusal(key, id, row) ==
    IF EditRefusal(row) # "none" THEN EditRefusal(row)
    ELSE IF ~ Openable(key, id, row.sealed) THEN "Encryption"
    ELSE "none"

ReadRefusal(op, key, id, row) ==
    IF op = "create" THEN CreateRefusal(row)
    ELSE IF op = "update" THEN EditRefusal(row)
    ELSE DeleteRefusal(key, id, row)

\* Mutant: the filter on live rows is left out.
ListedWithTombstones(key, table) ==
    LET used == {id \in Ids : table[id] # <<>>}
    IN  IF \E id \in used : ~ Openable(key, id, Newest(table[id]).sealed)
        THEN Refused("Encryption")
        ELSE [status |-> "Ok", views |-> {ViewOf(id, Newest(table[id])) : id \in used}]

\* latest_all() and the views of the live rows: one failure fails the list.
Listed(key, table) ==
    LET used == {id \in Ids : table[id] # <<>>}
        live == {id \in used : ~ Newest(table[id]).deleted}
    IN  IF \E id \in used : ~ Readable(Newest(table[id]))
        THEN Refused("Malformed")
        ELSE IF \E id \in live : ~ Openable(key, id, Newest(table[id]).sealed)
        THEN Refused("Encryption")
        ELSE [status |-> "Ok", views |-> {ViewOf(id, Newest(table[id])) : id \in live}]

-----------------------------------------------------------------------------
(* build_record.                                                           *)

\* Mutant: a fresh trail for every revision.
BaseTrailFresh(id, row) == NewTrail(id)

\* The trail continues from the last revision.
BaseTrail(id, row) == IF row = NoRow THEN NewTrail(id) ELSE row.audit

\* Mutant: the revision that was read, not the next one.
NextRevisionSame(row) == IF row = NoRow THEN 1 ELSE row.revision

NextRevision(row) == row.revision + 1

ActionOf(op) ==
    IF op = "create" THEN "created"
    ELSE IF op = "update" THEN "updated"
    ELSE "soft_deleted"

\* The fields to seal: the caller's, or those the deleted row held.
FieldsOf(request, row) ==
    IF request.op = "delete" THEN row.sealed.payload ELSE request.input

NextEventId(id, trail) == [subject |-> id, number |-> Len(trail.entries) + 1]

\* build_record's checks in their order: the fields and the event id, the audit
\* trail, and then the encryption under a key that may be locked.
FieldRefused(request, row) ==
    \/ FieldsOf(request, row) = EmptyField
    \/ ~ EventIdFits(request.id, Len(BaseTrail(request.id, row).entries) + 1)

\* Mutant: only the length of the trail is looked at.
AuditRefusedWhenFull(id, trail, timestamp) == SequenceOverflow(Len(trail.entries))

AuditRefused(id, trail, timestamp) ==
    ~ Accepts(trail.entries, Len(trail.entries), NextEventId(id, trail), timestamp)

BuildRefusal(request, key, row, timestamp) ==
    IF FieldRefused(request, row) THEN "InvalidField"
    ELSE IF AuditRefused(request.id, BaseTrail(request.id, row), timestamp) THEN "Audit"
    ELSE IF key = Locked \/ FieldsOf(request, row) = OversizedField THEN "Encryption"
    ELSE "none"

Built(request, key, row, timestamp) ==
    LET trail == BaseTrail(request.id, row)
    IN  [revision |-> NextRevision(row),
         deleted  |-> request.op = "delete",
         sealed   |-> [key |-> key, id |-> request.id, payload |-> FieldsOf(request, row)],
         audit    |-> Appended(trail, NextEventId(request.id, trail), timestamp,
                              ActionOf(request.op))]

-----------------------------------------------------------------------------
(* The steps of a call by process p.                                       *)

At(p, label) == pc[p] = label

GoTo(p, label) == pc' = [pc EXCEPT ![p] = label]

Finish(p, answer) ==
    /\ GoTo(p, "done")
    /\ result' = [result EXCEPT ![p] = answer]

Invoke(p) ==
    /\ At(p, "idle")
    /\ \E request \in Requests, key \in KeyHandles :
         /\ call' = [call EXCEPT ![p] = request]
         /\ handle' = [handle EXCEPT ![p] = key]
    /\ GoTo(p, "called")
    /\ UNCHANGED <<revisions, snapshot, record, result>>

\* RecordId::parse comes before the store is touched.
RejectId(p) ==
    /\ At(p, "called")
    /\ call[p].id = BadId
    /\ Finish(p, Refused("InvalidId"))
    /\ UNCHANGED <<revisions, call, handle, snapshot, record>>

OpenStore(p) ==
    /\ At(p, "called")
    /\ call[p].id # BadId
    /\ GoTo(p, "opened")
    /\ UNCHANGED <<revisions, call, handle, snapshot, record, result>>

\* A refused file, an exhausted busy timeout or a newer build's schema.
OpenFails(p) ==
    /\ At(p, "called")
    /\ call[p].id # BadId
    /\ \E status \in {IF call[p].op \in Mutations THEN "WriteFailed" ELSE "Read",
                      "FutureStore"} :
         Finish(p, Refused(status))
    /\ UNCHANGED <<revisions, call, handle, snapshot, record>>

\* SQLite fails a SELECT.
ReadFails(p) ==
    /\ At(p, "opened")
    /\ Finish(p, Refused("Read"))
    /\ UNCHANGED <<revisions, call, handle, snapshot, record>>

ReadForMutation(p) ==
    LET row     == Newest(revisions[call[p].id])
        refusal == ReadRefusal(call[p].op, handle[p], call[p].id, row)
    IN  /\ At(p, "opened")
        /\ call[p].op \in Mutations
        /\ \/ /\ refusal = "none"
              /\ GoTo(p, "read")
              /\ snapshot' = [snapshot EXCEPT ![p] = row]
              /\ UNCHANGED result
           \/ /\ refusal # "none"
              /\ Finish(p, Refused(refusal))
              /\ UNCHANGED snapshot
        /\ UNCHANGED <<revisions, call, handle, record>>

\* get reads, and views what it read without looking at the store again.
Get(p) ==
    LET row     == Newest(revisions[call[p].id])
        refusal == EditRefusal(row)
    IN  /\ At(p, "opened")
        /\ call[p].op = "get"
        /\ Finish(p, IF refusal = "none" THEN Viewed(handle[p], call[p].id, row)
                                         ELSE Refused(refusal))
        /\ UNCHANGED <<revisions, call, handle, snapshot, record>>

List(p) ==
    /\ At(p, "opened")
    /\ call[p].op = "list"
    /\ Finish(p, Listed(handle[p], revisions))
    /\ UNCHANGED <<revisions, call, handle, snapshot, record>>

\* build_record works on the row that was read, whatever the table holds by now.
Build(p) ==
    /\ At(p, "read")
    /\ \E reading \in Clock :
         LET trail     == BaseTrail(call[p].id, snapshot[p])
             timestamp == NextTimestamp(trail.entries, reading)
             refusal   == BuildRefusal(call[p], handle[p], snapshot[p], timestamp)
         IN  \/ /\ refusal = "none"
                /\ GoTo(p, "built")
                /\ record' = [record EXCEPT ![p] =
                       Built(call[p], handle[p], snapshot[p], timestamp)]
                /\ UNCHANGED result
             \/ /\ refusal # "none"
                /\ Finish(p, Refused(refusal))
                /\ UNCHANGED record
    /\ UNCHANGED <<revisions, call, handle, snapshot>>

\* Mutant: INSERT OR IGNORE.
AppendRowOrIgnore(p) ==
    /\ At(p, "built")
    /\ revisions' = IF Conflicts(revisions[call[p].id], record[p]) THEN revisions
                    ELSE [revisions EXCEPT ![call[p].id] = Inserted(@, record[p])]
    /\ GoTo(p, "appended")
    /\ UNCHANGED <<call, handle, snapshot, record, result>>

\* INSERT as one autocommitted statement.
AppendRow(p) ==
    /\ At(p, "built")
    /\ ~ Conflicts(revisions[call[p].id], record[p])
    /\ revisions' = [revisions EXCEPT ![call[p].id] = Inserted(@, record[p])]
    /\ GoTo(p, "appended")
    /\ UNCHANGED <<call, handle, snapshot, record, result>>

\* The constraint, and an insert that failed for its own reasons, are both
\* ContactError::Write; the error's source tells them apart, as the status here.
AppendConflicts(p) ==
    /\ At(p, "built")
    /\ Conflicts(revisions[call[p].id], record[p])
    /\ Finish(p, Refused("WriteConflict"))
    /\ UNCHANGED <<revisions, call, handle, snapshot, record>>

AppendFails(p) ==
    /\ At(p, "built")
    /\ Finish(p, Refused("WriteFailed"))
    /\ UNCHANGED <<revisions, call, handle, snapshot, record>>

\* view(key, &record): of the row that was built, not of the row stored.
ReturnView(p) ==
    /\ At(p, "appended")
    /\ Finish(p, Viewed(handle[p], call[p].id, record[p]))
    /\ UNCHANGED <<revisions, call, handle, snapshot, record>>

Leave(p) ==
    /\ GoTo(p, "idle")
    /\ call' = [call EXCEPT ![p] = NoCall]
    /\ handle' = [handle EXCEPT ![p] = Locked]
    /\ snapshot' = [snapshot EXCEPT ![p] = NoRow]
    /\ record' = [record EXCEPT ![p] = NoRow]
    /\ result' = [result EXCEPT ![p] = NoResult]
    /\ UNCHANGED revisions

Return(p) == At(p, "done") /\ Leave(p)

\* The process is killed; what SQLite committed stays.
Crash(p) == ~ At(p, "idle") /\ ~ At(p, "done") /\ Leave(p)

Work(p) ==
    \/ RejectId(p) \/ OpenStore(p) \/ OpenFails(p) \/ ReadFails(p)
    \/ ReadForMutation(p) \/ Get(p) \/ List(p) \/ Build(p)
    \/ AppendRow(p) \/ AppendConflicts(p) \/ AppendFails(p)
    \/ ReturnView(p) \/ Return(p)

Next == \E p \in Procs : Invoke(p) \/ Work(p) \/ Crash(p)

Spec == Init /\ [][Next]_vars

-----------------------------------------------------------------------------
(* Properties.                                                             *)

Labels == {"idle", "called", "opened", "read", "built", "appended", "done"}

\* Every variable has the shape the code gives it.
TypeOK ==
    /\ revisions \in [Ids -> Seq(Row)]
    /\ pc \in [Procs -> Labels]
    /\ call \in [Procs -> Requests \cup {NoCall}]
    /\ handle \in [Procs -> KeyHandles \cup {Locked}]
    /\ snapshot \in [Procs -> Row \cup {NoRow}]
    /\ record \in [Procs -> Row \cup {NoRow}]
    /\ result \in [Procs -> Result]

\* The history of an id is revisions 1, 2, 3, ... in the order they were
\* inserted: none is skipped, repeated or late, whichever processes raced to
\* write it (contact.rs computes revision + 1 from what it read before).
RevisionIsPosition ==
    \A id \in Ids : \A i \in DOMAIN revisions[id] : revisions[id][i].revision = i

\* Each revision carries the whole trail of the record: the trail of the
\* revision before it and one event more, the first of one event, so that a
\* trail is never restarted, forked or shared (build_record continues it).
TrailContinuity ==
    \A id \in Ids : \A i \in DOMAIN revisions[id] :
        LET events(k) == revisions[id][k].audit.entries
        IN  /\ Len(events(i)) = i
            /\ revisions[id][i].audit.subject = id
            /\ i > 1 => \A k \in 1..i - 1 : events(i)[k] = events(i - 1)[k]

\* Whatever the interleaving, a record's life alternates: created when it does
\* not exist or is deleted, updated or deleted only while it lives, and the
\* deleted flag of a row agrees with the last event of its trail.
LifecycleLegal ==
    \A id \in Ids : \A i \in DOMAIN revisions[id] :
        LET row     == revisions[id][i]
            action  == row.audit.entries[Len(row.audit.entries)].action
            wasLive == i > 1 /\ ~ revisions[id][i - 1].deleted
        IN  /\ action = "created" <=> ~ wasLive
            /\ action = "soft_deleted" <=> row.deleted

\* A tombstone seals the fields the record had when it was deleted, also when
\* another process replaced them while the deletion was under way.
TombstoneKeepsFields ==
    \A id \in Ids : \A i \in DOMAIN revisions[id] :
        revisions[id][i].deleted =>
            i > 1 /\ revisions[id][i].sealed.payload = revisions[id][i - 1].sealed.payload

\* What an append wrote, the deserializer takes back: no sequence of legal
\* calls leaves a row that contact_from_row refuses as malformed.
HistoryReadable ==
    \A id \in Ids : \A i \in DOMAIN revisions[id] : Readable(revisions[id][i])

\* The constraint refuses a write only when the record did move on: a
\* WriteConflict means the row the call read is no longer the newest.
ConflictMeansOvertaken ==
    \A p \in Procs : result[p].status = "WriteConflict" =>
        Len(revisions[call[p].id]) > snapshot[p].revision

\* A mutation that reported success is in the history, as it was reported.
AcknowledgedIsStored ==
    \A p \in Procs : At(p, "done") /\ result[p].status = "Ok" /\ call[p].op \in Mutations =>
        \A v \in result[p].views :
            /\ v.revision \in DOMAIN revisions[v.id]
            /\ v = ViewOf(v.id, revisions[v.id][v.revision])

Exhausted(events) ==
    \/ Len(events) = MaxAuditEvents
    \/ events # <<>> /\ events[Len(events)].timestamp = MaxTimestamp

\* "Step past the last event rather than refusing an edit the user legitimately
\* made" (contact.rs): the audit trail refuses an edit only when its events are
\* used up or time itself is, whatever the clock reads, backwards included.
AuditRefusesOnlyExhausted ==
    \A p \in Procs : result[p].status = "Audit" =>
        Exhausted(BaseTrail(call[p].id, snapshot[p]).entries)

\* Some live record is sealed under another key.
LiveForeignRow(key) ==
    \E id \in Ids : /\ revisions[id] # <<>>
                   /\ ~ Newest(revisions[id]).deleted
                   /\ Newest(revisions[id]).sealed.key # key

\* latest_all reads one newest row per id and views only the live ones: a list
\* fails to decrypt only if, at that moment, some live record is sealed under
\* another key than the caller's. A tombstone or an older revision never fails
\* it. (Stated of a list that has just been answered.)
ListBlockedOnlyByLiveForeignRow ==
    [][\A p \in Procs :
         At(p, "opened") /\ call[p].op = "list" /\ result'[p].status = "Encryption" =>
            handle[p] = Locked \/ LiveForeignRow(handle[p])]_vars

\* A write lands only on the very row it was computed from: between the SELECT
\* and the INSERT of one call no other process inserted a row of that id.
NoStaleWrite ==
    [][\A p \in Procs : At(p, "built") /\ pc'[p] = "appended" =>
         Newest(revisions[call[p].id]) = snapshot[p]]_vars

\* "a deleted id is free to use again" (the message of a test in contact.rs): a
\* create of a deleted id, with legal fields, a key and an audit trail that is
\* not used up, is not refused as having an invalid field. The code violates it
\* at the length limit of event ids: see the run ContactLongId.
DeletedIdIsFree ==
    \A p \in Procs :
        LET row == snapshot[p]
        IN  call[p] # NoCall /\ call[p].op = "create" /\ call[p].input \in Payloads
            /\ row # NoRow /\ Len(row.audit.entries) < MaxAuditEvents
            => result[p].status # "InvalidField"

-----------------------------------------------------------------------------
(* Why they hold: the inductive invariant.                                 *)

\* The row of an id with a given revision, None before the first.
RowAt(id, revision) == IF revision = 0 THEN NoRow ELSE revisions[id][revision]

\* A row is what build_record may make of the row before it.
Successor(id, before, row) ==
    LET events == row.audit.entries
        action == events[Len(events)].action
    IN  /\ row.revision = before.revision + 1
        /\ row.sealed.id = id
        /\ row.audit.subject = id
        /\ Len(events) = row.revision
        /\ \A k \in 1..before.revision : events[k] = before.audit.entries[k]
        /\ \A k \in 1..row.revision : events[k].eventId = [subject |-> id, number |-> k]
        /\ action = "created" <=> (before.revision = 0 \/ before.deleted)
        /\ action = "soft_deleted" <=> row.deleted
        /\ row.deleted => /\ before.revision # 0
                          /\ row.sealed.payload = before.sealed.payload
        /\ Readable(row)

\* A row stores what the call asked for.
Stores(request, row) ==
    /\ row.deleted <=> request.op = "delete"
    /\ request.op # "delete" => row.sealed.payload = request.input

\* Every history is a chain of successors, each at the place of its revision.
ChainInv ==
    \A id \in Ids : \A i \in DOMAIN revisions[id] :
        /\ revisions[id][i].revision = i
        /\ Successor(id, RowAt(id, i - 1), revisions[id][i])

\* A call's id is one the table knows, unless it is refused before it is used.
RequestInv(p) ==
    /\ IF pc[p] = "idle" THEN call[p] = NoCall ELSE call[p] \in Requests
    /\ pc[p] \notin {"idle", "called", "done"} => call[p].id # BadId
    /\ pc[p] \in {"read", "built", "appended"} => call[p].op \in Mutations

\* The snapshot is a row of the past, and one the operation may follow.
SnapshotInv(p) ==
    pc[p] \in {"read", "built", "appended"} =>
        /\ snapshot[p].revision \in 0..Len(revisions[call[p].id])
        /\ snapshot[p] = RowAt(call[p].id, snapshot[p].revision)
        /\ call[p].op = "create" <=> (snapshot[p].revision = 0 \/ snapshot[p].deleted)

\* The record is a successor of the snapshot, as the call asked, sealed under the
\* caller's key; from the append on it is in the table.
RecordInv(p) ==
    /\ pc[p] \in {"built", "appended"} =>
         /\ record[p] \in Row
         /\ Successor(call[p].id, snapshot[p], record[p])
         /\ Stores(call[p], record[p])
         /\ handle[p] # Locked
         /\ record[p].sealed.key = handle[p]
    /\ pc[p] = "appended" =>
         /\ record[p].revision \in DOMAIN revisions[call[p].id]
         /\ revisions[call[p].id][record[p].revision] = record[p]

\* What an answer says remains true.
ResultInv(p) ==
    /\ pc[p] # "done" => result[p] = NoResult
    /\ result[p].status = "WriteConflict" =>
         /\ call[p].id \in Ids
         /\ Len(revisions[call[p].id]) > snapshot[p].revision
    /\ result[p].status = "Audit" => Exhausted(BaseTrail(call[p].id, snapshot[p]).entries)
    /\ result[p].status = "Ok" /\ call[p].op \in Mutations =>
         \A v \in result[p].views :
            /\ v.revision \in DOMAIN revisions[v.id]
            /\ v = ViewOf(v.id, revisions[v.id][v.revision])

CallInv(p) == RequestInv(p) /\ SnapshotInv(p) /\ RecordInv(p) /\ ResultInv(p)

\* The inductive invariant: build_record computes a legal successor of a row of
\* the past, the constraint makes that row the newest one or refuses it.
IInv == TypeOK /\ ChainInv /\ \A p \in Procs : CallInv(p)

-----------------------------------------------------------------------------
(* The abstract registers this implements.                                 *)

CurrentContact(rows) ==
    IF rows = <<>>
    THEN [revision |-> 0, deleted |-> FALSE, payload |-> NoInput]
    ELSE LET row == rows[Len(rows)]
         IN  [revision |-> row.revision, deleted |-> row.deleted,
              payload |-> row.sealed.payload]

\* A committed insert has earned its answer before the call gives it.
EarnedOutcome(p) ==
    IF At(p, "appended")
    THEN [status |-> "Ok", views |-> {ViewOf(call[p].id, record[p])}]
    ELSE result[p]

Register == INSTANCE ContactRegister WITH
    contact <- [id \in Ids |-> CurrentContact(revisions[id])],
    outcome <- [p \in Procs |-> EarnedOutcome(p)]

\* Every call of contact.rs takes effect at one instant, on what is the newest
\* revision at that instant, or has no effect; its answer is true of it.
ImplementsRegister == Register!RegSpec
=============================================================================
