-------------------------- MODULE ContactStore_proof --------------------------
(***************************************************************************)
(* Theorems about ContactStore, for every set of record ids, processes,    *)
(* payloads and keys, every limit on trails and every clock.               *)
(***************************************************************************)
EXTENDS ContactStore, TLAPS

-----------------------------------------------------------------------------
(* The audit trail: what an append returns and preserves.                  *)

\* The timestamp build_record stamps is one an i64 holds.
LEMMA NextTimestampType ==
    ASSUME NEW entries \in Seq(Event), NEW reading \in Timestamps
    PROVE  NextTimestamp(entries, reading) \in Timestamps
<1>1. CASE entries = <<>>
    BY <1>1 DEF NextTimestamp, Timestamps
<1>2. CASE entries # <<>>
    <2>1. entries[Len(entries)] \in Event
        BY <1>2
    <2>2. entries[Len(entries)].timestamp \in Timestamps
        BY <2>1 DEF Event
    <2> QED BY <1>2, <2>2, AuditAssumption DEF NextTimestamp, SaturatingSucc, Timestamps
<1> QED BY <1>1, <1>2

\* ... and is past the last event's, unless that one has the last timestamp.
LEMMA NextTimestampAdvances ==
    ASSUME NEW entries \in Seq(Event), NEW reading \in Timestamps, entries # <<>>,
           NextTimestamp(entries, reading) <= entries[Len(entries)].timestamp
    PROVE  entries[Len(entries)].timestamp = MaxTimestamp
<1>1. entries[Len(entries)] \in Event
    OBVIOUS
<1>2. entries[Len(entries)].timestamp \in Timestamps
    BY <1>1 DEF Event
<1> QED BY <1>2, AuditAssumption DEF NextTimestamp, SaturatingSucc, Timestamps

\* An append adds one event after those that are there.
LEMMA AppendedFacts ==
    ASSUME NEW trail \in Trail, NEW eventId \in EventId, NEW timestamp \in Timestamps,
           NEW action \in AuditAction
    PROVE  LET after == Appended(trail, eventId, timestamp, action)
               n     == Len(trail.entries)
           IN  /\ after \in Trail
               /\ after.subject = trail.subject
               /\ Len(after.entries) = n + 1
               /\ \A k \in 1..n : after.entries[k] = trail.entries[k]
               /\ after.entries[n + 1] =
                    [sequence |-> n + 1, eventId |-> eventId,
                     previous |-> PreviousId(trail.entries, n),
                     timestamp |-> timestamp, action |-> action]
<1> DEFINE entries == trail.entries
           n       == Len(entries)
           event   == [sequence |-> n + 1, eventId |-> eventId,
                       previous |-> PreviousId(entries, n),
                       timestamp |-> timestamp, action |-> action]
<1>1. trail.subject \in Ids /\ entries \in Seq(Event)
    BY DEF Trail
<1>2. PreviousId(entries, n) \in EventId \cup {NoEvent}
    <2>1. CASE n = 0
        BY <2>1 DEF PreviousId
    <2>2. CASE n # 0
        <3>1. entries[n] \in Event
            BY <1>1, <2>2
        <3> QED BY <2>2, <3>1 DEF PreviousId, Event
    <2> QED BY <2>1, <2>2
<1>3. n \in Nat
    BY <1>1
<1>4. event \in Event
    BY <1>2, <1>3 DEF Event
<1>5. Appended(trail, eventId, timestamp, action) = [trail EXCEPT !.entries = Append(entries, event)]
    BY DEF Appended
<1> HIDE DEF event
<1>6. Append(entries, event) \in Seq(Event)
    BY <1>1, <1>4
<1>7. Appended(trail, eventId, timestamp, action)
        = [subject |-> trail.subject, entries |-> Append(entries, event)]
    BY <1>5 DEF Trail
<1>8. /\ Len(Append(entries, event)) = n + 1
      /\ \A k \in 1..n : Append(entries, event)[k] = entries[k]
      /\ Append(entries, event)[n + 1] = event
    BY <1>1, <1>4
<1> QED BY <1>1, <1>6, <1>7, <1>8 DEF Trail, event

\* A trail that deserializes still does after an append it accepts: what the
\* program writes, it reads back.
LEMMA AppendKeepsReadable ==
    ASSUME NEW trail \in Trail, NEW eventId \in EventId, NEW timestamp \in Timestamps,
           NEW action \in AuditAction,
           Deserializes(trail),
           Accepts(trail.entries, Len(trail.entries), eventId, timestamp)
    PROVE  Deserializes(Appended(trail, eventId, timestamp, action))
<1> DEFINE n     == Len(trail.entries)
           old   == trail.entries
           after == Appended(trail, eventId, timestamp, action)
           new   == after.entries
<1>1. /\ after \in Trail
      /\ Len(new) = n + 1
      /\ \A k \in 1..n : new[k] = old[k]
      /\ new[n + 1] = [sequence |-> n + 1, eventId |-> eventId,
                       previous |-> PreviousId(old, n),
                       timestamp |-> timestamp, action |-> action]
    BY AppendedFacts
<1> HIDE DEF after
<1>2. new \in Seq(Event) /\ old \in Seq(Event) /\ n \in Nat
    BY <1>1 DEF Trail
<1>3. Len(new) <= MaxAuditEvents
    BY <1>1, <1>2, AuditAssumption DEF Accepts, SequenceOverflow
<1>4. ASSUME NEW i \in DOMAIN new
      PROVE  /\ new[i].sequence = i
             /\ new[i].previous = PreviousId(new, i - 1)
             /\ Accepts(new, i - 1, new[i].eventId, new[i].timestamp)
    <2>0. i \in 1..n + 1
        BY <1>1, <1>2
    <2>1. CASE i \in 1..n
        <3>1. i \in DOMAIN old /\ new[i] = old[i] /\ i - 1 \in 0..n
            BY <1>1, <1>2, <2>1
        <3>2. \A k \in 1..i - 1 : new[k] = old[k]
            BY <1>1, <1>2, <2>1
        <3>3. PreviousId(new, i - 1) = PreviousId(old, i - 1)
            BY <2>1, <3>1, <3>2 DEF PreviousId
        <3>4. /\ old[i].sequence = i
              /\ old[i].previous = PreviousId(old, i - 1)
              /\ Accepts(old, i - 1, old[i].eventId, old[i].timestamp)
            BY <3>1 DEF Deserializes
        <3>5. Accepts(new, i - 1, old[i].eventId, old[i].timestamp)
            BY <2>1, <3>2, <3>4 DEF Accepts, SequenceOverflow, DuplicateEvent, TimestampRegression
        <3> QED BY <3>1, <3>3, <3>4, <3>5
    <2>2. CASE i = n + 1
        <3>1. i - 1 = n
            BY <1>2, <2>2
        <3>2. PreviousId(new, n) = PreviousId(old, n)
            BY <1>1, <1>2 DEF PreviousId
        <3>3. Accepts(new, n, eventId, timestamp)
            BY <1>1, <1>2 DEF Accepts, SequenceOverflow, DuplicateEvent, TimestampRegression
        <3> QED BY <1>1, <2>2, <3>1, <3>2, <3>3
    <2> QED BY <1>2, <2>0, <2>1, <2>2
<1> QED BY <1>3, <1>4 DEF Deserializes, after

-----------------------------------------------------------------------------
(* build_record makes a successor of the row it is given.                  *)

\* What SnapshotInv and ChainInv know of a row that was read: none, or one
\* that is itself a successor.
Predecessor(id, row) ==
    \/ row = NoRow
    \/ /\ row \in Row
       /\ row.revision # 0
       /\ row.audit.subject = id
       /\ Len(row.audit.entries) = row.revision
       /\ \A k \in 1..row.revision :
            row.audit.entries[k].eventId = [subject |-> id, number |-> k]
       /\ Readable(row)

LEMMA NoRowRevision == NoRow.revision = 0
BY DEF NoRow

LEMMA RequestFacts ==
    ASSUME NEW request \in Requests, request.id # BadId
    PROVE  /\ request.op # "list" => request.id \in Ids
           /\ request.op \in {"create", "update"} => request.input \in Inputs
           /\ request.op \in Mutations \cup {"get", "list"}
BY DEF Requests, Mutations

\* The trail build_record continues, whether there was a row or not.
LEMMA BaseTrailFacts ==
    ASSUME NEW id \in Ids, NEW row, Predecessor(id, row)
    PROVE  /\ BaseTrail(id, row) \in Trail
           /\ BaseTrail(id, row).subject = id
           /\ row.revision \in Nat
           /\ Len(BaseTrail(id, row).entries) = row.revision
           /\ row.revision # 0 => row \in Row /\ BaseTrail(id, row) = row.audit
           /\ \A k \in 1..row.revision :
                BaseTrail(id, row).entries[k].eventId = [subject |-> id, number |-> k]
           /\ Deserializes(BaseTrail(id, row))
<1>1. CASE row = NoRow
    <2>1. row.revision = 0
        BY <1>1, NoRowRevision
    <2>2. BaseTrail(id, row) = [subject |-> id, entries |-> <<>>]
        BY <1>1 DEF BaseTrail, NewTrail
    <2>3. Deserializes(BaseTrail(id, row))
        BY <2>2, AuditAssumption DEF Deserializes
    <2> QED BY <2>1, <2>2, <2>3 DEF Trail
<1>2. CASE row # NoRow
    <2>1. row \in Row /\ BaseTrail(id, row) = row.audit
        BY <1>2 DEF Predecessor, BaseTrail
    <2>2. row.audit \in Trail /\ row.revision \in Nat
        BY <2>1 DEF Row
    <2> QED BY <1>2, <2>1, <2>2 DEF Predecessor, Readable
<1> QED BY <1>1, <1>2

LEMMA BuiltIsSuccessor ==
    ASSUME NEW request \in Requests, request.id # BadId, request.op \in Mutations,
           NEW key \in KeyHandles \cup {Locked},
           NEW row, Predecessor(request.id, row),
           request.op = "create" <=> (row.revision = 0 \/ row.deleted),
           NEW timestamp \in Timestamps,
           BuildRefusal(request, key, row, timestamp) = "none"
    PROVE  LET built == Built(request, key, row, timestamp)
           IN  /\ built \in Row
               /\ Successor(request.id, row, built)
               /\ Stores(request, built)
               /\ key # Locked
               /\ built.sealed.key = key
<1> DEFINE id      == request.id
           base    == BaseTrail(id, row)
           n       == Len(base.entries)
           eventId == NextEventId(id, base)
           action  == ActionOf(request.op)
           payload == FieldsOf(request, row)
           audit   == Appended(base, eventId, timestamp, action)
           built   == Built(request, key, row, timestamp)
<1>1. id \in Ids /\ (request.op # "delete" => request.input \in Inputs)
    BY RequestFacts DEF Mutations
<1>2. /\ payload # EmptyField
      /\ Accepts(base.entries, n, eventId, timestamp)
      /\ key # Locked
      /\ payload # OversizedField
    BY DEF BuildRefusal, FieldRefused, AuditRefused
<1>3. /\ base \in Trail
      /\ base.subject = id
      /\ row.revision \in Nat
      /\ n = row.revision
      /\ row.revision # 0 => row \in Row /\ base = row.audit
      /\ \A k \in 1..row.revision : base.entries[k].eventId = [subject |-> id, number |-> k]
      /\ Deserializes(base)
    BY <1>1, BaseTrailFacts
<1>4. eventId = [subject |-> id, number |-> n + 1] /\ eventId \in EventId
    BY <1>1, <1>3 DEF NextEventId, EventId
<1>5. /\ action \in AuditAction
      /\ action = "created" <=> request.op = "create"
      /\ action = "soft_deleted" <=> request.op = "delete"
    BY DEF ActionOf, AuditAction, Mutations
<1>6. payload \in Payloads
    <2>1. CASE request.op = "delete"
        <3>1. row.revision # 0
            BY <2>1
        <3> QED BY <1>3, <2>1, <3>1 DEF FieldsOf, Row, Sealed
    <2>2. CASE request.op # "delete"
        BY <1>1, <1>2, <2>2 DEF FieldsOf, Inputs
    <2> QED BY <2>1, <2>2
<1>7. built = [revision |-> row.revision + 1,
               deleted  |-> request.op = "delete",
               sealed   |-> [key |-> key, id |-> id, payload |-> payload],
               audit    |-> audit]
    BY DEF Built, NextRevision
<1> HIDE DEF base, eventId, action, payload, built
<1>8. /\ audit \in Trail
      /\ audit.subject = id
      /\ Len(audit.entries) = n + 1
      /\ \A k \in 1..n : audit.entries[k] = base.entries[k]
      /\ audit.entries[n + 1].eventId = eventId
      /\ audit.entries[n + 1].action = action
    <2>1. /\ audit \in Trail
          /\ audit.subject = base.subject
          /\ Len(audit.entries) = n + 1
          /\ \A k \in 1..n : audit.entries[k] = base.entries[k]
          /\ audit.entries[n + 1] =
               [sequence |-> n + 1, eventId |-> eventId,
                previous |-> PreviousId(base.entries, n),
                timestamp |-> timestamp, action |-> action]
        BY <1>3, <1>4, <1>5, AppendedFacts
    <2> HIDE DEF audit
    <2> QED BY <1>3, <2>1
<1>9. Deserializes(audit)
    BY <1>2, <1>3, <1>4, <1>5, AppendKeepsReadable
<1> HIDE DEF n, audit
<1>10. key \in Keys
    BY <1>2, ContactAssumption
<1>11. [key |-> key, id |-> id, payload |-> payload] \in Sealed
    BY <1>1, <1>6, <1>10 DEF Sealed
<1>12. built \in Row
    BY <1>3, <1>8, <1>7, <1>11 DEF Row
<1>13. Successor(id, row, built)
    <2>1. \A k \in 1..row.revision : audit.entries[k] = row.audit.entries[k]
        BY <1>3, <1>8
    <2>2. \A k \in 1..built.revision : audit.entries[k].eventId = [subject |-> id, number |-> k]
        <3>1. ASSUME NEW k \in 1..n PROVE audit.entries[k].eventId = [subject |-> id, number |-> k]
            BY <1>3, <1>8
        <3>2. audit.entries[n + 1].eventId = [subject |-> id, number |-> n + 1]
            BY <1>4, <1>8
        <3>3. built.revision = n + 1 /\ n \in Nat
            BY <1>3, <1>7
        <3> QED BY <3>1, <3>2, <3>3
    <2>3. audit.entries[Len(audit.entries)].action = action
        BY <1>8
    <2>4. built.deleted <=> request.op = "delete"
        BY <1>7
    <2>5. built.deleted => row.revision # 0 /\ built.sealed.payload = row.sealed.payload
        BY <1>7, <2>4 DEF payload, FieldsOf
    <2> QED BY <1>3, <1>5, <1>8, <1>9, <1>7, <2>1, <2>2, <2>3, <2>4, <2>5 DEF Successor, Readable
<1>14. Stores(request, built)
    BY <1>7 DEF Stores, payload, FieldsOf
<1> QED BY <1>2, <1>7, <1>12, <1>13, <1>14 DEF built

-----------------------------------------------------------------------------
(* Answers have their type.                                                *)

LEMMA RefusedType ==
    ASSUME NEW status \in Refusals
    PROVE  Refused(status) \in Result
BY DEF Refused, Result

LEMMA ViewOfType ==
    ASSUME NEW id \in Ids, NEW row \in Row
    PROVE  ViewOf(id, row) \in View
BY DEF ViewOf, View, Row, Sealed

LEMMA ViewedType ==
    ASSUME NEW id \in Ids, NEW row \in Row, NEW key
    PROVE  Viewed(key, id, row) \in Result
<1>1. CASE Openable(key, id, row.sealed)
    <2>1. Viewed(key, id, row) = [status |-> "Ok", views |-> {ViewOf(id, row)}]
        BY <1>1 DEF Viewed
    <2>2. {ViewOf(id, row)} \in SUBSET View
        BY ViewOfType
    <2> QED BY <2>1, <2>2 DEF Result
<1>2. CASE ~ Openable(key, id, row.sealed)
    BY <1>2, RefusedType DEF Viewed, Refusals
<1> QED BY <1>1, <1>2

LEMMA ListedType ==
    ASSUME TypeOK, NEW key
    PROVE  Listed(key, revisions) \in Result
<1> DEFINE used  == {id \in Ids : revisions[id] # <<>>}
           live  == {id \in used : ~ Newest(revisions[id]).deleted}
           views == {ViewOf(id, Newest(revisions[id])) : id \in live}
<1>1. views \subseteq View
    <2> SUFFICES ASSUME NEW id \in live PROVE ViewOf(id, Newest(revisions[id])) \in View
        OBVIOUS
    <2>1. revisions[id] \in Seq(Row) /\ revisions[id] # <<>>
        BY DEF TypeOK
    <2>2. Newest(revisions[id]) \in Row
        BY <2>1 DEF Newest
    <2> QED BY <2>2, ViewOfType
<1>2. [status |-> "Ok", views |-> views] \in Result
    BY <1>1 DEF Result
<1>3. Refused("Malformed") \in Result /\ Refused("Encryption") \in Result
    BY RefusedType DEF Refusals
<1> QED BY <1>2, <1>3 DEF Listed

LEMMA EditRefusalType ==
    ASSUME NEW row
    PROVE  EditRefusal(row) \in Refusals \cup {"none"}
BY DEF EditRefusal, Refusals

LEMMA ReadRefusalType ==
    ASSUME NEW op, NEW key, NEW id, NEW row
    PROVE  ReadRefusal(op, key, id, row) \in Refusals \cup {"none"}
BY EditRefusalType DEF ReadRefusal, CreateRefusal, DeleteRefusal, Refusals

LEMMA BuildRefusalType ==
    ASSUME NEW request, NEW key, NEW row, NEW timestamp
    PROVE  BuildRefusal(request, key, row, timestamp) \in Refusals \cup {"none"}
BY DEF BuildRefusal, Refusals

-----------------------------------------------------------------------------
(* The rows of a chain.                                                    *)

LEMMA RowAtFacts ==
    ASSUME TypeOK, ChainInv, NEW id \in Ids, NEW n \in 0..Len(revisions[id])
    PROVE  /\ Predecessor(id, RowAt(id, n))
           /\ RowAt(id, n).revision = n
<1>1. revisions[id] \in Seq(Row)
    BY DEF TypeOK
<1>2. CASE n = 0
    BY <1>2, NoRowRevision DEF RowAt, Predecessor
<1>3. CASE n # 0
    <2>1. n \in DOMAIN revisions[id] /\ RowAt(id, n) = revisions[id][n]
        BY <1>1, <1>3 DEF RowAt
    <2>2. revisions[id][n] \in Row
        BY <1>1, <2>1
    <2>3. revisions[id][n].revision = n /\ Successor(id, RowAt(id, n - 1), revisions[id][n])
        BY <2>1 DEF ChainInv
    <2> QED BY <1>3, <2>1, <2>2, <2>3 DEF Predecessor, Successor
<1> QED BY <1>2, <1>3

\* The row inserted last is the one whose revision is the length of the history.
LEMMA NewestIsRowAt ==
    ASSUME TypeOK, ChainInv, NEW id \in Ids
    PROVE  /\ Len(revisions[id]) \in Nat
           /\ Newest(revisions[id]) = RowAt(id, Len(revisions[id]))
           /\ Newest(revisions[id]).revision = Len(revisions[id])
<1>1. revisions[id] \in Seq(Row)
    BY DEF TypeOK
<1>2. Newest(revisions[id]) = RowAt(id, Len(revisions[id]))
    BY <1>1 DEF Newest, RowAt
<1> QED BY <1>1, <1>2, RowAtFacts

\* A record without a conflict is the next revision: the row it was built from
\* is the newest one still.
LEMMA NoConflictMeansNewest ==
    ASSUME IInv, NEW p \in Procs, pc[p] = "built",
           ~ Conflicts(revisions[call[p].id], record[p])
    PROVE  /\ call[p].id \in Ids
           /\ snapshot[p] = Newest(revisions[call[p].id])
           /\ snapshot[p].revision = Len(revisions[call[p].id])
           /\ record[p].revision = Len(revisions[call[p].id]) + 1
<1> DEFINE id == call[p].id
<1>1. call[p] \in Requests /\ id # BadId /\ call[p].op \in Mutations
    BY DEF IInv, CallInv, RequestInv
<1>2. id \in Ids
    BY <1>1, RequestFacts DEF Mutations
<1>3. /\ snapshot[p].revision \in 0..Len(revisions[id])
      /\ snapshot[p] = RowAt(id, snapshot[p].revision)
    BY DEF IInv, CallInv, SnapshotInv
<1>4. record[p].revision = snapshot[p].revision + 1
    BY DEF IInv, CallInv, RecordInv, Successor
<1>5. revisions[id] \in Seq(Row)
    BY <1>2 DEF IInv, TypeOK
<1>6. snapshot[p].revision = Len(revisions[id])
    <2> SUFFICES ASSUME snapshot[p].revision # Len(revisions[id]) PROVE FALSE
        OBVIOUS
    <2>1. record[p].revision \in DOMAIN revisions[id]
        BY <1>3, <1>4, <1>5
    <2>2. revisions[id][record[p].revision].revision = record[p].revision
        BY <1>2, <2>1 DEF IInv, ChainInv
    <2> QED BY <2>1, <2>2 DEF Conflicts
<1> QED BY <1>2, <1>3, <1>4, <1>6, NewestIsRowAt DEF IInv

-----------------------------------------------------------------------------
(* Steps.                                                                  *)

Step(p) == Invoke(p) \/ Work(p) \/ Crash(p)

\* The steps that only end a call with a refusal.
Refusing(p) ==
    RejectId(p) \/ OpenFails(p) \/ ReadFails(p) \/ AppendConflicts(p) \/ AppendFails(p)

\* A step of p leaves the variables of every other process alone.
LEMMA StepFrame ==
    ASSUME TypeOK, NEW p \in Procs, Step(p), NEW q \in Procs \ {p}
    PROVE  /\ pc'[q] = pc[q]
           /\ call'[q] = call[q]
           /\ handle'[q] = handle[q]
           /\ snapshot'[q] = snapshot[q]
           /\ record'[q] = record[q]
           /\ result'[q] = result[q]
<1>1. CASE Invoke(p)
    BY <1>1 DEF TypeOK, Invoke, GoTo
<1>2. CASE Refusing(p) \/ OpenStore(p)
    BY <1>2 DEF TypeOK, Refusing, RejectId, OpenStore, OpenFails, ReadFails, AppendConflicts,
                AppendFails, Finish, GoTo
<1>3. CASE ReadForMutation(p)
    BY <1>3 DEF TypeOK, ReadForMutation, Finish, GoTo
<1>4. CASE Get(p) \/ List(p) \/ ReturnView(p)
    BY <1>4 DEF TypeOK, Get, List, ReturnView, Finish, GoTo
<1>5. CASE Build(p)
    BY <1>5 DEF TypeOK, Build, Finish, GoTo
<1>6. CASE AppendRow(p)
    BY <1>6 DEF TypeOK, AppendRow, GoTo
<1>7. CASE Return(p) \/ Crash(p)
    BY <1>7 DEF TypeOK, Return, Crash, Leave, GoTo
<1> QED BY <1>1, <1>2, <1>3, <1>4, <1>5, <1>6, <1>7 DEF Step, Work, Refusing

\* Only an insert changes the table.
LEMMA TableFrame ==
    ASSUME NEW p \in Procs, Step(p), ~ AppendRow(p)
    PROVE  revisions' = revisions
BY DEF Step, Work, Invoke, RejectId, OpenStore, OpenFails, ReadFails, ReadForMutation, Get,
       List, Build, AppendConflicts, AppendFails, ReturnView, Return, Crash, Leave

\* What build_record's caller knows when it calls it.
LEMMA BuildInputs ==
    ASSUME IInv, NEW p \in Procs, pc[p] = "read"
    PROVE  /\ call[p] \in Requests
           /\ call[p].id # BadId
           /\ call[p].op \in Mutations
           /\ call[p].id \in Ids
           /\ handle[p] \in KeyHandles \cup {Locked}
           /\ Predecessor(call[p].id, snapshot[p])
           /\ call[p].op = "create" <=> (snapshot[p].revision = 0 \/ snapshot[p].deleted)
<1>1. call[p] \in Requests /\ call[p].id # BadId /\ call[p].op \in Mutations
    BY DEF IInv, CallInv, RequestInv
<1>2. call[p].id \in Ids
    BY <1>1, RequestFacts DEF Mutations
<1>3. /\ snapshot[p].revision \in 0..Len(revisions[call[p].id])
      /\ snapshot[p] = RowAt(call[p].id, snapshot[p].revision)
      /\ call[p].op = "create" <=> (snapshot[p].revision = 0 \/ snapshot[p].deleted)
    BY DEF IInv, CallInv, SnapshotInv
<1>4. Predecessor(call[p].id, snapshot[p])
    BY <1>2, <1>3, RowAtFacts DEF IInv
<1> QED BY <1>1, <1>2, <1>3, <1>4 DEF IInv, TypeOK

\* The trail refuses the next timestamp only when there is nothing left to give:
\* its event ids are never used before, and the timestamp always moves on.
LEMMA RefusedMeansExhausted ==
    ASSUME NEW id \in Ids, NEW row, Predecessor(id, row), NEW reading \in Timestamps,
           AuditRefused(id, BaseTrail(id, row),
                        NextTimestamp(BaseTrail(id, row).entries, reading))
    PROVE  Exhausted(BaseTrail(id, row).entries)
<1> DEFINE trail   == BaseTrail(id, row)
           entries == trail.entries
           n       == Len(entries)
           time    == NextTimestamp(entries, reading)
<1>1. /\ trail \in Trail
      /\ trail.subject = id
      /\ row.revision \in Nat
      /\ n = row.revision
      /\ \A k \in 1..n : entries[k].eventId = [subject |-> id, number |-> k]
      /\ Deserializes(trail)
    BY BaseTrailFacts
<1> HIDE DEF trail
<1>2. entries \in Seq(Event) /\ n \in Nat
    BY <1>1 DEF Trail
<1>3. ~ DuplicateEvent(entries, n, NextEventId(id, trail))
    <2>1. NextEventId(id, trail) = [subject |-> id, number |-> n + 1]
        BY <1>1 DEF NextEventId
    <2>2. SUFFICES ASSUME NEW k \in 1..n, entries[k].eventId = NextEventId(id, trail)
                   PROVE  FALSE
        BY DEF DuplicateEvent
    <2>3. [subject |-> id, number |-> k] = [subject |-> id, number |-> n + 1]
        BY <1>1, <2>1, <2>2
    <2>4. k = n + 1
        BY <2>3
    <2> QED BY <1>2, <2>4
<1>4. SequenceOverflow(n) \/ TimestampRegression(entries, n, time)
    BY <1>3 DEF AuditRefused, Accepts, trail
<1>5. CASE SequenceOverflow(n)
    <2>1. n <= MaxAuditEvents
        BY <1>1 DEF Deserializes
    <2>2. n = MaxAuditEvents
        BY <1>2, <1>5, <2>1, AuditAssumption DEF SequenceOverflow
    <2> QED BY <2>2 DEF Exhausted, trail
<1>6. CASE TimestampRegression(entries, n, time)
    <2>1. entries # <<>> /\ time <= entries[n].timestamp
        BY <1>2, <1>6 DEF TimestampRegression
    <2>2. entries[n].timestamp = MaxTimestamp
        BY <1>2, <2>1, NextTimestampAdvances
    <2> QED BY <2>1, <2>2 DEF Exhausted, trail
<1> QED BY <1>4, <1>5, <1>6

LEMMA BuildOutcome ==
    ASSUME IInv, NEW p \in Procs, Build(p)
    PROVE  \/ /\ pc' = [pc EXCEPT ![p] = "built"]
              /\ \E row \in Row :
                   /\ record' = [record EXCEPT ![p] = row]
                   /\ Successor(call[p].id, snapshot[p], row)
                   /\ Stores(call[p], row)
                   /\ handle[p] # Locked
                   /\ row.sealed.key = handle[p]
              /\ result' = result
           \/ /\ pc' = [pc EXCEPT ![p] = "done"]
              /\ \E status \in Refusals \ {"WriteConflict"} :
                   /\ result' = [result EXCEPT ![p] = Refused(status)]
                   /\ status = "Audit" =>
                        Exhausted(BaseTrail(call[p].id, snapshot[p]).entries)
              /\ record' = record
<1> PICK reading \in Clock :
      LET trail     == BaseTrail(call[p].id, snapshot[p])
          timestamp == NextTimestamp(trail.entries, reading)
          refusal   == BuildRefusal(call[p], handle[p], snapshot[p], timestamp)
      IN  \/ /\ refusal = "none"
             /\ GoTo(p, "built")
             /\ record' = [record EXCEPT ![p] =
                    Built(call[p], handle[p], snapshot[p], timestamp)]
             /\ UNCHANGED result
          \/ /\ refusal # "none"
             /\ Finish(p, Refused(refusal))
             /\ UNCHANGED record
    BY DEF Build
<1> DEFINE trail     == BaseTrail(call[p].id, snapshot[p])
           timestamp == NextTimestamp(trail.entries, reading)
           refusal   == BuildRefusal(call[p], handle[p], snapshot[p], timestamp)
           row       == Built(call[p], handle[p], snapshot[p], timestamp)
<1>1. pc[p] = "read"
    BY DEF Build, At
<1>2. /\ call[p] \in Requests /\ call[p].id # BadId /\ call[p].op \in Mutations
      /\ call[p].id \in Ids /\ handle[p] \in KeyHandles \cup {Locked}
      /\ Predecessor(call[p].id, snapshot[p])
      /\ call[p].op = "create" <=> (snapshot[p].revision = 0 \/ snapshot[p].deleted)
    BY <1>1, BuildInputs
<1>3. timestamp \in Timestamps
    <2>1. trail.entries \in Seq(Event)
        BY <1>2, BaseTrailFacts DEF Trail
    <2> QED BY <2>1, NextTimestampType, ContactAssumption
<1>6. reading \in Timestamps
    BY ContactAssumption
<1> HIDE DEF timestamp
<1>4. CASE refusal = "none"
    <2>1. row \in Row /\ Successor(call[p].id, snapshot[p], row) /\ Stores(call[p], row)
          /\ handle[p] # Locked
          /\ row.sealed.key = handle[p]
        BY <1>2, <1>3, <1>4, BuiltIsSuccessor
    <2>2. GoTo(p, "built") /\ record' = [record EXCEPT ![p] = row] /\ result' = result
        BY <1>4 DEF timestamp
    <2> HIDE DEF row
    <2> QED BY <2>1, <2>2 DEF GoTo
<1>5. CASE refusal # "none"
    <2>1. Finish(p, Refused(refusal)) /\ record' = record
        BY <1>5 DEF timestamp
    <2>2. refusal \in Refusals \ {"WriteConflict"}
        BY <1>5 DEF BuildRefusal, Refusals
    <2>3. refusal = "Audit" => Exhausted(trail.entries)
        <3> SUFFICES ASSUME AuditRefused(call[p].id, trail, timestamp) PROVE Exhausted(trail.entries)
            BY DEF BuildRefusal, timestamp
        <3> QED BY <1>2, <1>6, RefusedMeansExhausted DEF timestamp
    <2> HIDE DEF refusal, trail
    <2>4. result' = [result EXCEPT ![p] = Refused(refusal)] /\ pc' = [pc EXCEPT ![p] = "done"]
        BY <2>1 DEF Finish, GoTo
    <2>5. \E status \in Refusals \ {"WriteConflict"} :
             /\ result' = [result EXCEPT ![p] = Refused(status)]
             /\ status = "Audit" => Exhausted(trail.entries)
        BY <2>2, <2>3, <2>4
    <2> QED BY <2>1, <2>4, <2>5 DEF trail
<1> QED BY <1>4, <1>5

-----------------------------------------------------------------------------
(* The invariant is inductive, one conjunct at a time.                     *)

LEMMA AppendedHistory ==
    ASSUME IInv, NEW p \in Procs, AppendRow(p)
    PROVE  LET id == call[p].id
           IN  /\ id \in Ids
               /\ record[p] \in Row
               /\ revisions' = [revisions EXCEPT ![id] = Append(revisions[id], record[p])]
               /\ Len(revisions'[id]) = Len(revisions[id]) + 1
               /\ \A i \in 1..Len(revisions[id]) : revisions'[id][i] = revisions[id][i]
               /\ revisions'[id][Len(revisions[id]) + 1] = record[p]
               /\ \A other \in Ids \ {id} : revisions'[other] = revisions[other]
<1> DEFINE id == call[p].id
<1>1. pc[p] = "built" /\ ~ Conflicts(revisions[id], record[p])
    BY DEF AppendRow, At
<1>2. id \in Ids /\ record[p] \in Row
    BY <1>1, NoConflictMeansNewest DEF IInv, CallInv, RecordInv
<1>3. revisions \in [Ids -> Seq(Row)]
    BY DEF IInv, TypeOK
<1>4. revisions' = [revisions EXCEPT ![id] = Append(revisions[id], record[p])]
    BY DEF AppendRow, Inserted
<1> QED BY <1>2, <1>3, <1>4

LEMMA TypeStep ==
    ASSUME IInv, NEW p \in Procs, Step(p)
    PROVE  TypeOK'
<1> USE DEF IInv
<1>0. TypeOK /\ call[p] \in Requests \cup {NoCall}
    BY DEF TypeOK
<1>1. CASE Invoke(p)
    BY <1>0, <1>1 DEF TypeOK, Invoke, GoTo, Labels
<1>2. CASE Refusing(p)
    <2>1. PICK status \in Refusals :
            result' = [result EXCEPT ![p] = Refused(status)] /\ pc' = [pc EXCEPT ![p] = "done"]
        BY <1>2 DEF Refusing, RejectId, OpenFails, ReadFails, AppendConflicts, AppendFails,
                    Finish, GoTo, Refusals
    <2>2. UNCHANGED <<revisions, call, handle, snapshot, record>>
        BY <1>2 DEF Refusing, RejectId, OpenFails, ReadFails, AppendConflicts, AppendFails
    <2>3. Refused(status) \in Result
        BY RefusedType
    <2> QED BY <1>0, <2>1, <2>2, <2>3 DEF TypeOK, Labels
<1>3. CASE OpenStore(p)
    BY <1>0, <1>3 DEF TypeOK, OpenStore, GoTo, Labels
<1>4. CASE ReadForMutation(p)
    <2> DEFINE row     == Newest(revisions[call[p].id])
               refusal == ReadRefusal(call[p].op, handle[p], call[p].id, row)
    <2>1. CASE refusal = "none"
        <3>1. call[p].id \in Ids
            BY <1>4, RequestFacts DEF ReadForMutation, At, CallInv, RequestInv, Mutations
        <3>2. row \in Row \cup {NoRow}
            BY <1>0, <3>1 DEF TypeOK, Newest
        <3>3. /\ pc' = [pc EXCEPT ![p] = "read"]
              /\ snapshot' = [snapshot EXCEPT ![p] = row]
              /\ UNCHANGED <<revisions, call, handle, record, result>>
            BY <1>4, <2>1 DEF ReadForMutation, GoTo
        <3> QED BY <1>0, <3>2, <3>3 DEF TypeOK, Labels
    <2>2. CASE refusal # "none"
        <3>1. Refused(refusal) \in Result
            BY <2>2, ReadRefusalType, RefusedType
        <3>2. /\ pc' = [pc EXCEPT ![p] = "done"]
              /\ result' = [result EXCEPT ![p] = Refused(refusal)]
              /\ UNCHANGED <<revisions, call, handle, snapshot, record>>
            BY <1>4, <2>2 DEF ReadForMutation, Finish, GoTo
        <3> QED BY <1>0, <3>1, <3>2 DEF TypeOK, Labels
    <2> QED BY <2>1, <2>2
<1>5. CASE Get(p)
    <2> DEFINE row     == Newest(revisions[call[p].id])
               refusal == EditRefusal(row)
               given   == IF refusal = "none" THEN Viewed(handle[p], call[p].id, row)
                                              ELSE Refused(refusal)
    <2>1. call[p].id \in Ids
        BY <1>5, RequestFacts DEF Get, At, CallInv, RequestInv
    <2>2. given \in Result
        <3>1. CASE refusal = "none"
            <4>1. row # NoRow
                BY <3>1 DEF EditRefusal
            <4>2. row \in Row
                BY <1>0, <2>1, <4>1 DEF TypeOK, Newest
            <4> QED BY <2>1, <3>1, <4>2, ViewedType
        <3>2. CASE refusal # "none"
            BY <3>2, EditRefusalType, RefusedType
        <3> QED BY <3>1, <3>2
    <2>3. /\ pc' = [pc EXCEPT ![p] = "done"]
          /\ result' = [result EXCEPT ![p] = given]
          /\ UNCHANGED <<revisions, call, handle, snapshot, record>>
        BY <1>5 DEF Get, Finish, GoTo
    <2> HIDE DEF given
    <2> QED BY <1>0, <2>2, <2>3 DEF TypeOK, Labels
<1>6. CASE List(p)
    <2>1. Listed(handle[p], revisions) \in Result
        BY <1>0, ListedType
    <2> QED BY <1>0, <1>6, <2>1 DEF TypeOK, Labels, List, Finish, GoTo
<1>7. CASE Build(p)
    <2>1. UNCHANGED <<revisions, call, handle, snapshot>>
        BY <1>7 DEF Build
    <2>2. \A status \in Refusals : Refused(status) \in Result
        BY RefusedType
    <2>3. /\ pc' \in [Procs -> Labels]
          /\ record' \in [Procs -> Row \cup {NoRow}]
        BY <1>0, <1>7, BuildOutcome DEF TypeOK, Labels
    <2>4. result' \in [Procs -> Result]
        BY <1>0, <1>7, <2>2, BuildOutcome DEF TypeOK
    <2> QED BY <1>0, <2>1, <2>3, <2>4 DEF TypeOK
<1>8. CASE AppendRow(p)
    <2>1. /\ call[p].id \in Ids /\ record[p] \in Row
          /\ revisions' = [revisions EXCEPT ![call[p].id] = Append(revisions[call[p].id], record[p])]
        BY <1>8, AppendedHistory
    <2>2. Append(revisions[call[p].id], record[p]) \in Seq(Row)
        BY <1>0, <2>1 DEF TypeOK
    <2>3. revisions' \in [Ids -> Seq(Row)]
        BY <1>0, <2>1, <2>2 DEF TypeOK
    <2>4. pc' = [pc EXCEPT ![p] = "appended"]
          /\ UNCHANGED <<call, handle, snapshot, record, result>>
        BY <1>8 DEF AppendRow, GoTo
    <2> QED BY <1>0, <2>3, <2>4 DEF TypeOK, Labels
<1>9. CASE ReturnView(p)
    <2>1. pc[p] = "appended"
        BY <1>9 DEF ReturnView, At
    <2>2. call[p].id \in Ids /\ record[p] \in Row
        BY <2>1, RequestFacts DEF CallInv, RequestInv, RecordInv, Mutations
    <2>3. Viewed(handle[p], call[p].id, record[p]) \in Result
        BY <2>2, ViewedType
    <2> QED BY <1>0, <1>9, <2>3 DEF TypeOK, Labels, ReturnView, Finish, GoTo
<1>10. CASE Return(p) \/ Crash(p)
    <2>1. NoResult \in Result
        BY DEF NoResult, Result
    <2>2. /\ pc' = [pc EXCEPT ![p] = "idle"]
          /\ call' = [call EXCEPT ![p] = NoCall]
          /\ handle' = [handle EXCEPT ![p] = Locked]
          /\ snapshot' = [snapshot EXCEPT ![p] = NoRow]
          /\ record' = [record EXCEPT ![p] = NoRow]
          /\ result' = [result EXCEPT ![p] = NoResult]
          /\ revisions' = revisions
        BY <1>10 DEF Return, Crash, Leave, GoTo
    <2>3. /\ revisions' \in [Ids -> Seq(Row)]
          /\ pc' \in [Procs -> Labels]
          /\ call' \in [Procs -> Requests \cup {NoCall}]
          /\ handle' \in [Procs -> KeyHandles \cup {Locked}]
        BY <1>0, <2>2 DEF TypeOK, Labels
    <2>4. /\ snapshot' \in [Procs -> Row \cup {NoRow}]
          /\ record' \in [Procs -> Row \cup {NoRow}]
          /\ result' \in [Procs -> Result]
        BY <1>0, <2>1, <2>2 DEF TypeOK
    <2> QED BY <2>3, <2>4 DEF TypeOK
<1> QED BY <1>1, <1>2, <1>3, <1>4, <1>5, <1>6, <1>7, <1>8, <1>9, <1>10
        DEF Step, Work, Refusing

LEMMA ChainStep ==
    ASSUME IInv, NEW p \in Procs, Step(p)
    PROVE  ChainInv'
<1>1. CASE ~ AppendRow(p)
    <2>1. revisions' = revisions
        BY <1>1, TableFrame
    <2> QED BY <2>1 DEF IInv, ChainInv, RowAt
<1>2. CASE AppendRow(p)
    <2> DEFINE own == call[p].id
               n   == Len(revisions[own])
    <2>1. /\ own \in Ids
          /\ Len(revisions'[own]) = n + 1
          /\ \A i \in 1..n : revisions'[own][i] = revisions[own][i]
          /\ revisions'[own][n + 1] = record[p]
          /\ \A other \in Ids \ {own} : revisions'[other] = revisions[other]
        BY <1>2, AppendedHistory
    <2>2. revisions \in [Ids -> Seq(Row)] /\ revisions' \in [Ids -> Seq(Row)]
        BY TypeStep DEF IInv, TypeOK
    <2>3. /\ snapshot[p] = RowAt(own, n)
          /\ record[p].revision = n + 1
          /\ Successor(own, snapshot[p], record[p])
        <3>1. pc[p] = "built" /\ ~ Conflicts(revisions[own], record[p])
            BY <1>2 DEF AppendRow, At
        <3> QED BY <3>1, NoConflictMeansNewest, NewestIsRowAt DEF IInv, CallInv, RecordInv
    <2> SUFFICES ASSUME NEW id \in Ids, NEW i \in DOMAIN revisions'[id]
                 PROVE  /\ revisions'[id][i].revision = i
                        /\ Successor(id, RowAt(id, i - 1)', revisions'[id][i])
        BY DEF ChainInv
    <2>4. CASE id # own
        <3>1. revisions'[id] = revisions[id]
            BY <2>1, <2>4
        <3>2. RowAt(id, i - 1)' = RowAt(id, i - 1)
            BY <3>1 DEF RowAt
        <3> QED BY <3>1, <3>2 DEF IInv, ChainInv
    <2>5. CASE id = own /\ i \in 1..n
        <3>1. i \in DOMAIN revisions[id] /\ revisions'[id][i] = revisions[id][i]
            BY <2>1, <2>2, <2>5
        <3>2. RowAt(id, i - 1)' = RowAt(id, i - 1)
            BY <2>1, <2>2, <2>5 DEF RowAt
        <3> QED BY <3>1, <3>2 DEF IInv, ChainInv
    <2>6. CASE id = own /\ i = n + 1
        <3>1. n \in Nat /\ i - 1 = n
            BY <2>2, <2>6
        <3>2. RowAt(id, i - 1)' = RowAt(id, i - 1)
            BY <2>1, <2>6, <3>1 DEF RowAt
        <3> QED BY <2>1, <2>3, <2>6, <3>1, <3>2
    <2>7. id = own => i \in 1..n \/ i = n + 1
        BY <2>1, <2>2
    <2> QED BY <2>4, <2>5, <2>6, <2>7
<1> QED BY <1>1, <1>2

\* Histories only grow.
LEMMA HistoryGrows ==
    ASSUME IInv, NEW p \in Procs, Step(p), NEW id \in Ids
    PROVE  /\ DOMAIN revisions[id] = 1..Len(revisions[id])
           /\ DOMAIN revisions'[id] = 1..Len(revisions'[id])
           /\ Len(revisions[id]) \in Nat
           /\ Len(revisions'[id]) \in Nat
           /\ Len(revisions[id]) <= Len(revisions'[id])
           /\ \A i \in 1..Len(revisions[id]) : revisions'[id][i] = revisions[id][i]
<1>1. revisions[id] \in Seq(Row) /\ revisions'[id] \in Seq(Row)
    BY TypeStep DEF IInv, TypeOK
<1>2. CASE ~ AppendRow(p)
    <2>1. revisions' = revisions
        BY <1>2, TableFrame
    <2> QED BY <1>1, <2>1
<1>3. CASE AppendRow(p) /\ id = call[p].id
    BY <1>1, <1>3, AppendedHistory
<1>4. CASE AppendRow(p) /\ id # call[p].id
    <2>1. revisions'[id] = revisions[id]
        BY <1>4, AppendedHistory
    <2> QED BY <1>1, <2>1
<1> QED BY <1>2, <1>3, <1>4

\* What holds of a call goes on holding while its variables stay.
LEMMA CallFrame ==
    ASSUME IInv, NEW p \in Procs, Step(p), NEW q \in Procs,
           UNCHANGED <<pc[q], call[q], handle[q], snapshot[q], record[q], result[q]>>
    PROVE  CallInv(q)'
<1>1. CallInv(q)
    BY DEF IInv
<1>2. RequestInv(q)'
    BY <1>1 DEF CallInv, RequestInv
<1>3. pc[q] \in {"read", "built", "appended"} => call[q].id \in Ids
    BY <1>1, RequestFacts DEF CallInv, RequestInv, Mutations
<1>4. SnapshotInv(q)'
    <2> SUFFICES ASSUME pc[q] \in {"read", "built", "appended"}
                 PROVE  /\ snapshot[q].revision \in 0..Len(revisions'[call[q].id])
                        /\ snapshot[q] = (IF snapshot[q].revision = 0 THEN NoRow
                                          ELSE revisions'[call[q].id][snapshot[q].revision])
        BY <1>1 DEF CallInv, SnapshotInv, RowAt
    <2>1. /\ snapshot[q].revision \in 0..Len(revisions[call[q].id])
          /\ snapshot[q] = RowAt(call[q].id, snapshot[q].revision)
        BY <1>1 DEF CallInv, SnapshotInv
    <2> QED BY <1>3, <2>1, HistoryGrows DEF RowAt
<1>5. RecordInv(q)'
    BY <1>1, <1>3, HistoryGrows DEF CallInv, RecordInv
<1>6. ResultInv(q)'
    <2>1. result[q].views \in SUBSET View
        BY DEF IInv, TypeOK, Result
    <2>2. \A v \in result[q].views : v.id \in Ids
        BY <2>1 DEF View
    <2>3. result[q].status = "WriteConflict" /\ result[q] = result'[q] =>
             call[q].id \in Ids /\ Len(revisions'[call[q].id]) > snapshot[q].revision
        <3> SUFFICES ASSUME result[q].status = "WriteConflict"
                     PROVE  call[q].id \in Ids /\ Len(revisions'[call[q].id]) > snapshot[q].revision
            OBVIOUS
        <3>1. call[q].id \in Ids /\ Len(revisions[call[q].id]) > snapshot[q].revision
            BY <1>1 DEF CallInv, ResultInv
        <3>2. snapshot[q].revision \in Nat
            BY NoRowRevision DEF IInv, TypeOK, Row
        <3> QED BY <3>1, <3>2, HistoryGrows
    <2>4. result[q].status = "Ok" /\ call[q].op \in Mutations =>
             \A v \in result[q].views :
                /\ v.revision \in DOMAIN revisions'[v.id]
                /\ v = ViewOf(v.id, revisions'[v.id][v.revision])
        BY <1>1, <2>2, HistoryGrows DEF CallInv, ResultInv
    <2> QED BY <1>1, <2>3, <2>4 DEF CallInv, ResultInv
<1> QED BY <1>2, <1>4, <1>5, <1>6 DEF CallInv

\* A call that ends with a refusal promises nothing, save for two statuses.
LEMMA RefusedCall ==
    ASSUME IInv, NEW p \in Procs, Step(p), NEW status \in Refusals,
           pc'[p] = "done", result'[p] = Refused(status), call'[p] = call[p],
           snapshot'[p] = snapshot[p], call[p] \in Requests,
           status = "WriteConflict" =>
             call[p].id \in Ids /\ Len(revisions'[call[p].id]) > snapshot[p].revision,
           status = "Audit" => Exhausted(BaseTrail(call[p].id, snapshot[p]).entries)
    PROVE  CallInv(p)'
<1>1. result'[p].status = status /\ status # "Ok"
    BY DEF Refused, Refusals
<1> QED BY <1>1 DEF CallInv, RequestInv, SnapshotInv, RecordInv, ResultInv

LEMMA OwnCallStep ==
    ASSUME IInv, NEW p \in Procs, Step(p)
    PROVE  CallInv(p)'
<1> USE DEF IInv
<1>0. /\ TypeOK /\ CallInv(p) /\ RequestInv(p) /\ SnapshotInv(p) /\ RecordInv(p) /\ ResultInv(p)
      /\ pc \in [Procs -> Labels] /\ result \in [Procs -> Result]
      /\ snapshot \in [Procs -> Row \cup {NoRow}] /\ record \in [Procs -> Row \cup {NoRow}]
      /\ call \in [Procs -> Requests \cup {NoCall}]
    BY DEF TypeOK, CallInv
<1>1. CASE Invoke(p)
    <2>1. pc[p] = "idle" /\ pc'[p] = "called" /\ call'[p] \in Requests /\ result'[p] = result[p]
        BY <1>0, <1>1 DEF Invoke, At, GoTo
    <2>2. result'[p] = NoResult
        BY <1>0, <2>1 DEF ResultInv
    <2> QED BY <2>1, <2>2 DEF CallInv, RequestInv, SnapshotInv, RecordInv, ResultInv, NoResult
<1>2. CASE RejectId(p) \/ OpenFails(p) \/ ReadFails(p) \/ AppendFails(p)
    <2>1. PICK status \in Refusals \ {"WriteConflict", "Audit"} :
            pc' = [pc EXCEPT ![p] = "done"] /\ result' = [result EXCEPT ![p] = Refused(status)]
        BY <1>2 DEF RejectId, OpenFails, ReadFails, AppendFails, Finish, GoTo, Refusals
    <2>2. pc[p] # "idle" /\ call' = call /\ snapshot' = snapshot
        BY <1>2 DEF RejectId, OpenFails, ReadFails, AppendFails, At
    <2> QED BY <1>0, <2>1, <2>2, RefusedCall DEF RequestInv
<1>3. CASE AppendConflicts(p)
    <2>1. /\ pc[p] = "built" /\ call' = call /\ snapshot' = snapshot /\ revisions' = revisions
          /\ pc' = [pc EXCEPT ![p] = "done"]
          /\ result' = [result EXCEPT ![p] = Refused("WriteConflict")]
          /\ Conflicts(revisions[call[p].id], record[p])
        BY <1>3 DEF AppendConflicts, At, Finish, GoTo
    <2>2. call[p] \in Requests /\ call[p].id \in Ids
        BY <1>0, <2>1, RequestFacts DEF RequestInv, Mutations
    <2>3. PICK i \in DOMAIN revisions[call[p].id] :
            revisions[call[p].id][i].revision = record[p].revision
        BY <2>1 DEF Conflicts
    <2>4. i = snapshot[p].revision + 1
        <3>1. revisions[call[p].id][i].revision = i
            BY <2>2, <2>3 DEF ChainInv
        <3>2. record[p].revision = snapshot[p].revision + 1
            BY <1>0, <2>1 DEF RecordInv, Successor
        <3> QED BY <2>3, <3>1, <3>2
    <2>5. snapshot[p].revision \in Nat
        BY <1>0, NoRowRevision DEF Row
    <2>6. Len(revisions[call[p].id]) > snapshot[p].revision
        BY <2>2, <2>3, <2>4, <2>5, HistoryGrows
    <2> QED BY <1>0, <2>1, <2>2, <2>6, RefusedCall DEF Refusals
<1>4. CASE OpenStore(p)
    <2>1. /\ pc[p] = "called" /\ pc'[p] = "opened" /\ call'[p] = call[p]
          /\ call[p].id # BadId /\ result'[p] = result[p]
        BY <1>0, <1>4 DEF OpenStore, At, GoTo
    <2>2. result[p] = NoResult
        BY <1>0, <2>1 DEF ResultInv
    <2> QED BY <1>0, <2>1, <2>2 DEF CallInv, RequestInv, SnapshotInv, RecordInv, ResultInv, NoResult
<1>5. CASE ReadForMutation(p)
    <2> DEFINE id      == call[p].id
               row     == Newest(revisions[id])
               refusal == ReadRefusal(call[p].op, handle[p], id, row)
    <2>1. /\ pc[p] = "opened" /\ call[p] \in Requests /\ call[p].id # BadId
          /\ call[p].op \in Mutations
        BY <1>0, <1>5 DEF ReadForMutation, At, RequestInv
    <2>2. id \in Ids
        BY <2>1, RequestFacts DEF Mutations
    <2>3. CASE refusal = "none"
        <3>1. /\ pc'[p] = "read" /\ snapshot'[p] = row /\ call'[p] = call[p]
              /\ revisions' = revisions /\ result'[p] = result[p]
            BY <1>0, <1>5, <2>3 DEF ReadForMutation, GoTo
        <3>2. result'[p] = NoResult
            BY <1>0, <2>1, <3>1 DEF ResultInv
        <3>3. /\ Len(revisions[id]) \in Nat
              /\ row = RowAt(id, Len(revisions[id]))
              /\ row.revision = Len(revisions[id])
            BY <2>2, NewestIsRowAt
        <3>4. call[p].op = "create" <=> (row.revision = 0 \/ row.deleted)
            <4>1. row = NoRow <=> row.revision = 0
                BY <3>3, NoRowRevision DEF RowAt
            <4>2. CASE call[p].op = "create"
                BY <2>3, <4>1, <4>2 DEF ReadRefusal, CreateRefusal
            <4>3. CASE call[p].op # "create"
                <5>1. EditRefusal(row) = "none"
                    BY <2>3, <4>3 DEF ReadRefusal, DeleteRefusal
                <5> QED BY <4>1, <4>3, <5>1 DEF EditRefusal
            <4> QED BY <4>2, <4>3
        <3> HIDE DEF row
        <3>5. SnapshotInv(p)'
            BY <3>1, <3>3, <3>4 DEF SnapshotInv, RowAt
        <3> QED BY <2>1, <3>1, <3>2, <3>5 DEF CallInv, RequestInv, RecordInv, ResultInv, NoResult
    <2>4. CASE refusal # "none"
        <3>1. /\ pc'[p] = "done" /\ result'[p] = Refused(refusal) /\ call'[p] = call[p]
              /\ snapshot'[p] = snapshot[p]
            BY <1>0, <1>5, <2>4 DEF ReadForMutation, Finish, GoTo
        <3>2. refusal \in Refusals \ {"WriteConflict", "Audit"}
            BY <2>4 DEF ReadRefusal, CreateRefusal, DeleteRefusal, EditRefusal, Refusals
        <3> HIDE DEF refusal
        <3> QED BY <2>1, <3>1, <3>2, RefusedCall
    <2> QED BY <2>3, <2>4
<1>6. CASE Get(p) \/ List(p)
    <2>1. /\ pc[p] = "opened" /\ pc'[p] = "done" /\ call'[p] = call[p]
          /\ snapshot'[p] = snapshot[p] /\ call[p].op \notin Mutations
        BY <1>0, <1>6 DEF Get, List, At, Finish, GoTo, Mutations
    <2>2. result'[p].status \notin {"WriteConflict", "Audit"}
        <3>1. CASE Get(p)
            BY <1>0, <3>1 DEF Get, Finish, EditRefusal, Viewed, Refused
        <3>2. CASE List(p)
            BY <1>0, <3>2 DEF List, Finish, Listed, Refused
        <3> QED BY <1>6, <3>1, <3>2
    <2> QED BY <1>0, <2>1, <2>2 DEF CallInv, RequestInv, SnapshotInv, RecordInv, ResultInv
<1>7. CASE Build(p)
    <2>1. /\ pc[p] = "read" /\ revisions' = revisions /\ call' = call /\ handle' = handle
          /\ snapshot' = snapshot
        BY <1>7 DEF Build, At
    <2>2. call[p] \in Requests
        BY <2>1, BuildInputs
    <2>3. CASE pc' = [pc EXCEPT ![p] = "built"]
        <3>1. PICK row \in Row :
                /\ record' = [record EXCEPT ![p] = row]
                /\ Successor(call[p].id, snapshot[p], row)
                /\ Stores(call[p], row)
                /\ handle[p] # Locked
                /\ row.sealed.key = handle[p]
                /\ result' = result
            <4>1. pc' # [pc EXCEPT ![p] = "done"]
                <5>1. [pc EXCEPT ![p] = "built"][p] = "built" /\ [pc EXCEPT ![p] = "done"][p] = "done"
                    BY <1>0
                <5> QED BY <2>3, <5>1
            <4> QED BY <1>7, <4>1, BuildOutcome
        <3>2. pc'[p] = "built" /\ record'[p] = row /\ result'[p] = NoResult
            BY <1>0, <2>1, <2>3, <3>1 DEF ResultInv
        <3>3. SnapshotInv(p)'
            BY <1>0, <2>1, <3>2 DEF SnapshotInv, RowAt
        <3>4. RecordInv(p)'
            BY <2>1, <3>1, <3>2 DEF RecordInv
        <3> QED BY <1>0, <2>1, <3>2, <3>3, <3>4 DEF CallInv, RequestInv, ResultInv, NoResult
    <2>4. CASE pc' = [pc EXCEPT ![p] = "done"]
        <3>1. PICK status \in Refusals \ {"WriteConflict"} :
                /\ result' = [result EXCEPT ![p] = Refused(status)]
                /\ status = "Audit" => Exhausted(BaseTrail(call[p].id, snapshot[p]).entries)
            BY <1>0, <1>7, <2>4, BuildOutcome
        <3> QED BY <1>0, <2>1, <2>2, <2>4, <3>1, RefusedCall
    <2> QED BY <1>7, <2>3, <2>4, BuildOutcome
<1>8. CASE AppendRow(p)
    <2>1. /\ pc[p] = "built" /\ pc'[p] = "appended" /\ ~ Conflicts(revisions[call[p].id], record[p])
          /\ call' = call /\ handle' = handle /\ snapshot' = snapshot /\ record' = record
          /\ result' = result
        BY <1>0, <1>8 DEF AppendRow, At, GoTo
    <2>2. /\ call[p].id \in Ids
          /\ snapshot[p].revision = Len(revisions[call[p].id])
          /\ record[p].revision = Len(revisions[call[p].id]) + 1
          /\ snapshot[p] = RowAt(call[p].id, snapshot[p].revision)
        BY <2>1, NoConflictMeansNewest, NewestIsRowAt
    <2>3. /\ revisions'[call[p].id][record[p].revision] = record[p]
          /\ record[p].revision \in DOMAIN revisions'[call[p].id]
        BY <1>8, <2>2, AppendedHistory, HistoryGrows
    <2>4. SnapshotInv(p)'
        <3>1. snapshot[p].revision \in 0..Len(revisions'[call[p].id])
            BY <2>2, HistoryGrows
        <3>2. snapshot[p].revision # 0 =>
                 revisions'[call[p].id][snapshot[p].revision] = revisions[call[p].id][snapshot[p].revision]
            BY <2>2, HistoryGrows
        <3> QED BY <1>0, <2>1, <2>2, <3>1, <3>2 DEF SnapshotInv, RowAt
    <2>5. RecordInv(p)'
        BY <1>0, <2>1, <2>3 DEF RecordInv
    <2>6. result'[p] = NoResult
        BY <1>0, <2>1 DEF ResultInv
    <2> QED BY <1>0, <2>1, <2>4, <2>5, <2>6 DEF CallInv, RequestInv, ResultInv, NoResult
<1>9. CASE ReturnView(p)
    <2>1. /\ pc[p] = "appended" /\ pc'[p] = "done" /\ revisions' = revisions /\ call' = call
          /\ snapshot' = snapshot /\ record' = record
          /\ result'[p] = Viewed(handle[p], call[p].id, record[p])
        BY <1>0, <1>9 DEF ReturnView, At, Finish, GoTo
    <2>2. Viewed(handle[p], call[p].id, record[p])
            = [status |-> "Ok", views |-> {ViewOf(call[p].id, record[p])}]
        BY <1>0, <2>1 DEF Viewed, Openable, RecordInv, Successor
    <2>3. \A v \in result'[p].views :
            /\ v.revision \in DOMAIN revisions'[v.id]
            /\ v = ViewOf(v.id, revisions'[v.id][v.revision])
        <3> SUFFICES LET v == ViewOf(call[p].id, record[p])
                     IN  /\ v.revision \in DOMAIN revisions[v.id]
                         /\ v = ViewOf(v.id, revisions[v.id][v.revision])
            BY <2>1, <2>2
        <3> QED BY <1>0, <2>1 DEF RecordInv, ViewOf
    <2> QED BY <1>0, <2>1, <2>2, <2>3 DEF CallInv, RequestInv, SnapshotInv, RecordInv, ResultInv
<1>10. CASE Return(p) \/ Crash(p)
    <2>1. pc'[p] = "idle" /\ call'[p] = NoCall /\ result'[p] = NoResult
        BY <1>0, <1>10 DEF Return, Crash, Leave, GoTo
    <2> QED BY <2>1 DEF CallInv, RequestInv, SnapshotInv, RecordInv, ResultInv, NoResult
<1> QED BY <1>1, <1>2, <1>3, <1>4, <1>5, <1>6, <1>7, <1>8, <1>9, <1>10 DEF Step, Work

-----------------------------------------------------------------------------
(* Theorems.                                                               *)

LEMMA InitInvariant == Init => IInv
<1> SUFFICES ASSUME Init PROVE IInv
    OBVIOUS
<1> USE DEF Init
<1>1. TypeOK
    BY DEF TypeOK, Labels, NoResult, Result
<1>2. ChainInv
    BY DEF ChainInv
<1>3. ASSUME NEW p \in Procs PROVE CallInv(p)
    BY DEF CallInv, RequestInv, SnapshotInv, RecordInv, ResultInv, NoResult
<1> QED BY <1>1, <1>2, <1>3 DEF IInv

LEMMA StepInvariant == IInv /\ [Next]_vars => IInv'
<1> SUFFICES ASSUME IInv, [Next]_vars PROVE IInv'
    OBVIOUS
<1>1. CASE Next
    <2>1. PICK p \in Procs : Step(p)
        BY <1>1 DEF Next, Step
    <2>2. TypeOK' /\ ChainInv'
        BY <2>1, TypeStep, ChainStep
    <2>3. ASSUME NEW q \in Procs PROVE CallInv(q)'
        <3>1. CASE q = p
            BY <2>1, <3>1, OwnCallStep
        <3>2. CASE q # p
            BY <2>1, <3>2, StepFrame, CallFrame DEF IInv
        <3> QED BY <3>1, <3>2
    <2> QED BY <2>2, <2>3 DEF IInv
<1>2. CASE UNCHANGED vars
    BY <1>2 DEF vars, IInv, TypeOK, ChainInv, RowAt, CallInv, RequestInv, SnapshotInv,
                RecordInv, ResultInv
<1> QED BY <1>1, <1>2

\* The inductive invariant holds of every reachable state.
THEOREM Invariance == Spec => []IInv
BY InitInvariant, StepInvariant, PTL DEF Spec

\* Every variable has the shape the code gives it.
THEOREM TypeCorrect == Spec => []TypeOK
<1>1. IInv => TypeOK
    BY DEF IInv
<1> QED BY <1>1, Invariance, PTL

\* Revisions are 1, 2, 3, ... in insertion order, whoever races: the UNIQUE
\* constraint makes up for the read and the insert being two statements.
THEOREM RevisionsAreOrdered == Spec => []RevisionIsPosition
<1>1. IInv => RevisionIsPosition
    BY DEF IInv, ChainInv, RevisionIsPosition
<1> QED BY <1>1, Invariance, PTL

\* Every revision's trail is its predecessor's and one event more.
THEOREM TrailsAreContinued == Spec => []TrailContinuity
<1>1. ASSUME IInv, NEW id \in Ids, NEW i \in DOMAIN revisions[id]
      PROVE  /\ Len(revisions[id][i].audit.entries) = i
             /\ revisions[id][i].audit.subject = id
             /\ i > 1 => \A k \in 1..i - 1 :
                  revisions[id][i].audit.entries[k] = revisions[id][i - 1].audit.entries[k]
    <2>1. revisions[id] \in Seq(Row)
        BY <1>1 DEF IInv, TypeOK
    <2>2. /\ revisions[id][i].revision = i
          /\ Successor(id, RowAt(id, i - 1), revisions[id][i])
        BY <1>1 DEF IInv, ChainInv
    <2>3. i - 1 \in 0..Len(revisions[id])
        BY <2>1
    <2>4. RowAt(id, i - 1).revision = i - 1
        BY <1>1, <2>3, RowAtFacts DEF IInv
    <2>5. i > 1 => RowAt(id, i - 1) = revisions[id][i - 1]
        BY <2>1 DEF RowAt
    <2>6. /\ Len(revisions[id][i].audit.entries) = i
          /\ revisions[id][i].audit.subject = id
          /\ \A k \in 1..i - 1 :
               revisions[id][i].audit.entries[k] = RowAt(id, i - 1).audit.entries[k]
        BY <2>2, <2>4 DEF Successor
    <2> QED BY <2>5, <2>6
<1>2. IInv => TrailContinuity
    BY <1>1 DEF TrailContinuity
<1> QED BY <1>2, Invariance, PTL

\* What the chain of successors makes of a record's lives.
LEMMA LifeFacts == IInv => LifecycleLegal /\ TombstoneKeepsFields
<1>1. ASSUME IInv, NEW id \in Ids, NEW i \in DOMAIN revisions[id]
      PROVE  LET row     == revisions[id][i]
                 action  == row.audit.entries[Len(row.audit.entries)].action
                 wasLive == i > 1 /\ ~ revisions[id][i - 1].deleted
             IN  /\ action = "created" <=> ~ wasLive
                 /\ action = "soft_deleted" <=> row.deleted
                 /\ row.deleted =>
                      i > 1 /\ row.sealed.payload = revisions[id][i - 1].sealed.payload
    <2>1. revisions[id] \in Seq(Row)
        BY <1>1 DEF IInv, TypeOK
    <2>2. Successor(id, RowAt(id, i - 1), revisions[id][i])
        BY <1>1 DEF IInv, ChainInv
    <2>3. i - 1 \in 0..Len(revisions[id])
        BY <2>1
    <2>4. RowAt(id, i - 1).revision = i - 1
        BY <1>1, <2>3, RowAtFacts DEF IInv
    <2>5. i > 1 => RowAt(id, i - 1) = revisions[id][i - 1]
        BY <2>1 DEF RowAt
    <2>6. i - 1 = 0 <=> ~ (i > 1)
        BY <2>1
    <2> QED BY <2>2, <2>4, <2>5, <2>6 DEF Successor
<1> QED BY <1>1 DEF LifecycleLegal, TombstoneKeepsFields

\* A record is created only out of nothing or a tombstone, and updated and
\* deleted only while it lives.
THEOREM LivesAreLegal == Spec => []LifecycleLegal
<1>1. IInv => LifecycleLegal
    BY LifeFacts
<1> QED BY <1>1, Invariance, PTL

\* A tombstone keeps the fields of the row it retires, also when another process
\* replaced them while soft_delete was under way.
THEOREM TombstonesAreFaithful == Spec => []TombstoneKeepsFields
<1>1. IInv => TombstoneKeepsFields
    BY LifeFacts
<1> QED BY <1>1, Invariance, PTL

\* Whatever the clock did, the deserializer takes back every stored trail.
THEOREM HistoriesAreReadable == Spec => []HistoryReadable
<1>1. IInv => HistoryReadable
    BY DEF IInv, ChainInv, Successor, HistoryReadable
<1> QED BY <1>1, Invariance, PTL

\* A conflict is reported only to a call that was overtaken.
THEOREM ConflictsAreTrue == Spec => []ConflictMeansOvertaken
<1>1. IInv => ConflictMeansOvertaken
    BY DEF IInv, CallInv, ResultInv, ConflictMeansOvertaken
<1> QED BY <1>1, Invariance, PTL

\* What a mutation reported as done is in the history as reported.
THEOREM AcknowledgementsAreTrue == Spec => []AcknowledgedIsStored
<1>1. IInv => AcknowledgedIsStored
    BY DEF IInv, CallInv, ResultInv, AcknowledgedIsStored
<1> QED BY <1>1, Invariance, PTL

\* No reading of the clock makes the audit trail refuse an edit, until the last
\* timestamp is reached or the trail is full.
THEOREM ClockIsHarmless == Spec => []AuditRefusesOnlyExhausted
<1>1. IInv => AuditRefusesOnlyExhausted
    BY DEF IInv, CallInv, ResultInv, AuditRefusesOnlyExhausted
<1> QED BY <1>1, Invariance, PTL

\* An insert succeeds only on top of the row its call had read.
THEOREM WritesAreNotStale == Spec => NoStaleWrite
<1>1. IInv /\ [Next]_vars =>
        [\A p \in Procs : At(p, "built") /\ pc'[p] = "appended" =>
            Newest(revisions[call[p].id]) = snapshot[p]]_vars
    <2> SUFFICES ASSUME IInv, Next, NEW p \in Procs, pc[p] = "built", pc'[p] = "appended"
                 PROVE  Newest(revisions[call[p].id]) = snapshot[p]
        BY DEF At
    <2>1. PICK q \in Procs : Step(q)
        BY DEF Next, Step
    <2>2. q = p
        BY <2>1, StepFrame DEF IInv
    <2>3. pc \in [Procs -> Labels]
        BY DEF IInv, TypeOK
    <2>4. ~ Conflicts(revisions[call[p].id], record[p])
        BY <2>1, <2>2, <2>3 DEF Step, Work, Invoke, RejectId, OpenStore, OpenFails, ReadFails,
              ReadForMutation, Get, List, Build, AppendRow, AppendConflicts, AppendFails,
              ReturnView, Return, Crash, Leave, Finish, GoTo, At
    <2> QED BY <2>4, NoConflictMeansNewest
<1> QED BY <1>1, Invariance, PTL DEF Spec, NoStaleWrite

\* A row never lies under another record's id, so that the list of a caller that
\* holds a key fails to decrypt only at a live row of another key.
THEOREM ListsAreBlockedByForeignRows == Spec => ListBlockedOnlyByLiveForeignRow
<1>1. IInv /\ [Next]_vars =>
        [\A p \in Procs :
            At(p, "opened") /\ call[p].op = "list" /\ result'[p].status = "Encryption" =>
                handle[p] = Locked \/ LiveForeignRow(handle[p])]_vars
    <2> SUFFICES ASSUME IInv, Next, NEW p \in Procs, pc[p] = "opened", call[p].op = "list",
                        result'[p].status = "Encryption"
                 PROVE  handle[p] = Locked \/ LiveForeignRow(handle[p])
        BY DEF At
    <2>1. PICK q \in Procs : Step(q)
        BY DEF Next, Step
    <2>2. result[p] = NoResult /\ result \in [Procs -> Result]
        BY DEF IInv, CallInv, ResultInv, TypeOK
    <2>3. q = p
        BY <2>1, <2>2, StepFrame DEF IInv, NoResult
    <2>4. List(p)
        BY <2>1, <2>2, <2>3 DEF Step, Work, Invoke, RejectId, OpenStore, OpenFails, ReadFails,
              ReadForMutation, Get, Build, AppendRow, AppendConflicts, AppendFails, ReturnView,
              Return, Crash, Leave, Finish, At, Refused, NoResult, Mutations
    <2>5. Listed(handle[p], revisions).status = "Encryption"
        BY <2>2, <2>4 DEF List, Finish
    <2>6. PICK id \in Ids : /\ revisions[id] # <<>>
                            /\ ~ Newest(revisions[id]).deleted
                            /\ ~ Openable(handle[p], id, Newest(revisions[id]).sealed)
        BY <2>5 DEF Listed, Refused
    <2>7. revisions[id] \in Seq(Row)
        BY DEF IInv, TypeOK
    <2>8. Newest(revisions[id]).sealed.id = id
        <3>1. /\ Len(revisions[id]) \in DOMAIN revisions[id]
              /\ Newest(revisions[id]) = revisions[id][Len(revisions[id])]
            BY <2>6, <2>7 DEF Newest
        <3> QED BY <3>1 DEF IInv, ChainInv, Successor
    <2> QED BY <2>6, <2>8 DEF Openable, LiveForeignRow
<1> QED BY <1>1, Invariance, PTL DEF Spec, ListBlockedOnlyByLiveForeignRow

-----------------------------------------------------------------------------
(* The registers: every step of ContactStore is a step of ContactRegister, *)
(* or leaves the registers as they are.                                    *)

contactBar == [id \in Ids |-> CurrentContact(revisions[id])]

outcomeBar == [p \in Procs |-> EarnedOutcome(p)]

\* The register of an id is what its newest row says, if there is one.
LEMMA ContactBarFacts ==
    ASSUME IInv, NEW id \in Ids
    PROVE  LET row == Newest(revisions[id])
           IN  /\ contactBar[id].revision = row.revision
               /\ row = NoRow <=> row.revision = 0
               /\ row = NoRow =>
                    contactBar[id] = [revision |-> 0, deleted |-> FALSE, payload |-> NoInput]
               /\ row # NoRow =>
                    /\ row \in Row
                    /\ contactBar[id] = [revision |-> row.revision, deleted |-> row.deleted,
                                         payload |-> row.sealed.payload]
<1>1. revisions[id] \in Seq(Row)
    BY DEF IInv, TypeOK
<1>2. /\ Len(revisions[id]) \in Nat
      /\ Newest(revisions[id]).revision = Len(revisions[id])
    BY NewestIsRowAt DEF IInv
<1>3. CASE revisions[id] = <<>>
    BY <1>1, <1>2, <1>3, NoRowRevision DEF contactBar, CurrentContact, Newest
<1>4. CASE revisions[id] # <<>>
    <2>1. /\ Newest(revisions[id]) = revisions[id][Len(revisions[id])]
          /\ Newest(revisions[id]) \in Row
          /\ Len(revisions[id]) # 0
        BY <1>1, <1>4 DEF Newest
    <2>2. Newest(revisions[id]) # NoRow
        BY <1>2, <2>1, NoRowRevision
    <2>3. contactBar[id] = [revision |-> Newest(revisions[id]).revision,
                            deleted |-> Newest(revisions[id]).deleted,
                            payload |-> Newest(revisions[id]).sealed.payload]
        BY <1>4, <2>1 DEF contactBar, CurrentContact
    <2> QED BY <1>2, <2>1, <2>2, <2>3
<1> QED BY <1>3, <1>4

\* A call has no outcome before it is done or has committed its row.
LEMMA OutcomePending ==
    ASSUME IInv, NEW p \in Procs, pc[p] \notin {"appended", "done"}
    PROVE  outcomeBar[p] = NoResult
BY DEF IInv, CallInv, ResultInv, outcomeBar, EarnedOutcome, At

\* A step changes the outcome of its own call only.
LEMMA OutcomeStep ==
    ASSUME IInv, NEW p \in Procs, Step(p)
    PROVE  outcomeBar' = [outcomeBar EXCEPT ![p] = EarnedOutcome(p)']
<1>1. ASSUME NEW q \in Procs, q # p PROVE EarnedOutcome(q)' = EarnedOutcome(q)
    BY <1>1, StepFrame DEF IInv, EarnedOutcome, At
<1> QED BY <1>1 DEF outcomeBar

LEMMA OutcomeFrame ==
    ASSUME IInv, NEW p \in Procs, Step(p), EarnedOutcome(p)' = EarnedOutcome(p)
    PROVE  outcomeBar' = outcomeBar
<1>1. ASSUME NEW q \in Procs PROVE EarnedOutcome(q)' = EarnedOutcome(q)
    <2>1. CASE q = p
        BY <2>1
    <2>2. CASE q # p
        BY <2>2, StepFrame DEF IInv, EarnedOutcome, At
    <2> QED BY <2>1, <2>2
<1> QED BY <1>1 DEF outcomeBar

LEMMA ContactFrame ==
    ASSUME NEW p \in Procs, Step(p), ~ AppendRow(p)
    PROVE  contactBar' = contactBar
BY TableFrame DEF contactBar

LEMMA DoneOutcome ==
    ASSUME IInv, NEW p \in Procs, Step(p), NEW answer, Finish(p, answer)
    PROVE  outcomeBar' = [outcomeBar EXCEPT ![p] = answer]
<1>1. pc'[p] = "done" /\ result'[p] = answer
    BY DEF Finish, GoTo, IInv, TypeOK
<1>2. EarnedOutcome(p)' = answer
    BY <1>1 DEF EarnedOutcome, At
<1> QED BY <1>2, OutcomeStep

LEMMA InitRefines == Init => Register!RegInit
<1> SUFFICES ASSUME Init PROVE Register!RegInit
    OBVIOUS
<1>1. [id \in Ids |-> CurrentContact(revisions[id])] = [id \in Ids |-> Register!Unborn]
    BY DEF Init, CurrentContact, Register!Unborn
<1>2. [p \in Procs |-> EarnedOutcome(p)] = [p \in Procs |-> Register!Unanswered]
    BY DEF Init, EarnedOutcome, At, NoResult, Register!Unanswered
<1> QED BY <1>1, <1>2 DEF Init, Register!RegInit

\* A call that fails without saying anything about the record.
LEMMA FailRefines ==
    ASSUME IInv, NEW p \in Procs, Step(p), ~ AppendRow(p),
           pc[p] \notin {"idle", "appended", "done"}, call' = call,
           NEW status \in Register!Failures, Finish(p, Refused(status))
    PROVE  Register!RegFail(p)
<1>1. outcomeBar[p] = Register!Unanswered
    BY OutcomePending DEF NoResult, Register!Unanswered
<1>2. outcomeBar' = [outcomeBar EXCEPT ![p] = [status |-> status, views |-> {}]]
    BY DoneOutcome DEF Refused
<1>3. contactBar' = contactBar
    BY ContactFrame
<1>4. call[p] # NoCall
    BY ContactAssumption DEF IInv, CallInv, RequestInv
<1> QED BY <1>1, <1>2, <1>3, <1>4
        DEF Register!RegFail, Register!Answer, outcomeBar, contactBar

\* A call on an id that is refused for what its newest row is.
LEMMA RefuseRefines ==
    ASSUME IInv, NEW p \in Procs, Step(p), ~ AppendRow(p),
           pc[p] = "opened", call' = call, call[p].id \in Ids,
           NEW row, row = Newest(revisions[call[p].id]),
           NEW status, Finish(p, Refused(status)),
           \/ /\ status = "AlreadyExists" /\ call[p].op = "create"
              /\ row # NoRow /\ ~ row.deleted
           \/ /\ status = "NotFound" /\ call[p].op \in {"update", "delete", "get"}
              /\ row = NoRow
           \/ /\ status = "Deleted" /\ call[p].op \in {"update", "delete", "get"}
              /\ row # NoRow /\ row.deleted
    PROVE  Register!RegRefuse(p)
<1> DEFINE id == call[p].id
<1>1. outcomeBar[p] = Register!Unanswered
    BY OutcomePending DEF NoResult, Register!Unanswered
<1>2. outcomeBar' = [outcomeBar EXCEPT ![p] = [status |-> status, views |-> {}]]
    BY DoneOutcome DEF Refused
<1>3. contactBar' = contactBar
    BY ContactFrame
<1>4. call[p] # NoCall
    BY ContactAssumption DEF IInv, CallInv, RequestInv
<1>5. /\ row = NoRow => contactBar[id].revision = 0
      /\ row # NoRow => /\ contactBar[id].revision > 0
                        /\ contactBar[id].deleted = row.deleted
    <2>1. CASE row = NoRow
        BY <2>1, ContactBarFacts
    <2>2. CASE row # NoRow
        <3>1. /\ row \in Row /\ row.revision # 0
              /\ contactBar[id] = [revision |-> row.revision, deleted |-> row.deleted,
                                   payload |-> row.sealed.payload]
            BY <2>2, ContactBarFacts
        <3> QED BY <2>2, <3>1 DEF Row
    <2> QED BY <2>1, <2>2
<1>6. CASE status = "AlreadyExists"
    BY <1>1, <1>2, <1>3, <1>4, <1>5, <1>6
       DEF Register!RegRefuse, Register!PendingOn, Register!Pending, Register!Live,
           Register!Answer, outcomeBar, contactBar
<1>7. CASE status = "NotFound"
    BY <1>1, <1>2, <1>3, <1>4, <1>5, <1>7
       DEF Register!RegRefuse, Register!PendingOn, Register!Pending, Register!Live,
           Register!Answer, outcomeBar, contactBar
<1>8. CASE status = "Deleted"
    BY <1>1, <1>2, <1>3, <1>4, <1>5, <1>8
       DEF Register!RegRefuse, Register!PendingOn, Register!Pending, Register!Live,
           Register!Answer, outcomeBar, contactBar
<1> QED BY <1>6, <1>7, <1>8

\* A read that succeeds shows the register.
LEMMA GetRefines ==
    ASSUME IInv, NEW p \in Procs, Get(p), call[p].id \in Ids,
           NEW row, row = Newest(revisions[call[p].id]),
           EditRefusal(row) = "none", Openable(handle[p], call[p].id, row.sealed)
    PROVE  Register!RegGet(p)
<1> DEFINE id == call[p].id
<1>1. /\ pc[p] = "opened" /\ call[p].op = "get" /\ call' = call
      /\ Finish(p, [status |-> "Ok", views |-> {ViewOf(id, row)}])
    BY DEF Get, At, Viewed
<1>2. Step(p) /\ ~ AppendRow(p)
    BY <1>1 DEF Step, Work, AppendRow, At
<1>3. outcomeBar[p] = Register!Unanswered
    BY <1>1, OutcomePending DEF NoResult, Register!Unanswered
<1>4. outcomeBar' = [outcomeBar EXCEPT ![p] = [status |-> "Ok", views |-> {ViewOf(id, row)}]]
    BY <1>1, <1>2, DoneOutcome
<1>5. contactBar' = contactBar
    BY <1>2, ContactFrame
<1>6. call[p] # NoCall
    BY <1>1, ContactAssumption DEF IInv, CallInv, RequestInv
<1>7. /\ row \in Row /\ row.revision # 0 /\ ~ row.deleted
      /\ contactBar[id] = [revision |-> row.revision, deleted |-> row.deleted,
                           payload |-> row.sealed.payload]
    BY ContactBarFacts DEF EditRefusal
<1>8. /\ contactBar[id].revision > 0 /\ ~ contactBar[id].deleted
      /\ Register!RegView(id, contactBar[id]) = ViewOf(id, row)
    BY <1>7 DEF Row, Register!RegView, ViewOf
<1> QED BY <1>1, <1>3, <1>4, <1>5, <1>6, <1>8
        DEF Register!RegGet, Register!PendingOn, Register!Pending, Register!Live,
            Register!Answer, outcomeBar, contactBar

LEMMA ListRefines ==
    ASSUME IInv, NEW p \in Procs, List(p),
           Listed(handle[p], revisions).status = "Ok"
    PROVE  Register!RegList(p)
<1> DEFINE live   == {id \in {i \in Ids : revisions[i] # <<>>} :
                         ~ Newest(revisions[id]).deleted}
           views  == {ViewOf(id, Newest(revisions[id])) : id \in live}
           living == {id \in Ids : contactBar[id].revision > 0 /\ ~ contactBar[id].deleted}
<1>1. Listed(handle[p], revisions) = [status |-> "Ok", views |-> views]
    BY DEF Listed, Refused
<1> HIDE DEF views
<1>2. /\ pc[p] = "opened" /\ call[p].op = "list" /\ call' = call
      /\ Finish(p, [status |-> "Ok", views |-> views])
    BY <1>1 DEF List, At
<1>3. Step(p) /\ ~ AppendRow(p)
    BY <1>2 DEF Step, Work, AppendRow, At
<1>4. outcomeBar[p] = Register!Unanswered
    BY <1>2, OutcomePending DEF NoResult, Register!Unanswered
<1>5. outcomeBar' = [outcomeBar EXCEPT ![p] = [status |-> "Ok", views |-> views]]
    BY <1>2, <1>3, DoneOutcome
<1>6. contactBar' = contactBar
    BY <1>3, ContactFrame
<1>7. call[p] # NoCall
    BY <1>2, ContactAssumption DEF IInv, CallInv, RequestInv
<1>8. ASSUME NEW id \in Ids
      PROVE  /\ id \in live <=> id \in living
             /\ id \in live => Register!RegView(id, contactBar[id]) = ViewOf(id, Newest(revisions[id]))
    <2>1. revisions[id] \in Seq(Row)
        BY DEF IInv, TypeOK
    <2>2. CASE revisions[id] = <<>>
        <3>1. contactBar[id].revision = 0
            BY <2>2, ContactBarFacts, NoRowRevision DEF Newest
        <3> QED BY <2>2, <3>1
    <2>3. CASE revisions[id] # <<>>
        <3>1. Newest(revisions[id]).revision # 0 /\ Newest(revisions[id]) # NoRow
            BY <2>1, <2>3, NewestIsRowAt, NoRowRevision DEF IInv
        <3>2. /\ Newest(revisions[id]) \in Row
              /\ contactBar[id] = [revision |-> Newest(revisions[id]).revision,
                                   deleted |-> Newest(revisions[id]).deleted,
                                   payload |-> Newest(revisions[id]).sealed.payload]
            BY <3>1, ContactBarFacts
        <3> QED BY <2>3, <3>1, <3>2 DEF Row, Register!RegView, ViewOf
    <2> QED BY <2>2, <2>3
<1>9. views = {Register!RegView(id, contactBar[id]) : id \in living}
    BY <1>8 DEF views
<1> QED BY <1>2, <1>4, <1>5, <1>6, <1>7, <1>9
        DEF Register!RegList, Register!Pending, Register!Live,
            Register!Answer, outcomeBar, contactBar

\* An insert is the moment a mutation takes effect: no other row came between
\* the row it was computed from and the row it is.
LEMMA AppendRefines ==
    ASSUME IInv, NEW p \in Procs, AppendRow(p)
    PROVE  Register!RegCreate(p) \/ Register!RegUpdate(p) \/ Register!RegDelete(p)
<1> DEFINE id   == call[p].id
           row  == Newest(revisions[id])
           next == [revision |-> record[p].revision, deleted |-> record[p].deleted,
                    payload |-> record[p].sealed.payload]
<1>1. /\ pc[p] = "built" /\ pc'[p] = "appended" /\ call' = call /\ record' = record
      /\ ~ Conflicts(revisions[id], record[p])
    BY DEF AppendRow, At, GoTo, IInv, TypeOK
<1>2. /\ id \in Ids
      /\ snapshot[p] = row
      /\ snapshot[p].revision = Len(revisions[id])
      /\ record[p].revision = Len(revisions[id]) + 1
    BY <1>1, NoConflictMeansNewest
<1>3. /\ record[p] \in Row
      /\ record[p].deleted => record[p].sealed.payload = row.sealed.payload
      /\ Stores(call[p], record[p])
      /\ call[p].op = "create" <=> (row.revision = 0 \/ row.deleted)
      /\ call[p] \in Requests /\ call[p].op \in Mutations
    BY <1>1, <1>2 DEF IInv, CallInv, RequestInv, SnapshotInv, RecordInv, Successor
<1>4. contactBar' = [contactBar EXCEPT ![id] = next]
    <2>1. CurrentContact(revisions'[id]) = next
        <3>1. /\ Len(revisions'[id]) = Len(revisions[id]) + 1
              /\ revisions'[id][Len(revisions'[id])] = record[p]
              /\ Len(revisions[id]) \in Nat
            BY <1>2, AppendedHistory, NewestIsRowAt DEF IInv
        <3> QED BY <3>1 DEF CurrentContact
    <2>2. ASSUME NEW other \in Ids \ {id}
          PROVE  CurrentContact(revisions'[other]) = CurrentContact(revisions[other])
        BY AppendedHistory
    <2> HIDE DEF next
    <2> QED BY <1>2, <2>1, <2>2 DEF contactBar
<1>5. outcomeBar' = [outcomeBar EXCEPT ![p] = [status |-> "Ok", views |-> {ViewOf(id, record[p])}]]
    <2>1. EarnedOutcome(p)' = [status |-> "Ok", views |-> {ViewOf(id, record[p])}]
        BY <1>1 DEF EarnedOutcome, At
    <2>2. Step(p)
        BY DEF Step, Work
    <2> QED BY <2>1, <2>2, OutcomeStep
<1>6. outcomeBar[p] = Register!Unanswered
    BY <1>1, OutcomePending DEF NoResult, Register!Unanswered
<1>7. call[p] # NoCall
    BY <1>3, ContactAssumption
<1>8. /\ contactBar[id].revision + 1 = record[p].revision
      /\ row.revision = 0 => contactBar[id].revision = 0
      /\ row.revision # 0 => /\ contactBar[id].revision > 0
                             /\ contactBar[id].deleted = row.deleted
                             /\ contactBar[id].payload = row.sealed.payload
    <2>1. contactBar[id].revision = Len(revisions[id]) /\ Len(revisions[id]) \in Nat
        BY <1>2, ContactBarFacts, NewestIsRowAt DEF IInv
    <2>2. row.revision = Len(revisions[id])
        BY <1>2
    <2>3. row # NoRow => contactBar[id] = [revision |-> row.revision, deleted |-> row.deleted,
                                           payload |-> row.sealed.payload]
        BY <1>2, ContactBarFacts
    <2>4. row = NoRow => row.revision = 0
        BY NoRowRevision
    <2> HIDE DEF row
    <2> QED BY <1>2, <2>1, <2>2, <2>3, <2>4
<1>9. Register!RegView(id, next) = ViewOf(id, record[p])
    BY DEF Register!RegView, ViewOf
<1>10. Register!Becomes(p, id, record[p].deleted, record[p].sealed.payload)
    BY <1>1, <1>4, <1>5, <1>8, <1>9
       DEF Register!Becomes, Register!Answer, outcomeBar, contactBar
<1>11. /\ record[p].sealed.payload \in Payloads
       /\ record[p].deleted \in BOOLEAN
    BY <1>3 DEF Row, Sealed
<1>12. Register!PendingOn(p, call[p].op)
    BY <1>2, <1>6, <1>7 DEF Register!PendingOn, Register!Pending, outcomeBar
<1>13. Register!Live(id) <=> call[p].op # "create"
    <2>1. Register!Live(id) <=> contactBar[id].revision > 0 /\ ~ contactBar[id].deleted
        BY DEF Register!Live, contactBar
    <2>2. CASE row.revision = 0
        BY <1>3, <1>8, <2>1, <2>2
    <2>3. CASE row.revision # 0
        <3>1. contactBar[id].revision > 0 /\ contactBar[id].deleted = row.deleted
            BY <1>8, <2>3
        <3> QED BY <1>3, <2>1, <2>3, <3>1
    <2> QED BY <2>2, <2>3
<1>14. CASE call[p].op = "create"
    BY <1>3, <1>10, <1>11, <1>12, <1>13, <1>14 DEF Stores, Register!RegCreate
<1>15. CASE call[p].op = "update"
    BY <1>3, <1>10, <1>11, <1>12, <1>13, <1>15 DEF Stores, Register!RegUpdate
<1>16. CASE call[p].op = "delete"
    <2>1. record[p].deleted = TRUE
        BY <1>3, <1>11, <1>16 DEF Stores
    <2>2. row.revision # 0
        BY <1>3, <1>16
    <2>3. record[p].sealed.payload = contactBar[id].payload
        BY <1>3, <1>8, <2>1, <2>2
    <2> QED BY <1>10, <1>12, <1>13, <1>16, <2>1, <2>3 DEF Register!RegDelete, contactBar
<1> QED BY <1>3, <1>14, <1>15, <1>16 DEF Mutations

LEMMA InvokeRefines ==
    ASSUME IInv, NEW p \in Procs, Invoke(p)
    PROVE  Register!Begin(p)
<1>1. /\ pc[p] = "idle" /\ pc'[p] = "called" /\ result' = result
      /\ \E request \in Requests : call' = [call EXCEPT ![p] = request]
    BY DEF Invoke, At, GoTo, IInv, TypeOK
<1>2. Step(p) /\ ~ AppendRow(p)
    BY <1>1 DEF Step, AppendRow, At
<1>3. call[p] = NoCall
    BY <1>1 DEF IInv, CallInv, RequestInv
<1>4. outcomeBar' = outcomeBar
    <2>1. EarnedOutcome(p)' = EarnedOutcome(p)
        BY <1>1 DEF EarnedOutcome, At
    <2> QED BY <1>2, <2>1, OutcomeFrame
<1>5. contactBar' = contactBar
    BY <1>2, ContactFrame
<1> QED BY <1>1, <1>3, <1>4, <1>5 DEF Register!Begin, outcomeBar, contactBar

LEMMA LeaveRefines ==
    ASSUME IInv, NEW p \in Procs, Return(p) \/ Crash(p)
    PROVE  Register!Forget(p)
<1>1. /\ pc[p] # "idle" /\ pc'[p] = "idle" /\ result'[p] = NoResult
      /\ call' = [call EXCEPT ![p] = NoCall] /\ revisions' = revisions
    BY DEF Return, Crash, Leave, At, GoTo, IInv, TypeOK
<1>2. Step(p)
    BY DEF Step, Work
<1>3. call[p] # NoCall
    BY <1>1, ContactAssumption DEF IInv, CallInv, RequestInv
<1>4. outcomeBar' = [outcomeBar EXCEPT ![p] = Register!Unanswered]
    <2>1. EarnedOutcome(p)' = Register!Unanswered
        BY <1>1 DEF EarnedOutcome, At, NoResult, Register!Unanswered
    <2> QED BY <1>2, <2>1, OutcomeStep
<1>5. contactBar' = contactBar
    BY <1>1 DEF contactBar
<1> QED BY <1>1, <1>3, <1>4, <1>5 DEF Register!Forget, outcomeBar, contactBar

\* A step that neither ends the call nor inserts shows nothing.
LEMMA InnerStepStutters ==
    ASSUME IInv, NEW p \in Procs, Step(p), ~ AppendRow(p),
           pc[p] \in {"called", "opened", "read"},
           pc'[p] \in {"opened", "read", "built"},
           result' = result
    PROVE  contactBar' = contactBar /\ outcomeBar' = outcomeBar
<1>1. contactBar' = contactBar
    BY ContactFrame
<1>2. EarnedOutcome(p)' = EarnedOutcome(p)
    BY DEF EarnedOutcome, At
<1>3. outcomeBar' = outcomeBar
    BY <1>2, OutcomeFrame
<1> QED BY <1>1, <1>3

\* The answer of a mutation is the one its insert had earned.
LEMMA ReturnViewStutters ==
    ASSUME IInv, NEW p \in Procs, ReturnView(p)
    PROVE  contactBar' = contactBar /\ outcomeBar' = outcomeBar
<1>1. /\ pc[p] = "appended" /\ pc'[p] = "done" /\ revisions' = revisions
      /\ result'[p] = Viewed(handle[p], call[p].id, record[p])
    BY DEF ReturnView, At, Finish, GoTo, IInv, TypeOK
<1>2. Viewed(handle[p], call[p].id, record[p])
        = [status |-> "Ok", views |-> {ViewOf(call[p].id, record[p])}]
    BY <1>1 DEF IInv, CallInv, RecordInv, Successor, Viewed, Openable
<1>3. EarnedOutcome(p)' = EarnedOutcome(p)
    BY <1>1, <1>2 DEF EarnedOutcome, At
<1>4. Step(p)
    BY DEF Step, Work
<1> QED BY <1>1, <1>3, <1>4, OutcomeFrame DEF contactBar

LEMMA ReadForMutationRefines ==
    ASSUME IInv, NEW p \in Procs, ReadForMutation(p)
    PROVE  \/ Register!RegRefuse(p) \/ Register!RegFail(p)
           \/ contactBar' = contactBar /\ call' = call /\ outcomeBar' = outcomeBar
<1> DEFINE id      == call[p].id
           row     == Newest(revisions[id])
           refusal == ReadRefusal(call[p].op, handle[p], id, row)
<1>1. /\ pc[p] = "opened" /\ call' = call /\ call[p].op \in Mutations
      /\ Step(p) /\ ~ AppendRow(p)
    BY DEF ReadForMutation, At, Step, Work, AppendRow
<1>2. id \in Ids
    BY <1>1, RequestFacts DEF IInv, CallInv, RequestInv, Mutations
<1>3. CASE refusal = "none"
    <2>1. pc'[p] = "read" /\ result' = result
        BY <1>3 DEF ReadForMutation, GoTo, IInv, TypeOK
    <2> QED BY <1>1, <2>1, InnerStepStutters
<1>4. CASE refusal # "none"
    <2>1. Finish(p, Refused(refusal))
        BY <1>4 DEF ReadForMutation
    <2>2. \/ refusal \in {"Malformed", "Encryption"}
          \/ refusal = "AlreadyExists" /\ call[p].op = "create" /\ row # NoRow /\ ~ row.deleted
          \/ refusal = "NotFound" /\ call[p].op \in {"update", "delete", "get"} /\ row = NoRow
          \/ refusal = "Deleted" /\ call[p].op \in {"update", "delete", "get"}
             /\ row # NoRow /\ row.deleted
        BY <1>1, <1>4 DEF ReadRefusal, CreateRefusal, DeleteRefusal, EditRefusal, Mutations
    <2> HIDE DEF refusal
    <2>3. CASE refusal \in {"Malformed", "Encryption"}
        <3>1. refusal \in Register!Failures
            BY <2>3 DEF Register!Failures
        <3> QED BY <1>1, <2>1, <3>1, FailRefines
    <2>4. CASE refusal \notin {"Malformed", "Encryption"}
        BY <1>1, <1>2, <2>1, <2>2, <2>4, RefuseRefines
    <2> QED BY <2>3, <2>4
<1> QED BY <1>3, <1>4

LEMMA ReadRefines ==
    ASSUME IInv, NEW p \in Procs, Get(p) \/ List(p)
    PROVE  Register!RegStep(p)
<1>1. /\ pc[p] = "opened" /\ call' = call /\ Step(p) /\ ~ AppendRow(p)
      /\ call[p].op \in {"get", "list"}
    BY DEF Get, List, At, Step, Work, AppendRow
<1>2. call[p] \in Requests /\ call[p].id # BadId
    BY <1>1 DEF IInv, CallInv, RequestInv
<1>3. CASE Get(p)
    <2> DEFINE id      == call[p].id
               row     == Newest(revisions[id])
               refusal == EditRefusal(row)
    <2>1. call[p].op = "get"
        BY <1>3 DEF Get
    <2>2. id \in Ids
        BY <1>2, <2>1, RequestFacts
    <2>3. CASE refusal = "none" /\ Openable(handle[p], id, row.sealed)
        BY <1>3, <2>2, <2>3, GetRefines DEF Register!RegStep
    <2>4. CASE refusal = "none" /\ ~ Openable(handle[p], id, row.sealed)
        <3>1. Finish(p, Refused("Encryption"))
            BY <1>3, <2>4 DEF Get, Viewed
        <3>2. "Encryption" \in Register!Failures
            BY DEF Register!Failures
        <3> QED BY <1>1, <3>1, <3>2, FailRefines DEF Register!RegStep
    <2>5. CASE refusal # "none"
        <3>1. Finish(p, Refused(refusal))
            BY <1>3, <2>5 DEF Get
        <3>2. \/ refusal = "Malformed"
              \/ refusal = "NotFound" /\ row = NoRow
              \/ refusal = "Deleted" /\ row # NoRow /\ row.deleted
            BY <2>5 DEF EditRefusal
        <3> HIDE DEF refusal
        <3>3. CASE refusal = "Malformed"
            <4>1. refusal \in Register!Failures
                BY <3>3 DEF Register!Failures
            <4> QED BY <1>1, <3>1, <4>1, FailRefines DEF Register!RegStep
        <3>4. CASE refusal # "Malformed"
            <4>1. Register!RegRefuse(p)
                BY <1>1, <2>1, <2>2, <3>1, <3>2, <3>4, RefuseRefines
            <4> QED BY <4>1 DEF Register!RegStep
        <3> QED BY <3>3, <3>4
    <2> QED BY <2>3, <2>4, <2>5
<1>4. CASE List(p)
    <2> DEFINE answer == Listed(handle[p], revisions)
    <2>1. Finish(p, answer)
        BY <1>4 DEF List
    <2>2. \/ answer.status = "Ok"
          \/ \E status \in {"Malformed", "Encryption"} : answer = Refused(status)
        BY DEF Listed
    <2>3. CASE answer.status = "Ok"
        BY <1>4, <2>3, ListRefines DEF Register!RegStep
    <2>4. ASSUME NEW status \in {"Malformed", "Encryption"}, answer = Refused(status)
          PROVE  Register!RegStep(p)
        <3>1. status \in Register!Failures /\ Finish(p, Refused(status))
            BY <2>1, <2>4 DEF Register!Failures
        <3> QED BY <1>1, <3>1, FailRefines DEF Register!RegStep
    <2> QED BY <2>2, <2>3, <2>4
<1> QED BY <1>3, <1>4

LEMMA BuildRefines ==
    ASSUME IInv, NEW p \in Procs, Build(p)
    PROVE  \/ Register!RegFail(p)
           \/ contactBar' = contactBar /\ call' = call /\ outcomeBar' = outcomeBar
<1>1. /\ pc[p] = "read" /\ call' = call /\ Step(p) /\ ~ AppendRow(p)
    BY DEF Build, At, Step, Work, AppendRow
<1>2. \/ GoTo(p, "built") /\ result' = result
      \/ \E status \in {"InvalidField", "Audit", "Encryption"} : Finish(p, Refused(status))
    BY DEF Build, BuildRefusal
<1>3. CASE GoTo(p, "built") /\ result' = result
    <2>1. pc'[p] = "built"
        BY <1>3 DEF GoTo, IInv, TypeOK
    <2> QED BY <1>1, <1>3, <2>1, InnerStepStutters
<1>4. ASSUME NEW status \in {"InvalidField", "Audit", "Encryption"}, Finish(p, Refused(status))
      PROVE  Register!RegFail(p)
    <2>1. status \in Register!Failures
        BY DEF Register!Failures
    <2> QED BY <1>1, <1>4, <2>1, FailRefines
<1> QED BY <1>2, <1>3, <1>4

\* Every step of a call is a step of its register, or shows nothing.
LEMMA StepRefines ==
    ASSUME IInv, NEW p \in Procs, Step(p)
    PROVE  \/ Register!RegStep(p)
           \/ contactBar' = contactBar /\ call' = call /\ outcomeBar' = outcomeBar
<1>1. CASE Invoke(p)
    BY <1>1, InvokeRefines DEF Register!RegStep
<1>2. CASE Refusing(p)
    <2>1. /\ pc[p] \notin {"idle", "appended", "done"} /\ call' = call /\ ~ AppendRow(p)
        BY <1>2 DEF Refusing, RejectId, OpenFails, ReadFails, AppendConflicts, AppendFails,
                    AppendRow, At, Finish, GoTo, IInv, TypeOK
    <2>2. PICK status \in {"InvalidId", "WriteFailed", "Read", "FutureStore", "WriteConflict"} :
            Finish(p, Refused(status))
        BY <1>2 DEF Refusing, RejectId, OpenFails, ReadFails, AppendConflicts, AppendFails
    <2>3. status \in Register!Failures
        BY DEF Register!Failures
    <2> QED BY <2>1, <2>2, <2>3, FailRefines DEF Register!RegStep
<1>3. CASE OpenStore(p)
    <2>1. /\ pc[p] = "called" /\ pc'[p] = "opened" /\ call' = call /\ result' = result
          /\ ~ AppendRow(p)
        BY <1>3 DEF OpenStore, AppendRow, At, GoTo, IInv, TypeOK
    <2> QED BY <2>1, InnerStepStutters
<1>4. CASE ReadForMutation(p)
    BY <1>4, ReadForMutationRefines DEF Register!RegStep
<1>5. CASE Get(p) \/ List(p)
    BY <1>5, ReadRefines
<1>6. CASE Build(p)
    BY <1>6, BuildRefines DEF Register!RegStep
<1>7. CASE AppendRow(p)
    BY <1>7, AppendRefines DEF Register!RegStep
<1>8. CASE ReturnView(p)
    BY <1>8, ReturnViewStutters DEF ReturnView
<1>9. CASE Return(p) \/ Crash(p)
    BY <1>9, LeaveRefines DEF Register!RegStep
<1> QED BY <1>1, <1>2, <1>3, <1>4, <1>5, <1>6, <1>7, <1>8, <1>9 DEF Step, Work, Refusing

\* The operations of contact.rs implement one register per record id: each call
\* takes effect at one instant, on the newest revision there is at that instant,
\* or has no effect, with any number of processes, killed at any point.
THEOREM Refinement == Spec => ImplementsRegister
<1>1. Init => Register!RegInit
    BY InitRefines
<1>2. IInv /\ [Next]_vars => [Register!RegNext]_(Register!regVars)
    <2> SUFFICES ASSUME IInv, [Next]_vars PROVE [Register!RegNext]_(Register!regVars)
        OBVIOUS
    <2>1. CASE Next
        <3>1. PICK p \in Procs : Step(p)
            BY <2>1 DEF Next, Step
        <3>2. CASE Register!RegStep(p)
            BY <3>2 DEF Register!RegNext
        <3>3. CASE contactBar' = contactBar /\ call' = call /\ outcomeBar' = outcomeBar
            BY <3>3 DEF Register!regVars, contactBar, outcomeBar
        <3> QED BY <3>1, <3>2, <3>3, StepRefines
    <2>2. CASE UNCHANGED vars
        BY <2>2 DEF vars, Register!regVars, EarnedOutcome, At
    <2> QED BY <2>1, <2>2
<1> QED BY <1>1, <1>2, Invariance, PTL DEF Spec, ImplementsRegister, Register!RegSpec
=============================================================================
