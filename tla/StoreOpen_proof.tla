--------------------------- MODULE StoreOpen_proof ---------------------------
(***************************************************************************)
(* Theorems about StoreOpen, for every number of processes and every set   *)
(* of builds, each with any number of migrations.                          *)
(***************************************************************************)
EXTENDS StoreOpen, FiniteSetTheorems, TLAPS

-----------------------------------------------------------------------------
(* The inductive invariant.                                                *)

\* What an open has seen of the files is true from then on.
FilesInv(p) ==
    /\ pc[p] \notin {"idle", "directory"} => dir = "private"
    /\ pc[p] \notin {"idle", "directory", "look", "create", "mode"} => file = "private"
    /\ pc[p] = "mode" => file # "absent"
    /\ pc[p] \in {"begin", "count", "run", "record", "open"} => journal = "wal"

\* The transaction is between two migrations, or inside the one it runs; nothing
\* that was committed is missing from it.
DraftInv(p) ==
    /\ pc[p] = "count" => draft = db
    /\ pc[p] = "run" =>
         /\ next[p] \in 1..(build[p] + 1)
         /\ Migrated(draft, next[p] - 1)
         /\ db.ledger \subseteq draft.ledger
    /\ pc[p] = "record" =>
         /\ next[p] \in 1..build[p]
         /\ draft.schema = [i \in 1..next[p] |-> i]
         /\ draft.ledger = 1..(next[p] - 1)
         /\ db.ledger \subseteq draft.ledger

OpenInv(p) == pc[p] = "open" => 1..build[p] \subseteq db.ledger

CommittedInStep == \E n \in Builds \cup {0} : Migrated(db, n)

IInv ==
    /\ TypeOK
    /\ CommittedInStep
    /\ \A p \in Procs : FilesInv(p) /\ DraftInv(p) /\ OpenInv(p) /\ result[p] # "Collision"

-----------------------------------------------------------------------------
(* Migrations as data.                                                     *)

\* The ledger's rows count the migrations.
LEMMA MigratedCount ==
    ASSUME NEW d, NEW n \in Nat, Migrated(d, n)
    PROVE  Cardinality(d.ledger) = n
BY FS_Interval DEF Migrated

\* One more migration extends the tables by one, ...
LEMMA AppendedMigration ==
    ASSUME NEW n \in Nat
    PROVE  Append([i \in 1..n |-> i], n + 1) = [i \in 1..(n + 1) |-> i]
<1> DEFINE s == [i \in 1..n |-> i]
<1>1. s \in Seq(Nat) /\ Len(s) = n
    OBVIOUS
<1>2. /\ Append(s, n + 1) \in Seq(Nat) /\ Len(Append(s, n + 1)) = n + 1
      /\ \A i \in 1..(n + 1) : Append(s, n + 1)[i] = i
    BY <1>1
<1>3. Append(s, n + 1) = [i \in 1..(n + 1) |-> Append(s, n + 1)[i]]
    BY <1>2
<1> QED BY <1>2, <1>3

\* ... and the ledger by its row.
LEMMA RecordedMigration ==
    ASSUME NEW n \in Nat \ {0}
    PROVE  (1..(n - 1)) \cup {n} = 1..n
OBVIOUS

\* What the count of an open finds under the write lock.
LEMMA CountFacts ==
    ASSUME IInv, NEW p \in Procs, pc[p] = "count"
    PROVE  \E n \in Builds \cup {0} :
               n \in Nat /\ Migrated(draft, n) /\ Cardinality(draft.ledger) = n
<1>1. PICK n \in Builds \cup {0} : Migrated(db, n)
    BY DEF IInv, CommittedInStep
<1>2. n \in Nat
    BY OpenAssumption
<1>3. DraftInv(p)
    BY DEF IInv
<1>4. draft = db
    BY <1>3 DEF DraftInv
<1> QED BY <1>1, <1>2, <1>4, MigratedCount

-----------------------------------------------------------------------------
(* What a step of one process leaves alone.                                *)

Step(p) == Begin(p) \/ Progress(p) \/ Faults(p) \/ Close(p)

LEMMA OthersKeep ==
    ASSUME TypeOK, NEW p \in Procs, Step(p), NEW q \in Procs, q # p
    PROVE  /\ pc'[q] = pc[q] /\ build'[q] = build[q] /\ umask'[q] = umask[q]
           /\ next'[q] = next[q] /\ result'[q] = result[q]
<1> USE DEF TypeOK, GoTo, Fail
<1>1. CASE Begin(p) \/ Close(p) \/ Faults(p)
    BY <1>1 DEF Begin, Close, Faults, FileFails, WalRefused, SqliteFails, Kill
<1>2. CASE EnsureDir(p) \/ LookForFile(p) \/ CreateFile(p) \/ SetMode(p)
    BY <1>2 DEF EnsureDir, LookForFile, CreateFile, SetMode
<1>3. CASE Connect(p) \/ SetWal(p) \/ BeginImmediate(p) \/ BusyTimeout(p)
    BY <1>3 DEF Connect, SetWal, BeginImmediate, BusyTimeout
<1>4. CASE CountApplied(p) \/ RunMigration(p) \/ RecordApplied(p) \/ Commit(p)
    BY <1>4 DEF CountApplied, RunMigration, RecordApplied, Commit
<1> QED BY <1>1, <1>2, <1>3, <1>4 DEF Step, Progress

\* The build is the process's for as long as it runs.
LEMMA BuildStep ==
    ASSUME NEW p \in Procs, Step(p), ~ Begin(p)
    PROVE  build' = build
BY DEF Step, Close, Faults, FileFails, WalRefused, SqliteFails, Kill, Progress, EnsureDir,
       LookForFile, CreateFile, SetMode, Connect, SetWal, BeginImmediate, BusyTimeout, CountApplied,
       RunMigration, RecordApplied, Commit

\* Only a commit changes the database.
LEMMA DatabaseStep ==
    ASSUME NEW p \in Procs, Step(p)
    PROVE  db' = db \/ (Commit(p) /\ db' = draft)
BY DEF Step, Begin, Close, Faults, FileFails, WalRefused, SqliteFails, Kill, Progress, EnsureDir,
       LookForFile, CreateFile, SetMode, Connect, SetWal, BeginImmediate, BusyTimeout, CountApplied,
       RunMigration, RecordApplied, Commit, tables

\* A process that is not the writer leaves another's transaction alone.
LEMMA TransactionFrame ==
    ASSUME TypeOK, NEW p \in Procs, Step(p), writer # p, writer # NoProc
    PROVE  db' = db /\ draft' = draft /\ writer' = writer
<1>1. pc[p] \notin {"count", "run", "record"}
    BY DEF TypeOK
<1> QED BY <1>1 DEF Step, Begin, Close, Faults, FileFails, WalRefused, SqliteFails, Kill, Progress,
       EnsureDir, LookForFile, CreateFile, SetMode, Connect, SetWal, BeginImmediate, BusyTimeout,
       CountApplied, RunMigration, RecordApplied, Commit, Fail, Release, At, tables

-----------------------------------------------------------------------------
(* Types.                                                                  *)

LEMMA FailType ==
    ASSUME TypeOK, NEW p \in Procs, NEW status \in Results, Fail(p, status)
    PROVE  /\ pc' \in [Procs -> Labels] /\ pc'[p] = "idle"
           /\ next' \in [Procs -> Nat]
           /\ result' \in [Procs -> Results]
           /\ writer' \in Procs \cup {NoProc} /\ writer' # p
           /\ writer # p => writer' = writer
           /\ writer = p => writer' = NoProc
           /\ draft' \in Database
<1>1. EmptyDatabase \in Database
    BY DEF EmptyDatabase, Database
<1> QED BY <1>1, OpenAssumption DEF TypeOK, Fail, Release, GoTo, Labels

\* All of TypeOK but what it says of the write lock.
VariableTypes ==
    /\ dir \in Modes
    /\ file \in Modes
    /\ journal \in {"delete", "wal"}
    /\ db \in Database
    /\ writer \in Procs \cup {NoProc}
    /\ draft \in Database
    /\ pc \in [Procs -> Labels]
    /\ build \in [Procs -> Builds]
    /\ umask \in [Procs -> Umasks]
    /\ next \in [Procs -> Nat]
    /\ result \in [Procs -> Results]

LEMMA VariableTypesStep ==
    ASSUME IInv, NEW p \in Procs, Step(p)
    PROVE  VariableTypes'
<1> USE DEF IInv, TypeOK, VariableTypes, GoTo, disk, tables
<1>1. CASE Begin(p) \/ Close(p)
    BY <1>1 DEF Begin, Close, Labels, Results
<1>2. CASE Faults(p)
    <2>1. \E status \in Results : Fail(p, status)
        BY <1>2 DEF Faults, FileFails, WalRefused, SqliteFails, Kill, Results
    <2> QED BY <1>2, <2>1, FailType DEF Faults, FileFails, WalRefused, SqliteFails, Kill
<1>3. CASE EnsureDir(p) \/ LookForFile(p) \/ CreateFile(p) \/ SetMode(p)
    <2>1. "Io" \in Results /\ Created(p) \in Modes /\ {"look", "create", "connect", "mode"} \subseteq Labels
          /\ "private" \in Modes
        BY DEF Results, Created, Modes, Labels
    <2>2. CASE Fail(p, "Io")
        BY <1>3, <2>1, <2>2, FailType DEF EnsureDir, LookForFile, CreateFile, SetMode
    <2>3. CASE ~ Fail(p, "Io")
        <3>1. CASE EnsureDir(p)
            <4>1. dir' \in Modes
                BY <2>1, <3>1 DEF EnsureDir
            <4> QED BY <2>1, <2>3, <3>1, <4>1 DEF EnsureDir
        <3>2. CASE LookForFile(p)
            BY <2>1, <2>3, <3>2 DEF LookForFile
        <3>3. CASE CreateFile(p)
            BY <2>1, <2>3, <3>3 DEF CreateFile
        <3>4. CASE SetMode(p)
            BY <2>1, <3>4 DEF SetMode
        <3> QED BY <1>3, <3>1, <3>2, <3>3, <3>4
    <2> QED BY <2>2, <2>3
<1>4. CASE Connect(p) \/ SetWal(p) \/ BeginImmediate(p)
    BY <1>4 DEF Connect, SetWal, BeginImmediate, Labels
<1>5. CASE BusyTimeout(p)
    <2>1. Fail(p, "Busy") /\ "Busy" \in Results
        BY <1>5 DEF BusyTimeout, Results
    <2> QED BY <1>5, <2>1, FailType DEF BusyTimeout
<1>6. CASE CountApplied(p)
    <2>1. CASE IsFuture(p, Cardinality(draft.ledger))
        <3>1. Fail(p, "FutureSchema") /\ "FutureSchema" \in Results
            BY <1>6, <2>1 DEF CountApplied, Results
        <3> QED BY <1>6, <3>1, FailType DEF CountApplied
    <2>2. CASE ~ IsFuture(p, Cardinality(draft.ledger))
        <3>1. Cardinality(draft.ledger) \in Nat
            BY <1>6, CountFacts DEF CountApplied, At
        <3> QED BY <1>6, <2>2, <3>1 DEF CountApplied, Labels
    <2> QED BY <2>1, <2>2
<1>7. CASE RunMigration(p)
    <2>1. CASE Fail(p, "Collision")
        BY <1>7, <2>1, FailType DEF RunMigration, Results
    <2>2. CASE ~ Fail(p, "Collision")
        <3>1. draft' = [draft EXCEPT !.schema = Append(@, next[p])] /\ next[p] \in Nat
            BY <1>7, <2>2 DEF RunMigration
        <3>2. Append(draft.schema, next[p]) \in Seq(Nat)
            BY <3>1 DEF Database
        <3>3. draft' \in Database
            BY <3>1, <3>2 DEF Database
        <3> QED BY <1>7, <2>2, <3>3 DEF RunMigration, Labels
    <2> QED BY <2>1, <2>2
<1>8. CASE RecordApplied(p)
    <2>1. CASE Fail(p, "Collision")
        BY <1>8, <2>1, FailType DEF RecordApplied, Results
    <2>2. CASE ~ Fail(p, "Collision")
        <3>1. draft' = [draft EXCEPT !.ledger = @ \cup {next[p]}] /\ next[p] \in Nat
            BY <1>8, <2>2 DEF RecordApplied
        <3>2. draft' \in Database
            BY <3>1 DEF Database
        <3> QED BY <1>8, <2>2, <3>2 DEF RecordApplied, Labels
    <2> QED BY <2>1, <2>2
<1>9. CASE Commit(p)
    BY <1>9 DEF Commit, Labels, Results, EmptyDatabase, Database
<1> QED BY <1>1, <1>2, <1>3, <1>4, <1>5, <1>6, <1>7, <1>8, <1>9 DEF Step, Progress

-----------------------------------------------------------------------------
(* The write lock.                                                         *)

\* A process takes the lock only when it is free, and gives back only its own.
LEMMA WriterMoves ==
    ASSUME TypeOK, NEW p \in Procs, Step(p)
    PROVE  /\ \/ writer' = writer
              \/ writer = p /\ writer' = NoProc
              \/ writer = NoProc /\ writer' = p
           /\ pc'[p] \in {"count", "run", "record"} <=> writer' = p
<1> USE OpenAssumption DEF TypeOK, GoTo, At, Fail, Release, disk, tables
<1>1. CASE Begin(p) \/ Close(p)
    BY <1>1 DEF Begin, Close
<1>2. CASE Faults(p)
    BY <1>2 DEF Faults, FileFails, WalRefused, SqliteFails, Kill
<1>3. CASE EnsureDir(p) \/ LookForFile(p) \/ CreateFile(p) \/ SetMode(p)
    BY <1>3 DEF EnsureDir, LookForFile, CreateFile, SetMode
<1>4. CASE Connect(p) \/ SetWal(p) \/ BeginImmediate(p) \/ BusyTimeout(p)
    BY <1>4 DEF Connect, SetWal, BeginImmediate, BusyTimeout
<1>5. CASE CountApplied(p) \/ Commit(p)
    BY <1>5 DEF CountApplied, Commit
<1>6. CASE RunMigration(p)
    BY <1>6 DEF RunMigration
<1>7. CASE RecordApplied(p)
    BY <1>7 DEF RecordApplied
<1> QED BY <1>1, <1>2, <1>3, <1>4, <1>5, <1>6, <1>7 DEF Step, Progress

LEMMA TypeStep ==
    ASSUME IInv, NEW p \in Procs, Step(p)
    PROVE  TypeOK'
<1>1. TypeOK
    BY DEF IInv
<1>2. ASSUME NEW q \in Procs
      PROVE  pc'[q] \in {"count", "run", "record"} <=> writer' = q
    <2>1. CASE q = p
        BY <1>1, <2>1, WriterMoves
    <2>2. CASE q # p
        <3>1. pc'[q] = pc[q]
            BY <1>1, <2>2, OthersKeep
        <3>2. writer' = q <=> writer = q
            BY <1>1, <2>2, WriterMoves, OpenAssumption
        <3> QED BY <1>1, <3>1, <3>2 DEF TypeOK
    <2> QED BY <2>1, <2>2
<1> QED BY <1>2, VariableTypesStep DEF TypeOK, VariableTypes

-----------------------------------------------------------------------------
(* Each part of the invariant, step by step.                               *)

\* Nothing an open has seen of the files is undone.
LEMMA FilesStay ==
    ASSUME NEW p \in Procs, Step(p)
    PROVE  /\ dir = "private" => dir' = "private"
           /\ file = "private" => file' = "private"
           /\ file # "absent" => file' # "absent"
           /\ journal = "wal" => journal' = "wal"
<1> USE DEF disk
<1>1. CASE Begin(p) \/ Close(p) \/ Faults(p)
    BY <1>1 DEF Begin, Close, Faults, FileFails, WalRefused, SqliteFails, Kill
<1>2. CASE EnsureDir(p) \/ LookForFile(p) \/ CreateFile(p) \/ SetMode(p)
    BY <1>2 DEF EnsureDir, LookForFile, CreateFile, SetMode
<1>3. CASE Connect(p) \/ SetWal(p) \/ BeginImmediate(p) \/ BusyTimeout(p)
    BY <1>3 DEF Connect, SetWal, BeginImmediate, BusyTimeout
<1>4. CASE CountApplied(p) \/ RunMigration(p) \/ RecordApplied(p) \/ Commit(p)
    BY <1>4 DEF CountApplied, RunMigration, RecordApplied, Commit
<1> QED BY <1>1, <1>2, <1>3, <1>4 DEF Step, Progress

LEMMA FilesStep ==
    ASSUME IInv, NEW p \in Procs, Step(p), NEW q \in Procs
    PROVE  FilesInv(q)'
<1> USE DEF FilesInv
<1>1. TypeOK /\ FilesInv(q)
    BY DEF IInv
<1>2. CASE q # p
    <2>1. pc'[q] = pc[q]
        BY <1>1, <1>2, OthersKeep
    <2> QED BY <1>1, <2>1, FilesStay
<1>3. CASE q = p
    <2> USE <1>1, <1>3 DEF TypeOK, GoTo, At, Fail
    <2>1. CASE Begin(p) \/ Close(p) \/ Faults(p)
        BY <2>1 DEF Begin, Close, Faults, FileFails, WalRefused, SqliteFails, Kill
    <2>2. CASE EnsureDir(p) \/ LookForFile(p) \/ CreateFile(p)
        BY <2>2, FilesStay DEF EnsureDir, LookForFile, CreateFile, Created, disk
    <2>3. CASE SetMode(p) \/ Connect(p) \/ SetWal(p) \/ BeginImmediate(p)
        BY <2>3 DEF SetMode, Connect, SetWal, BeginImmediate, disk
    <2>4. CASE BusyTimeout(p) \/ CountApplied(p) \/ Commit(p)
        BY <2>4 DEF BusyTimeout, CountApplied, Commit, disk
    <2>5. CASE RunMigration(p)
        BY <2>5 DEF RunMigration, disk
    <2>6. CASE RecordApplied(p)
        BY <2>6 DEF RecordApplied, disk
    <2> QED BY <2>1, <2>2, <2>3, <2>4, <2>5, <2>6 DEF Step, Progress
<1> QED BY <1>2, <1>3

\* No migration meets what an earlier one left behind.
LEMMA NoCollision ==
    ASSUME IInv, NEW p \in Procs
    PROVE  /\ At(p, "run") => \A i \in DOMAIN draft.schema : draft.schema[i] # next[p]
           /\ At(p, "record") => next[p] \notin draft.ledger
<1>1. DraftInv(p) /\ next[p] \in Nat
    BY DEF IInv, TypeOK
<1>2. At(p, "run") => draft.schema = [i \in 1..(next[p] - 1) |-> i]
    BY <1>1 DEF DraftInv, At, Migrated
<1> QED BY <1>1, <1>2 DEF DraftInv, At

\* The ledger's count is where the open's loop begins.
LEMMA CountStep ==
    ASSUME IInv, NEW p \in Procs, CountApplied(p), pc'[p] = "run"
    PROVE  DraftInv(p)'
<1>1. pc[p] = "count" /\ draft = db
    BY DEF CountApplied, At, IInv, DraftInv
<1>2. PICK n \in Builds \cup {0} :
          n \in Nat /\ Migrated(draft, n) /\ Cardinality(draft.ledger) = n
    BY <1>1, CountFacts
<1>3. build[p] \in Nat
    BY OpenAssumption DEF IInv, TypeOK
<1>4. n <= build[p] /\ next'[p] = n + 1 /\ draft' = draft /\ db' = db /\ build' = build
    BY <1>2, <1>3 DEF CountApplied, IsFuture, Fail, GoTo, IInv, TypeOK
<1>5. next'[p] \in 1..(build'[p] + 1) /\ next'[p] - 1 = n
    BY <1>2, <1>3, <1>4
<1>6. Migrated(draft', next'[p] - 1) /\ db'.ledger \subseteq draft'.ledger
    BY <1>1, <1>2, <1>4, <1>5
<1> QED BY <1>5, <1>6 DEF DraftInv, Migrated

LEMMA RunStep ==
    ASSUME IInv, NEW p \in Procs, RunMigration(p)
    PROVE  DraftInv(p)'
<1>1. pc[p] = "run" /\ next[p] <= build[p] /\ next[p] \in Nat /\ build[p] \in Nat
    BY OpenAssumption DEF RunMigration, At, IInv, TypeOK
<1>2. /\ next[p] \in 1..(build[p] + 1)
      /\ draft.schema = [i \in 1..(next[p] - 1) |-> i]
      /\ draft.ledger = 1..(next[p] - 1)
      /\ db.ledger \subseteq draft.ledger
    BY <1>1 DEF IInv, DraftInv, Migrated
<1>3. /\ draft' = [draft EXCEPT !.schema = Append(@, next[p])]
      /\ pc'[p] = "record" /\ next' = next /\ db' = db /\ build' = build
    BY <1>1, NoCollision DEF RunMigration, At, GoTo, IInv, TypeOK
<1>4. Append(draft.schema, next[p]) = [i \in 1..next[p] |-> i]
    <2> DEFINE n == next[p] - 1
    <2>1. n \in Nat /\ n + 1 = next[p]
        BY <1>1, <1>2
    <2>2. Append([i \in 1..n |-> i], n + 1) = [i \in 1..(n + 1) |-> i]
        BY <2>1, AppendedMigration
    <2> QED BY <1>2, <2>1, <2>2
<1>5. draft'.schema = [i \in 1..next[p] |-> i] /\ draft'.ledger = draft.ledger
    BY <1>3, <1>4 DEF IInv, TypeOK, Database
<1>6. next'[p] \in 1..build'[p]
    BY <1>1, <1>2, <1>3
<1> QED BY <1>2, <1>3, <1>5, <1>6 DEF DraftInv

LEMMA RecordStep ==
    ASSUME IInv, NEW p \in Procs, RecordApplied(p)
    PROVE  DraftInv(p)'
<1>1. pc[p] = "record" /\ next[p] \in Nat /\ build[p] \in Nat
    BY OpenAssumption DEF RecordApplied, At, IInv, TypeOK
<1>2. /\ next[p] \in 1..build[p]
      /\ draft.schema = [i \in 1..next[p] |-> i]
      /\ draft.ledger = 1..(next[p] - 1)
      /\ db.ledger \subseteq draft.ledger
    BY <1>1 DEF IInv, DraftInv
<1>3. /\ draft' = [draft EXCEPT !.ledger = @ \cup {next[p]}]
      /\ pc'[p] = "run" /\ next' = [next EXCEPT ![p] = @ + 1] /\ db' = db /\ build' = build
    BY <1>1, NoCollision DEF RecordApplied, At, GoTo, IInv, TypeOK
<1>4. next'[p] = next[p] + 1 /\ next'[p] - 1 = next[p] /\ next'[p] \in 1..(build[p] + 1)
    BY <1>1, <1>2, <1>3 DEF IInv, TypeOK
<1>5. (1..(next[p] - 1)) \cup {next[p]} = 1..next[p]
    BY <1>1, <1>2, RecordedMigration
<1>6. draft'.schema = draft.schema /\ draft'.ledger = 1..next[p]
    BY <1>2, <1>3, <1>5 DEF IInv, TypeOK, Database
<1>7. db'.ledger \subseteq draft'.ledger
    BY <1>2, <1>3, <1>6
<1>8. Migrated(draft', next'[p] - 1)
    BY <1>2, <1>4, <1>6 DEF Migrated
<1> QED BY <1>3, <1>4, <1>7, <1>8 DEF DraftInv, Migrated

\* Only its own steps are of interest to the transaction, and of these four.
LEMMA DraftStep ==
    ASSUME IInv, NEW p \in Procs, Step(p), NEW q \in Procs
    PROVE  DraftInv(q)'
<1>1. TypeOK /\ DraftInv(q)
    BY DEF IInv
<1>2. CASE q # p
    <2>1. pc'[q] = pc[q] /\ next'[q] = next[q] /\ build'[q] = build[q]
        BY <1>1, <1>2, OthersKeep
    <2>2. CASE pc[q] \in {"count", "run", "record"}
        <3>1. writer = q /\ q # NoProc
            BY <1>1, <2>2, OpenAssumption DEF TypeOK
        <3>2. db' = db /\ draft' = draft
            BY <1>1, <1>2, <3>1, TransactionFrame
        <3> QED BY <1>1, <2>1, <3>2 DEF DraftInv, Migrated
    <2>3. CASE pc[q] \notin {"count", "run", "record"}
        BY <2>1, <2>3 DEF DraftInv
    <2> QED BY <2>2, <2>3
<1>3. CASE q = p
    <2> USE <1>1, <1>3 DEF TypeOK, GoTo, At, Fail
    <2>1. CASE Begin(p) \/ Close(p) \/ Faults(p)
        BY <2>1 DEF Begin, Close, Faults, FileFails, WalRefused, SqliteFails, Kill, DraftInv
    <2>2. CASE EnsureDir(p) \/ LookForFile(p) \/ CreateFile(p) \/ SetMode(p)
        BY <2>2 DEF EnsureDir, LookForFile, CreateFile, SetMode, DraftInv
    <2>3. CASE Connect(p) \/ SetWal(p) \/ BusyTimeout(p) \/ Commit(p)
        BY <2>3 DEF Connect, SetWal, BusyTimeout, Commit, DraftInv
    <2>4. CASE BeginImmediate(p)
        BY <2>4 DEF BeginImmediate, DraftInv
    <2>5. CASE CountApplied(p)
        <3>1. pc'[p] = "run" \/ pc'[p] = "idle"
            BY <2>5 DEF CountApplied
        <3>2. CASE pc'[p] = "idle"
            BY <3>2 DEF DraftInv
        <3> QED BY <2>5, <3>1, <3>2, CountStep
    <2> QED BY <2>1, <2>2, <2>3, <2>4, <2>5, RunStep, RecordStep DEF Step, Progress
<1> QED BY <1>2, <1>3

\* What is committed is the schema of the build that commits it, and nothing is
\* lost by it.
LEMMA CommitFacts ==
    ASSUME IInv, NEW p \in Procs, Commit(p)
    PROVE  Migrated(db', build[p]) /\ db.ledger \subseteq db'.ledger
<1>1. pc[p] = "run" /\ next[p] > build[p] /\ db' = draft
    BY DEF Commit, At
<1>2. /\ next[p] \in 1..(build[p] + 1)
      /\ Migrated(draft, next[p] - 1)
      /\ db.ledger \subseteq draft.ledger
    BY <1>1 DEF IInv, DraftInv
<1>3. build[p] \in Nat /\ next[p] \in Nat
    BY OpenAssumption DEF IInv, TypeOK
<1>4. next[p] - 1 = build[p]
    BY <1>1, <1>2, <1>3
<1> QED BY <1>1, <1>2, <1>4

LEMMA LedgerGrows ==
    ASSUME IInv, NEW p \in Procs, Step(p)
    PROVE  db.ledger \subseteq db'.ledger
BY DatabaseStep, CommitFacts

LEMMA OpenStep ==
    ASSUME IInv, NEW p \in Procs, Step(p), NEW q \in Procs
    PROVE  OpenInv(q)'
<1>1. TypeOK /\ OpenInv(q)
    BY DEF IInv
<1>2. CASE q # p
    <2>1. pc'[q] = pc[q] /\ build'[q] = build[q]
        BY <1>1, <1>2, OthersKeep
    <2> QED BY <1>1, <2>1, LedgerGrows DEF OpenInv
<1>3. CASE q = p
    <2>1. CASE Commit(p)
        <3>1. Migrated(db', build[p]) /\ build' = build
            BY <2>1, CommitFacts DEF Commit
        <3> QED BY <1>3, <3>1 DEF OpenInv, Migrated
    <2>2. CASE ~ Commit(p)
        <3> USE <1>1, <1>3 DEF TypeOK, GoTo, At, Fail
        <3>1. pc'[p] # "open"
            <4>1. CASE Begin(p) \/ Close(p) \/ Faults(p)
                BY <4>1 DEF Begin, Close, Faults, FileFails, WalRefused, SqliteFails, Kill
            <4>2. CASE EnsureDir(p) \/ LookForFile(p) \/ CreateFile(p) \/ SetMode(p)
                BY <4>2 DEF EnsureDir, LookForFile, CreateFile, SetMode
            <4>3. CASE Connect(p) \/ SetWal(p) \/ BeginImmediate(p) \/ BusyTimeout(p)
                BY <4>3 DEF Connect, SetWal, BeginImmediate, BusyTimeout
            <4>4. CASE CountApplied(p)
                BY <4>4 DEF CountApplied
            <4>5. CASE RunMigration(p) \/ RecordApplied(p)
                BY <4>5 DEF RunMigration, RecordApplied
            <4> QED BY <2>2, <4>1, <4>2, <4>3, <4>4, <4>5 DEF Step, Progress
        <3> QED BY <3>1 DEF OpenInv
    <2> QED BY <2>1, <2>2
<1> QED BY <1>2, <1>3

LEMMA CommittedStep ==
    ASSUME IInv, NEW p \in Procs, Step(p)
    PROVE  CommittedInStep'
<1>1. CASE db' = db
    BY <1>1 DEF IInv, CommittedInStep, Migrated
<1>2. CASE Commit(p)
    <2>1. Migrated(db', build[p]) /\ build[p] \in Builds
        BY <1>2, CommitFacts DEF IInv, TypeOK
    <2> QED BY <2>1 DEF CommittedInStep, Migrated
<1> QED BY <1>1, <1>2, DatabaseStep

\* The answers: a new one is Ok only by a commit, and is that the schema is of a
\* newer build only by the count.
LEMMA AnswerStep ==
    ASSUME IInv, NEW p \in Procs, Step(p), result'[p] # result[p]
    PROVE  /\ result'[p] # "Collision"
           /\ result'[p] = "Ok" => Commit(p)
           /\ result'[p] = "FutureSchema" =>
                 pc[p] = "count" /\ IsFuture(p, Cardinality(draft.ledger)) /\ db' = db
<1>1. TypeOK
    BY DEF IInv
<1> USE <1>1 DEF TypeOK, Fail
<1>2. CASE Begin(p) \/ Close(p) \/ Faults(p)
    BY <1>2 DEF Begin, Close, Faults, FileFails, WalRefused, SqliteFails, Kill
<1>3. CASE EnsureDir(p) \/ LookForFile(p) \/ CreateFile(p) \/ SetMode(p)
    BY <1>3 DEF EnsureDir, LookForFile, CreateFile, SetMode
<1>4. CASE Connect(p) \/ SetWal(p) \/ BeginImmediate(p) \/ BusyTimeout(p)
    BY <1>4 DEF Connect, SetWal, BeginImmediate, BusyTimeout
<1>5. CASE CountApplied(p)
    BY <1>5 DEF CountApplied, At
<1>6. CASE RunMigration(p) \/ RecordApplied(p)
    BY <1>6, NoCollision DEF RunMigration, RecordApplied
<1>7. CASE Commit(p)
    BY <1>7 DEF Commit
<1> QED BY <1>2, <1>3, <1>4, <1>5, <1>6, <1>7 DEF Step, Progress

-----------------------------------------------------------------------------
(* Invariance.                                                             *)

LEMMA InitInvariant == Init => IInv
<1> SUFFICES ASSUME Init PROVE IInv
    OBVIOUS
<1>1. EmptyDatabase \in Database /\ Migrated(EmptyDatabase, 0)
    BY DEF EmptyDatabase, Database, Migrated
<1>2. TypeOK
    BY <1>1, OpenAssumption DEF Init, TypeOK, Modes, Labels, Results
<1>3. CommittedInStep
    BY <1>1 DEF Init, CommittedInStep
<1>4. \A p \in Procs : FilesInv(p) /\ DraftInv(p) /\ OpenInv(p) /\ result[p] # "Collision"
    BY DEF Init, FilesInv, DraftInv, OpenInv
<1> QED BY <1>2, <1>3, <1>4 DEF IInv

LEMMA StepInvariant == IInv /\ [Next]_vars => IInv'
<1> SUFFICES ASSUME IInv, [Next]_vars PROVE IInv'
    OBVIOUS
<1>1. CASE UNCHANGED vars
    BY <1>1 DEF vars, IInv, TypeOK, CommittedInStep, Migrated, FilesInv, DraftInv, OpenInv
<1>2. ASSUME NEW p \in Procs, Step(p) PROVE IInv'
    <2>1. TypeOK' /\ CommittedInStep'
        BY <1>2, TypeStep, CommittedStep
    <2>2. ASSUME NEW q \in Procs
          PROVE  FilesInv(q)' /\ DraftInv(q)' /\ OpenInv(q)'
        BY <1>2, FilesStep, DraftStep, OpenStep
    <2>3. ASSUME NEW q \in Procs PROVE result'[q] # "Collision"
        <3>1. result[q] # "Collision" /\ TypeOK
            BY DEF IInv
        <3> QED BY <1>2, <3>1, AnswerStep, OthersKeep
    <2> QED BY <2>1, <2>2, <2>3 DEF IInv
<1> QED BY <1>1, <1>2 DEF Next, Step

\* The inductive invariant holds in every state: what an open has seen of the
\* files stays true, and the transaction is at the migration its loop is at.
THEOREM Invariance == Spec => []IInv
<1> QED BY InitInvariant, StepInvariant, PTL DEF Spec

\* Every variable has its type, and the write lock is held by the one process
\* that is inside migrate's transaction.
THEOREM TypeCorrect == Spec => []TypeOK
<1>1. IInv => TypeOK
    BY DEF IInv
<1> QED BY <1>1, Invariance, PTL

\* Store::open runs every migration once and in order, however many builds race
\* and are killed; none meets what an earlier one left behind.
THEOREM MigrationsRunInStep == Spec => []MigrationsInStep
<1>1. IInv => MigrationsInStep
    BY DEF IInv, CommittedInStep, MigrationsInStep
<1> QED BY <1>1, Invariance, PTL

\* A store that was opened stays private, write-ahead and migrated while it is in
\* use, whatever other opens do.
THEOREM OpenedStoresAreReady == Spec => []OpenedMeansReady
<1>1. IInv => OpenedMeansReady
    BY DEF IInv, OpenedMeansReady, FilesInv, OpenInv, At
<1> QED BY <1>1, Invariance, PTL

\* The verdict on the schema and the migrations are of one moment: Ok answers a
\* schema that is exactly the build's, FutureSchema one that has more.
THEOREM VerdictsAreRight == Spec => SchemaVerdictIsRight
<1> DEFINE Verdict(p) == result'[p] # result[p] =>
                /\ result'[p] = "Ok" => Migrated(db', build[p])
                /\ result'[p] = "FutureSchema" => Cardinality(db'.ledger) > build[p]
<1>1. ASSUME IInv, Next, NEW q \in Procs PROVE Verdict(q)
    <2>1. PICK p \in Procs : Step(p)
        BY <1>1 DEF Next, Step
    <2>2. CASE q # p
        BY <1>1, <2>1, <2>2, OthersKeep DEF IInv
    <2>3. CASE q = p
        <3>1. ASSUME result'[p] # result[p], result'[p] = "Ok"
              PROVE  Migrated(db', build[p])
            BY <1>1, <2>1, <3>1, AnswerStep, CommitFacts
        <3>2. ASSUME result'[p] # result[p], result'[p] = "FutureSchema"
              PROVE  Cardinality(db'.ledger) > build[p]
            <4>1. pc[p] = "count" /\ IsFuture(p, Cardinality(draft.ledger)) /\ db' = db
                BY <1>1, <2>1, <3>2, AnswerStep
            <4>2. draft = db
                BY <1>1, <4>1 DEF IInv, DraftInv
            <4> QED BY <4>1, <4>2 DEF IsFuture
        <3> QED BY <2>3, <3>1, <3>2
    <2> QED BY <2>2, <2>3
<1>2. IInv /\ [Next]_vars => [\A p \in Procs : Verdict(p)]_vars
    BY <1>1
<1> QED BY <1>2, Invariance, PTL DEF Spec, SchemaVerdictIsRight
=============================================================================
