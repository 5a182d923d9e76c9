----------------------------- MODULE StoreOpen -----------------------------
(***************************************************************************)
(* Store::open of store.rs: any number of processes, of older and newer    *)
(* builds and under different umasks, open one database that may not exist *)
(* yet, and may be killed at any point.                                    *)
(*                                                                         *)
(* An open makes the private directory, looks for the database file,       *)
(* creates it if there is none and states its mode, connects, switches to  *)
(* write-ahead logging, and runs the missing migrations in one immediate   *)
(* transaction, whose ledger says which of them were run before.           *)
(*                                                                         *)
(* SQLite is external: one process at a time holds the write lock; what    *)
(* its transaction does is invisible until the commit, and undone if it    *)
(* fails or the process is killed.                                         *)
(***************************************************************************)
EXTENDS Naturals, Sequences, FiniteSets

CONSTANTS
    Procs,   \* process slots
    Builds,  \* per build of the program, the number of its MIGRATIONS
    Umasks,  \* "wide" leaves the owner's bits of a mode alone, "narrow" does not
    NoProc   \* nobody holds the write lock

ASSUME OpenAssumption ==
    /\ Builds \subseteq Nat \ {0}
    /\ Umasks \subseteq {"wide", "narrow"}
    /\ NoProc \notin Procs

\* The mode of a directory entry: exactly 0700 or 0600, or with less than that.
Modes == {"absent", "private", "narrow"}

VARIABLES
    dir,      \* the mode of the data directory
    file,     \* the mode of the database file
    journal,  \* its journal mode
    db,       \* what is committed: the migrations run, and the ledger's rows
    writer,   \* who holds the write lock
    draft,    \* the database as that transaction sees it
    pc,       \* how far each open is
    build,    \* the process's MIGRATIONS.len()
    umask,    \* the process's umask
    next,     \* the migration its loop is at
    result    \* what the open answered

disk == <<dir, file, journal>>

tables == <<db, writer, draft>>

vars == <<dir, file, journal, db, writer, draft, pc, build, umask, next, result>>

EmptyDatabase == [schema |-> <<>>, ledger |-> {}]

Init ==
    /\ dir = "absent"
    /\ file = "absent"
    /\ journal = "delete"
    /\ db = EmptyDatabase
    /\ writer = NoProc
    /\ draft = EmptyDatabase
    /\ pc = [p \in Procs |-> "idle"]
    /\ build \in [Procs -> Builds]
    /\ umask \in [Procs -> Umasks]
    /\ next = [p \in Procs |-> 0]
    /\ result = [p \in Procs |-> "none"]

-----------------------------------------------------------------------------

At(p, label) == pc[p] = label

GoTo(p, label) == pc' = [pc EXCEPT ![p] = label]

\* A mode asked for, as the umask leaves it.
Created(p) == IF umask[p] = "wide" THEN "private" ELSE "narrow"

\* The write lock goes, and what was not committed with it.
Release(p) ==
    IF writer = p
    THEN writer' = NoProc /\ draft' = EmptyDatabase
    ELSE UNCHANGED <<writer, draft>>

\* Mutant: the transaction outlives the error.
FailHolding(p, status) ==
    /\ GoTo(p, "idle")
    /\ next' = [next EXCEPT ![p] = 0]
    /\ result' = [result EXCEPT ![p] = status]
    /\ UNCHANGED <<writer, draft>>

\* The open returns an error; dropping the transaction rolls it back.
Fail(p, status) ==
    /\ GoTo(p, "idle")
    /\ next' = [next EXCEPT ![p] = 0]
    /\ result' = [result EXCEPT ![p] = status]
    /\ Release(p)

-----------------------------------------------------------------------------
(* The files.                                                              *)

\* The next process in this slot, of whichever build and umask.
Begin(p) ==
    /\ At(p, "idle")
    /\ GoTo(p, "directory")
    /\ \E b \in Builds : build' = [build EXCEPT ![p] = b]
    /\ \E u \in Umasks : umask' = [umask EXCEPT ![p] = u]
    /\ result' = [result EXCEPT ![p] = "none"]
    /\ UNCHANGED <<disk, tables, next>>

\* ensure_private_dir: made if it is missing (that another process was faster
\* is no error), then held to its mode, whoever made it.
EnsureDir(p) ==
    LET mode == IF dir = "absent" THEN Created(p) ELSE dir
    IN  /\ At(p, "directory")
        /\ dir' = mode
        /\ IF mode = "private"
           THEN GoTo(p, "look") /\ UNCHANGED <<writer, draft, next, result>>
           ELSE Fail(p, "Io")
        /\ UNCHANGED <<file, journal, db, build, umask>>

\* regular_file_exists; a file of any other mode is an InsecureFile.
LookForFile(p) ==
    /\ At(p, "look")
    /\ \/ file = "absent" /\ GoTo(p, "create") /\ UNCHANGED <<writer, draft, next, result>>
       \/ file = "private" /\ GoTo(p, "connect") /\ UNCHANGED <<writer, draft, next, result>>
       \/ file = "narrow" /\ Fail(p, "Io")
    /\ UNCHANGED <<disk, db, build, umask>>

\* create_new: a file that appeared since the look is an error.
CreateFile(p) ==
    /\ At(p, "create")
    /\ IF file = "absent"
       THEN /\ file' = Created(p)
            /\ GoTo(p, "mode")
            /\ UNCHANGED <<writer, draft, next, result>>
       ELSE Fail(p, "Io") /\ UNCHANGED file
    /\ UNCHANGED <<dir, journal, db, build, umask>>

\* Mutant: the mode create_new was asked for is trusted.
SetModeSkipped(p) ==
    /\ At(p, "mode")
    /\ GoTo(p, "connect")
    /\ UNCHANGED <<disk, tables, build, umask, next, result>>

SetMode(p) ==
    /\ At(p, "mode")
    /\ file' = "private"
    /\ GoTo(p, "connect")
    /\ UNCHANGED <<dir, journal, tables, build, umask, next, result>>

FileFails(p) ==
    /\ pc[p] \in {"directory", "look", "create", "mode"}
    /\ Fail(p, "Io")
    /\ UNCHANGED <<disk, db, build, umask>>

-----------------------------------------------------------------------------
(* The connection.                                                         *)

\* Connection::open, the busy timeout and PRAGMA foreign_keys.
Connect(p) ==
    /\ At(p, "connect")
    /\ GoTo(p, "wal")
    /\ UNCHANGED <<disk, tables, build, umask, next, result>>

\* PRAGMA journal_mode=WAL, which stays with the file.
SetWal(p) ==
    /\ At(p, "wal")
    /\ journal' = "wal"
    /\ GoTo(p, "begin")
    /\ UNCHANGED <<dir, file, tables, build, umask, next, result>>

\* The pragma answers with another mode than the one asked for.
WalRefused(p) ==
    /\ At(p, "wal")
    /\ journal # "wal"
    /\ Fail(p, "NotWal")
    /\ UNCHANGED <<disk, db, build, umask>>

-----------------------------------------------------------------------------
(* migrate.                                                                *)

\* Mutant: a deferred transaction, which reads the ledger before it locks.
BeginDeferred(p) ==
    /\ At(p, "begin")
    /\ \/ /\ next[p] = 0
          /\ next' = [next EXCEPT ![p] = Cardinality(db.ledger) + 1]
          /\ UNCHANGED <<writer, draft, pc>>
       \/ /\ next[p] \in 1..(build[p] + 1)
          /\ writer = NoProc
          /\ writer' = p
          /\ draft' = db
          /\ GoTo(p, "run")
          /\ UNCHANGED next
    /\ UNCHANGED <<disk, db, build, umask, result>>

\* BEGIN IMMEDIATE: the write lock first, and the ledger after it.
BeginImmediate(p) ==
    /\ At(p, "begin")
    /\ writer = NoProc
    /\ writer' = p
    /\ draft' = db
    /\ GoTo(p, "count")
    /\ UNCHANGED <<disk, db, build, umask, next, result>>

\* Mutant: no busy timeout is set, so that it waits for as long as it takes.
BusyTimeoutNever(p) ==
    /\ At(p, "begin")
    /\ FALSE
    /\ UNCHANGED vars

\* The lock was not free for BUSY_TIMEOUT.
BusyTimeout(p) ==
    /\ At(p, "begin")
    /\ writer # NoProc
    /\ Fail(p, "Busy")
    /\ UNCHANGED <<disk, db, build, umask>>

\* Mutant: a store of this very build is refused like a newer one's.
IsFutureEqual(p, applied) == applied >= build[p]

IsFuture(p, applied) == applied > build[p]

\* The ledger table is there from here on; its rows say how many were applied.
CountApplied(p) ==
    LET applied == Cardinality(draft.ledger)
    IN  /\ At(p, "count")
        /\ IF IsFuture(p, applied)
           THEN Fail(p, "FutureSchema")
           ELSE /\ next' = [next EXCEPT ![p] = applied + 1]
                /\ GoTo(p, "run")
                /\ UNCHANGED <<writer, draft, result>>
        /\ UNCHANGED <<disk, db, build, umask>>

\* Creating tables that are there is an error.
RunMigration(p) ==
    /\ At(p, "run")
    /\ next[p] <= build[p]
    /\ IF \E i \in DOMAIN draft.schema : draft.schema[i] = next[p]
       THEN Fail(p, "Collision")
       ELSE /\ draft' = [draft EXCEPT !.schema = Append(@, next[p])]
            /\ GoTo(p, "record")
            /\ UNCHANGED <<writer, next, result>>
    /\ UNCHANGED <<disk, db, build, umask>>

RecordApplied(p) ==
    /\ At(p, "record")
    /\ IF next[p] \in draft.ledger
       THEN Fail(p, "Collision")
       ELSE /\ draft' = [draft EXCEPT !.ledger = @ \cup {next[p]}]
            /\ next' = [next EXCEPT ![p] = @ + 1]
            /\ GoTo(p, "run")
            /\ UNCHANGED <<writer, result>>
    /\ UNCHANGED <<disk, db, build, umask>>

\* The loop is over: commit, and Store::open returns.
Commit(p) ==
    /\ At(p, "run")
    /\ next[p] > build[p]
    /\ db' = draft
    /\ writer' = NoProc
    /\ draft' = EmptyDatabase
    /\ next' = [next EXCEPT ![p] = 0]
    /\ GoTo(p, "open")
    /\ result' = [result EXCEPT ![p] = "Ok"]
    /\ UNCHANGED <<disk, build, umask>>

\* SQLite fails: the disk, a file another program holds, a lock in a pragma.
SqliteFails(p) ==
    /\ pc[p] \in {"connect", "wal", "begin", "count", "run", "record"}
    /\ Fail(p, "Sqlite")
    /\ UNCHANGED <<disk, db, build, umask>>

-----------------------------------------------------------------------------

\* The store is dropped when its one contact operation is over.
Close(p) ==
    /\ At(p, "open")
    /\ GoTo(p, "idle")
    /\ UNCHANGED <<disk, tables, build, umask, next, result>>

Kill(p) ==
    /\ ~ At(p, "idle")
    /\ Fail(p, "none")
    /\ UNCHANGED <<disk, db, build, umask>>

\* What an open does by itself while nothing fails.
Progress(p) ==
    \/ EnsureDir(p) \/ LookForFile(p) \/ CreateFile(p) \/ SetMode(p)
    \/ Connect(p) \/ SetWal(p) \/ BeginImmediate(p) \/ BusyTimeout(p)
    \/ CountApplied(p) \/ RunMigration(p) \/ RecordApplied(p) \/ Commit(p)

Faults(p) == FileFails(p) \/ WalRefused(p) \/ SqliteFails(p) \/ Kill(p)

Next == \E p \in Procs : Begin(p) \/ Progress(p) \/ Faults(p) \/ Close(p)

Spec == Init /\ [][Next]_vars

\* Calls into the system and into SQLite return, the busy timeout among them.
FairSpec == Spec /\ \A p \in Procs : WF_vars(Progress(p))

-----------------------------------------------------------------------------
(* Properties.                                                             *)

Labels == {"idle", "directory", "look", "create", "mode", "connect", "wal", "begin",
           "count", "run", "record", "open"}

Results == {"none", "Ok", "Io", "NotWal", "Busy", "Sqlite", "FutureSchema", "Collision"}

Database == [schema : Seq(Nat), ledger : SUBSET Nat]

Opening(p) == ~ At(p, "idle") /\ ~ At(p, "open")

\* The first n migrations, each once and in order, in the tables and the ledger.
Migrated(d, n) == d.schema = [i \in 1..n |-> i] /\ d.ledger = 1..n

\* Every variable has its type, and the write lock is held by the one process
\* that is inside its transaction.
TypeOK ==
    /\ dir \in Modes
    /\ file \in Modes
    /\ journal \in {"delete", "wal"}
    /\ db \in Database
    /\ writer \in Procs \cup {NoProc}
    /\ draft \in Database
    /\ pc \in [Procs -> Labels]
    /\ build \in [Procs -> Builds]
    /\ umask \in [Procs -> Umasks]
    /\ next \in [Procs -> Nat]
    /\ result \in [Procs -> Results]
    /\ \A p \in Procs : pc[p] \in {"count", "run", "record"} <=> writer = p

\* However many first users of however many builds race and are killed in
\* between, every migration was run once, in order, and the ledger says so: no
\* migration ever meets what an earlier one left behind.
MigrationsInStep ==
    /\ \E n \in Builds \cup {0} : Migrated(db, n)
    /\ \A p \in Procs : result[p] # "Collision"

\* A store that was opened stays ready while it is in use: its file and its
\* directory private, its journal write-ahead, all migrations of its build
\* there, whatever others open, create or migrate meanwhile.
OpenedMeansReady ==
    \A p \in Procs : At(p, "open") =>
        /\ dir = "private"
        /\ file = "private"
        /\ journal = "wal"
        /\ 1..build[p] \subseteq db.ledger

\* A build opens a store whose schema is exactly its own, and refuses one as
\* newer only if it is: the verdict and the migrations are of one moment.
SchemaVerdictIsRight ==
    [][\A p \in Procs : result'[p] # result[p] =>
         /\ result'[p] = "Ok" => Migrated(db', build[p])
         /\ result'[p] = "FutureSchema" => Cardinality(db'.ledger) > build[p]]_vars

\* Every open is answered, though the process that holds the write lock may be
\* slow, fail or be killed, and others may take the lock again and again.
OpensAreAnswered == \A p \in Procs : Opening(p) ~> ~ Opening(p)

\* "Own the file before SQLite does, so it is 0600 from birth" (store.rs:99).
PrivateFromBirth == file \in {"absent", "private"}
=============================================================================
