# A verification project for mg-contacts

mg-contacts keeps encrypted contacts in one SQLite file, under a key that is itself sealed by a
passphrase in a key file. This directory holds TLA+ models of it, translated from `src/src/*.rs`,
the TLC runs that check them on small instances, and theorems that TLAPS checks for every instance.
What each definition translates is in `PROJECT.json` under `map`.

## The system

| Component | Source | State | Operations |
|---|---|---|---|
| Contact operations | `contact.rs` | none of its own: each call opens the store, reads, builds, inserts, answers | `create`, `update`, `soft_delete`, `get`, `list` |
| Audit trail | `audit.rs` | the events of a record, stored again with every revision | `append`, deserialization |
| Contact store | `store.rs` | the table `contact_revisions`, the migration ledger | `open`, `latest`, `latest_all`, `append` |
| Key lifecycle | `keyring.rs` | the key file; the key a process has authenticated | `setup`, `verify_passphrase`, `status`, `lock` |
| Private-file layer | `secure_fs.rs` | directories, temporary files, the files installed from them | `regular_file_exists`, `install_new_file`, `read_private_file`, `ensure_private_dir` |
| Envelope | `envelope.rs` | none | `encrypt_field`, `decrypt_field` under authenticated context |
| Privacy | `privacy.rs` | none | classifications, and approvals that return a changed copy |
| Tombstone | `tombstone.rs` | none | `seal`, `open`; no operation of the program uses it |
| Configuration | `config.rs` | none | paths and database URL from environment and file |
| Command line | `main.rs`, `lib.rs` | one process per command | configuration, authentication, one command, exit code |

There are no threads and no callbacks. The concurrency is that of *processes*: every command is a
process, any number run at once, and any may be killed. They share the key directory and the
database file, and meet nowhere else. The command line authenticates with the key lifecycle and
passes it to a contact operation, which parses the id, opens the store, reads the newest revision,
builds the next one (audit event, then encryption), inserts it and answers with its view.

What is hard here, and what makes each part correct:

* **Contact operations and store.** The read of the newest revision and the insert of the next are
  two statements (the `DEBT` note, `store.rs:147`); `UNIQUE(record_id, revision)` is all that stands
  between two racing writers and a lost update, a tombstone with the wrong fields or a forked
  history. Correct is: a history is revisions 1, 2, 3, ...; a write lands only on the row it was
  computed from; to its callers each record behaves as one atomic register.
* **Audit trail.** It is replayed by the same checks at every read, so anything appended must be
  accepted again; its timestamps must advance although clocks do not; its ids and its length are
  limited. Correct is: continued by every revision, always readable, and refusing an edit only when
  it is exhausted.
* **Key installation.** Create, write, sync, rename without replacing, sync the directory, with a
  sweep of leftovers that races live installers, reused pids, kills and power losses, and a mode that
  is what the umask leaves of 0600. Correct is: one key, whole, never replaced, not lost once reported,
  and one that the next process can open.
* **Opening the store.** Looking for the file, creating it, stating its mode, connecting, switching to
  write-ahead logging and migrating are separate steps, of processes of several builds and umasks.
  Correct is: every migration once and in order, an open store stays ready, a schema is refused as
  newer only if it is, and every open is answered.
* **A whole command.** Key file and store share a directory that the first command creates. Correct is:
  whatever is killed and wherever the power goes, a row never outlives the key it is sealed under; what
  was acknowledged stays; the exit code, unless it is a panic's, tells whether anything was changed.
* **Envelopes.** Record, field, classification and purpose are concatenated and authenticated. Correct
  is: an envelope opens for exactly what it was sealed for, and everything sealed can be read back.
* **Configuration.** Any host that libpq may pick from a URL must have been found local, although the
  validation and libpq take the URL apart by different rules.

`PROJECT.json` lists the hazards one by one, each at its line, with the properties that watch it.

## The modules

| Module | What it is |
|---|---|
| `AuditTrail` | The trail: what `append` accepts and adds, what deserializes, the next timestamp. Operators only. |
| `ContactStore` | The five operations over the table, by any number of processes; properties and the inductive invariant. Extends `AuditTrail`. |
| `ContactRegister` | The abstract specification: one register per record id, each call atomic. |
| `ContactStore_proof` | The theorems about `ContactStore`, including that it implements `ContactRegister`. |
| `KeyInstall` | Setup, verification, status and lock over the key directory, with sweeps, kills and power losses. |
| `KeyRegister` | The abstract specification of `KeyInstall`: one key, written once. |
| `KeyInstall_proof` | The theorems about `KeyInstall`, including that it implements `KeyRegister`. |
| `StoreOpen` | `Store::open`, by any number of processes of any builds and umasks. |
| `StoreOpen_proof` | The theorems about `StoreOpen`. |
| `Config` | Paths, the choice of a database URL, its validation, and the hosts libpq would contact. Operators only. |
| `Cli` | Commands from their launch to their exit code, over `KeyRegister` and `ContactRegister`, in directories a power loss may take away. Extends `Config`. |
| `Cli_proof` | The theorems about `Cli`, and about the URLs `Config` accepts. |
| `FieldEnvelope` | Envelopes, classifications and tombstones. |
| `FieldEnvelope_proof` | The theorems about `FieldEnvelope`, and about the associated data of an envelope. |
| `MCContactStore`, `MCKeyInstall`, `MCStoreOpen`, `MCCli`, `MCFieldEnvelope` | The values and symmetries TLC needs. |

`KeyInstall` and `ContactStore` are each shown to implement their register, so `Cli` composes the two
registers instead of the two detailed modules: that each detailed module implements its register is
both checked and proved.

### ContactStore and the code

`revisions[id]` is the rows of one record in insertion order, all that `ORDER BY sequence DESC
LIMIT 1` and the `MAX(sequence)` sub-select of `latest_all` look at. For a process `p`, `pc[p]` is
how far its call is; `call[p]`, `handle[p]` its arguments and `KeyLifecycle`; `snapshot[p]` and
`record[p]` the locals `previous`/`current` and `record`; `result[p]` the `Result`.

| Action | Code |
|---|---|
| `RejectId`, `OpenStore`, `OpenFails` | `RecordId::parse`, then `Store::open` and its errors |
| `ReadForMutation`, `ReadFails` | `store.latest` and the checks up to `build_record`; deletion decrypts here |
| `Build` | `build_record`: fields, event id, audit append, encryption, in this order |
| `AppendRow`, `AppendConflicts`, `AppendFails` | the INSERT: done, refused by the constraint, failed otherwise |
| `ReturnView` | `view(key, &record)`: of the record built, not of a row read back |
| `Get`, `List` | one SELECT, and the views of what it returned |
| `Crash` | the process is killed between any two of these |

One SELECT and one INSERT are atomic and an autocommitted INSERT is durable: SQLite's promise,
which the model takes for granted. `AppendConflicts` and `AppendFails` are both `ContactError::Write`
in the code; the error's source tells them apart, and the model gives them two statuses. Name, email
and phone are one payload; `EmptyField` and `OversizedField` stand for payloads `build_record` and
the envelope refuse. A sealed payload carries the key and the record id it was sealed under, which is
what `decrypt_field` authenticates. Event ids are pairs of record and number; only their length
matters, and `IdBytes` gives it.

`revision.checked_add(1)` and the conversions to `i64` and `u64` cannot fail: a revision is the length
of its trail (`TrailContinuity`, proved together with `RevisionIsPosition`), at most 100 000.

### KeyInstall and the code

`temps` is the temporary files of the directory, `installed` the key file, `durable` whether its
directory entry is on the disk. A file knows its mode, 0600 or what a narrow umask left of it, and what
of its bytes is there: none yet, all written, synced, or torn by a power loss. Per process: its `pid` (`NoPid` when no process runs in the slot),
the system call it is at, what it lists and sweeps, the temporary file it installs, the key it holds.

`ListTemps`, `SkipLive`, `CondemnOrphan` and `UnlinkOrphan` are `recover_orphan_temps`: the listing,
the question to `/proc` and the unlink are separate steps, and a name that appears during the listing
may or may not be returned. `CreateTemp`, `WriteTemp`, `SyncTemp`, `Publish`, `SyncDir` are
`install_new_file`; `SweepFails`, `InstallFails`, `SyncDirFails` are its error returns, and `VerifyFails`
that of a key file that cannot be read. An installation that fails unlinks its temporary file and does not
ask whether that worked, so `FailInstall` may leave it behind. `CreateTemp` meets any umask; a key file
whose mode is not 0600 is an `Io` to whoever reads it, and so, in `AnswerStatus` and `RefuseSetup`, is the
look whether it is there. `Die` kills a
process anywhere. `PowerLoss` ends all of them, tears files not synced and may undo directory entries
not synced. Both are rules of the machine and not code of the repository (`external` in the map).

A pid is taken from all processes that share the directory: processes in other pid namespaces, which
`/proc` does not show, are outside the model. Keys and random numbers are never drawn twice.

`Register` maps this to `KeyRegister`: the sealed key is the key file if it is whole, it `opens` if the
file's mode is 0600, and a setup that has renamed its file and not yet synced the directory is `pending`.
The register's `Publish` is the
rename, `Acknowledge` the sync; every other step but `Verify`, `Lock`, `Die`, `SyncDirFails` and
`PowerLoss` is invisible.

### StoreOpen and the code

`dir` and `file` are the modes of the data directory and of the database file: absent, exactly 0700 or
0600, or fewer bits than that, which is what a narrow umask makes of a mode asked for. `db` is what is
committed, `draft` what the transaction of `writer` has done so far: the migrations run, in order, and
the rows of the ledger. A process is of a build, known by the number of its migrations, and `next` is
the migration its loop has come to.

| Action | Code |
|---|---|
| `EnsureDir`, `LookForFile`, `CreateFile`, `SetMode` | `ensure_private_dir`, `regular_file_exists`, `create_private_file` |
| `Connect`, `SetWal`, `WalRefused` | the connection, its timeout and its pragmas |
| `BeginImmediate`, `BusyTimeout` | the immediate transaction: it has the write lock, or gives up after `BUSY_TIMEOUT` |
| `CountApplied`, `RunMigration`, `RecordApplied`, `Commit` | `migrate` |
| `FileFails`, `SqliteFails`, `Kill` | an error, or the end of the process, at any of these |

The program has one migration today; builds with one and with two stand for this one and the next. What
`regular_file_exists` sweeps is modelled in `KeyInstall`. That a creation loses the race and the command
fails (`CreateFile` finds the file) is what the code does, and no property forbids it.

### Cli and the code

`stage[p]` is how far a command is in `run`. `base` is the nearest ancestor of the data directory that
may be missing, `app` the data directory: absent, there but with an entry that is not on the disk, or
durable. The four base directories are treated alike; only what happens in the data directory is kept,
a failure in any of them is `DirectoryFails`. `contact[id].payload` is the key a row is sealed under.

`config::load` is `ResolvePaths` to `Configure`; `SetUp`, `FinishSetUp`, `SetUpFails` and `Verify` use
the actions of `KeyRegister`; `ReadFields` and `Invoke` to `Return` those of `ContactRegister`. `Finish`
is `main`: the last words of the command, its answer or its error, then the code, and the process with its
key is gone. `println!` and `eprintln!` panic when nobody reads, so that any command may end with 101
instead, also one that failed and changed nothing; so may the prompt of `read_value`. A setup under a
narrow umask publishes a key that does not open, after which `Verify` and `Status` only fail; what such a
umask does to the directories is a `DirectoryFails`, and to the database file is in `StoreOpen`.
`PowerLoss` undoes entries that were not synced and all that lies
below them. `Mutate` takes from SQLite that a commit syncs the write-ahead log and, on its first sync
after opening the log, the directory that holds it: the same directory that holds the key file. That is
why a key that was used is safe even though the setup that published it was never heard of again.

`Config` knows of a path whether it is absent, absolute or relative, and of a host whether it is one of
six kinds; in the authority a socket's path can only be percent-encoded, which the validation does not
decode. A URL is what the url crate makes of it, with what libpq makes of it differently: whether two
`@` precede the hosts (the url crate takes the user to end at the last, libpq at the first, which leaves
the second in the name of a host), the parameters after a `#` (of no concern to the url crate, parameters
like any other to libpq), and a `service`, whose file may name an address, which libpq prefers to a
host's name. `UrlVerdict` is the code's reading; `ContactedHosts` is libpq's, and not code of the
repository; `SameReading` says of a URL that they agree.

### FieldEnvelope and the code

Bytes are numbers, and the length in front of a component is one number where the code writes four
bytes. `Aad` is `FieldContext::aad`; the classification's JSON is its version and its fields in order.
`envelope` is one envelope in its wire form; `filed` is where it is stored. `Seal...` and `Open...` are
`encrypt_field` and `decrypt_field`, for a field under its current classification or for a tombstone
under its fixed one; `Misfile` and `Damage` are whatever may happen to stored bytes. A tombstone is written
with its record's id, and `EncryptedTombstone::open` takes the id from there: a whole tombstone opens
wherever it is filed, and one whose envelope is put into another record's wrapper does not.
`ReadClassification` is the deserializer of a classification, which brings back approvals as well.

## The runs

| Run | Instance | Question |
|---|---|---|
| `ContactRace` | 2 processes, 1 id, 2 payloads, trails of up to 3 events | Do races and kills keep histories and answers right? |
| `ContactClock` | 2 processes, 1 id, a clock that reads 0 or 3 where 3 is the last timestamp, 2 keys and a locked handle, up to 3 events | Does the clock ever make a trail refuse or spoil an edit? What blocks a list over revisions of several keys? Is the inductive invariant true? |
| `ContactLongId` | 1 process, an id of 254 bytes, up to 12 events | Is a deleted id free to use again? (It is not: see below.) |
| `KeyRace` | 2 process slots, 2 pids, 2 passphrases, 2 keys drawn, both umasks | Is the key file one, whole, permanent? |
| `KeyAnswers` | the same with 1 passphrase and the wide umask, under fairness | Is every call answered? |
| `KeyUmask` | 1 process, both umasks | Does a reported setup leave a key the next process can open? (Not always.) |
| `OpenRace` | 2 processes, builds with 1 and 2 migrations, both umasks, under fairness | Do racing first users leave a ready store, and is every open answered? |
| `OpenBirth` | 1 process, both umasks | Is the file 0600 from birth? (It is not.) |
| `Cli` | 2 commands at a time, 1 id, 2 keys, 2 passphrases, 2 revisions, ancestors there or missing, some 40 URLs in the environment and in the file | Do key, rows, directories and exit codes agree, whatever is killed or lost? |
| `CliAncestors` | 1 command at a time, ancestors missing | Does an acknowledged mutation survive a power loss? (Not always.) |
| `CliUrls` | 1 command at a time, the same URLs | Is every accepted database URL local to libpq? (Not every one.) |
| `Envelopes` | records `1` and `1 1`, fields `1 2` and `2`, the second the tombstone's, 2 domains, 2 keys, sizes at the limit and one more | Does an envelope open for what it was sealed for and nothing else? |

The bounds. Three events cover the shortest history in which everything happens: created, deleted,
created again, or created, updated, deleted; at the third event the trail is full, so its limit is
reached as well. Two processes cover every race over one row, because a third one sees the table as
the second left it. Two payloads are what a lost update or a wrong tombstone needs to be visible. In
`ContactClock` the last timestamp is reached at once, so that saturation, standing still and running
backwards all happen within three events, and a record may be created under one key, and edited or
deleted under another; a second id would add nothing, since a list fails at the first row it cannot open,
and the theorem `ListsAreBlockedByForeignRows` covers the tables of many. Two pids for two slots let a pid
be reused by the next process while another one sweeps. `KeyAnswers` leaves the narrow umask out: what it
changes is which answer a call gets, and no step waits for an answer. `MaxDraws` bounds how often a key is
generated, hence how often an installation is begun; two let both race, and the second repeat after the
first was killed. The sets of symmetric values are processes, pids, passphrases, payloads and (in
`ContactClock` and `Envelopes`) keys, none of which the specifications tell apart; the liveness runs
`KeyAnswers` and `OpenRace` use no symmetry.

In `OpenRace` two builds are what it takes for a schema to be newer than a program, and two processes
for one to hold the write lock while the other waits or times out; processes come again in the same slot,
as another build, so that sequences of opens are covered as well. In `Cli` two keys allow a setup after
the first key was lost, two revisions a mutation of a record that exists. One id is enough: `RowsOpen` is
about each row by itself. The URLs have up to two parameters and up to two hosts in a list, and one each for every way in which
libpq reads another URL. In `Envelopes`
the ids are chosen to run into each other if nothing said where one ends, and their bytes to look like
lengths; one envelope is enough, since envelopes share nothing but the key.

Deadlock is checked in all runs: an idle process can always be called, and a key can always change.

Each property of each passing run has a mutant in `PROJECT.json`: an operator or action changed as a
plausible bug would (the constraint dropped, `INSERT OR IGNORE`, a fresh trail for each revision, no
sync before the rename, ...), under which TLC finds the property violated.

### What the runs found

`ContactLongId` violates `DeletedIdIsFree`. An event id is `"<record id>:<n>"` and is held to the same
256 bytes as a record id (`audit.rs:311`). A record id of 254 bytes parses, but with `n = 10` its event
id is one byte too long and `build_record` answers `InvalidField`. From then on the record can be
neither updated nor deleted, nor, if it was deleted, created again, although a test calls a deleted id
"free to use again" (`contact.rs:408`). Ids of 255 and 256 bytes can never be created.

`OpenBirth` violates `PrivateFromBirth`. The file is created with 0600 less the umask, and its mode is
stated only by the next call. A process that is killed in between under a umask that takes bits of the
owner leaves a file every later open refuses, although a comment says it is "0600 from birth"
(`store.rs:99`).

`KeyUmask` violates `NextProcessIsLocked`, which is what a setup prints: "next_process=locked"
(`main.rs:53`). The key file too is created with 0600 less the umask, and nothing states its mode
afterwards. Under a umask that takes bits of the owner the setup reports success, and from then on status,
setup and verification answer `Io`: the readers ask for exactly 0600 (`secure_fs.rs:160`).

`CliAncestors` violates `MutationsPersist`, which is `README.md:31`: "Revisions and audit events are
persisted with each mutation". On a fresh account `open_child_dir` makes `.local` and `.local/share` and
syncs neither parent; the file system may undo an ancestor's entry in a power loss, and everything below
goes with it. `LostOnlyWithAnAncestor`, in `Cli`, says that this is the only way.

`CliUrls` violates `OnlyLocalDatabases`, which is `README.md:51`: URLs are "accepted only when the URL uses
localhost, loopback, or a Unix socket"; a test is called `local_url_validation_covers_all_libpq_hosts`
(`config.rs:284`). The hosts that are validated are those the url crate finds (`config.rs:218`), and libpq
may find others in the same text: behind the first of two `@`, after a `#`, or through a service. For all
other URLs `PlainUrlsAreLocal`, in `Cli`, says that the promise holds. Nothing connects in this version.

One more was read off the code and has no run: `read_value` (`main.rs:128`) turns an unreadable name, email or phone (one
that is not UTF-8, say) into the `AppError::Io` that is displayed as "could not read passphrase"
(`lib.rs:23`), after the passphrase has been read and verified. `ReadFieldsFails` has that exit code.

### Fairness

`ContactStore` has none: its properties are safety. `KeyInstall!FairSpec` asks weak fairness of each
process's progress, that is, that a system call issued by a scheduled process returns. It asks nothing
of kills, power losses, failures and new calls. That code has no retry loop and no lock, so this is
all it relies on. `StoreOpen!FairSpec` is the same for an open. Its one wait is for the write lock, and
SQLite ends it after `BUSY_TIMEOUT`, which is part of the progress: with fairness of each process only,
the lock may be gone again whenever the waiting process looks, and it is the timeout that answers it.
`Cli` and `FieldEnvelope` have safety properties only. The bound `MaxDraws` also bounds the temporary files a sweep may meet.

## The theorems

`ContactStore_proof` proves, for every set of ids, processes, payloads and keys, every trail limit and
every clock, under `AuditAssumption` and `ContactAssumption` (which say that the sentinels differ from
what they stand beside, and that lengths and limits are numbers):

* `Invariance`: `IInv` is an invariant.
* From it every invariant of the contact runs (`TypeCorrect`, `RevisionsAreOrdered`,
  `TrailsAreContinued`, `LivesAreLegal`, `TombstonesAreFaithful`, `HistoriesAreReadable`,
  `ConflictsAreTrue`, `AcknowledgementsAreTrue`, `ClockIsHarmless`) and their action properties
  (`WritesAreNotStale`, `ListsAreBlockedByForeignRows`).
* `Refinement`: `ContactStore` implements `ContactRegister`. A call takes effect at its INSERT, on the
  newest revision there is at that moment; it has earned its answer from then on, whether or not the
  process lives to give it (`EarnedOutcome`). Reads take effect at their SELECT.

The properties are not inductive: that revisions are in order depends on what every process holds in
its locals. `IInv` adds just that. `SnapshotInv`: the row a call read is a row of the history still,
perhaps not the newest. `RecordInv`: the record built is a legal `Successor` of that row. `ChainInv`:
the history is a chain of successors, each at the place of its revision. The argument then is that a
successor of an old row has a revision that is taken, so that the constraint refuses it, and an insert
that is not refused has read the newest row (`NoConflictMeansNewest`); and that `build_record` only
makes successors (`BuiltIsSuccessor`), for which the trail's lemmas (`AppendedFacts`,
`AppendKeepsReadable`, `NextTimestampAdvances`) are needed. `IInv` is also checked by TLC, in
`ContactClock`.

`KeyInstall_proof` proves, for every set of process slots, pids and passphrases and however many keys
are drawn, under `KeyAssumption` and `NoFileAssumption` (the sentinels are no pid, no key, no passphrase
and no file): `TypeCorrect`, `KeyFileIsComplete`, `OneKeyIsHeld`, `AcknowledgedKeysSurvive`,
`RefusalsAreTrue`, `SweepsSpareInstallers` (all that the run `KeyRace` checks), and
`Refinement`: `KeyInstall` implements `KeyRegister`, under every umask. The argument is about names. A temporary file is named
after its process and a number that is drawn once (`OwnFileInv`, `NamesWereDrawn`, `KeysDiffer`), so
no two installations share one. A sweep unlinks a name it found no process for; that name was drawn
before, and a later process with the same pid draws a fresh number, so that it can never become an
installation's name (`SweepInv`). What an installation renames it has therefore itself written and synced
(`OnDiskInv`, `OwnFileInv`), and while it syncs the directory the key file is still its own
(`KeyFileInv`). `DrawsAreReserved` says that the bound `MaxDraws` never cuts a setup off in the middle.

`StoreOpen_proof` proves, for every number of processes, every set of builds and any number of migrations
in each, under `OpenAssumption`: `TypeCorrect`, `MigrationsRunInStep`, `OpenedStoresAreReady`,
`VerdictsAreRight`. Whoever is past a look at the files finds them so from then on (`FilesInv`). Whoever
has the write lock began from the committed schema, and what it has done to it is always a whole number of
migrations, or that and the migration whose row it is about to write (`DraftInv`); so a commit goes
forward by whole migrations, and no build finds the row it writes already there (no `Collision`).

`FieldEnvelope_proof` proves, for every set of record ids, field ids, domains and keys, of any lengths,
and every limit on a ciphertext, under `EnvelopeAssumption`: `AadIsInjective`, which no run could, because
it is about all ids and not about some; and from it `EnvelopesOpenWhereSealed`. A component that starts with its length can be told from whatever follows it (`ComponentIsPrefixFree`),
four of them one after the other (`ComponentsNested`) as well, and each classification and purpose has
bytes of its own. The invariant is that a stored envelope carries the associated data of what it was
sealed for (`Sealed`), wherever it was filed since and whatever became of its bytes.

`Cli_proof` proves, for every number of commands, records, keys and revisions and every set of
environments and database URLs, under `CliAssumption` and `NoCallAssumption` (the sentinels are no
keys, key files or requests, and a URL has the parts of one), and from what the two
registers promise: `TypeCorrect`, `RowsAreOpen`, `PlainDatabasesAreLocal`, `ExitsTellOutcomes` and
`LossNeedsAnAncestor`, which is all that the run `Cli` checks.

* A command knows that the key it holds is the installed one and opens (`HoldInv`), that key is durable once
  it was acknowledged or used (`KeyInv`), and a row is only ever under a durable key (`RowInv`). A
  power loss therefore takes a key with rows only by taking the directory, which holds the rows as well;
  and the directory's entry was synced by every command before it came to its key (`PlaceInv`),
  so that only an ancestor's entry can be missing.
* What a command has changed is known from its stage and its own call and setup (`EffectInv`), and
  no other command changes those (`OthersKeep`), so its exit code can tell, unless it is a panic's.
* Whatever libpq picks from an accepted URL was validated (`AcceptedIsLocal`), if it reads the URL as the
  url crate does: no second `@`, no fragment, no service. libpq takes the last
  parameter of a name and the code looks at each; that there is a last one (`MaxIsMember`) is proved by
  well-founded induction on the distance from the end. What libpq picks is `ContactedHosts`, as modelled.

Every `IInv` was checked by TLC before it was proved: `ContactStore`'s in the run `ContactClock`, the
others on the instances of `KeyRace` (96 439 states), `OpenRace` (13 324), `Cli` (790 941) and
`Envelopes` (570 400), by a module like the `MC` module of that run that extends the
proof module instead, with `INVARIANT IInv`.

Every safety property of a passing run is proved. Only model-checked is liveness under fairness
(`CallsAreAnswered`, `OpensAreAnswered`), which is out of the prover's reach; and the five disagreements
with docs, comments or tests are counterexamples of TLC's, for the instances of their runs. What the
proofs do not give: `Cli` takes from `KeyRegister` and `ContactRegister` their actions and not the proofs
that the detailed modules implement them, and adds one rule of its own, that a commit syncs the key
file's directory too.

## Not modelled

* How a URL is spelled: percent-encoding, a `+` for a space, blanks around a host, which the two parsers
  also treat differently; and the environment that libpq itself reads (`PGHOST` and its like).
* The cryptography: a sealed value opens under what it was sealed with and nothing else. The parameters
  of the key derivation are part of a key file that can be read.
* Symbolic links, foreign owners and link counts in the directory traversal of `secure_fs.rs`: nothing
  this program does makes them; the traversal refuses them, and so would every model of it.
* The characters and lengths of ids, field ids, paths and hosts, beyond what the properties tell apart.
* The bits of a umask: only whether it leaves the owner's bits of a mode alone.
* A power loss inside the database: SQLite commits are taken to be durable and atomic.
* Processes in other pid namespaces; files changed by anything but this program.
* Argument parsing (clap), prompts, output format and debug output.

## The plan

Done: `AuditTrail`, `ContactStore`, `ContactRegister` with proofs and refinement, `KeyInstall` and
`KeyRegister`, `StoreOpen`, `Config` and `Cli`, `FieldEnvelope`.

The proofs of `KeyInstall`, `StoreOpen`, `FieldEnvelope` and `Cli` followed.

Left, in this order:

1. What the registers promise, as theorems of the registers themselves: in `KeyRegister` that an
   acknowledged key is never lost nor replaced, in `ContactRegister` that a record's revisions count
   its mutations and that a deletion keeps the fields. Whatever implements a register then has them too.
2. `Config`: that every resolved path is absolute, and that environment, file and default are
   preferred in that order, stated of the operators for all inputs.
3. `AuditTrail`: the trail's lemmas, now stated inside `ContactStore_proof`, as results of their own.
