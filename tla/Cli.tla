-------------------------------- MODULE Cli --------------------------------
(***************************************************************************)
(* The program as its user meets it: one process per command, which loads  *)
(* its configuration, reads a passphrase, sets the key up or authenticates *)
(* it, reads fields, makes one contact operation, prints and exits.        *)
(*                                                                         *)
(* Key and contacts are what keyring.rs and contact.rs promise (KeyRegister*)
(* and ContactRegister, implemented by KeyInstall and ContactStore); a row *)
(* is identified with the key its fields are sealed under.  Both live in   *)
(* one directory, which the commands create, and which a power loss takes  *)
(* away with all that is in it while its own entry, or that of an ancestor *)
(* they created, is not on the disk.                                       *)
(***************************************************************************)
EXTENDS Config

CONSTANTS
    Procs,        \* process slots
    Ids,          \* record ids
    Passphrases,  \* those a user may type
    BaseAtStart,  \* whether the data directory's ancestors exist: "durable" or "absent"
    Environments, \* the path variables of a command: [home, xdg]
    Urls,         \* the database URLs an environment or a file may give
    NoSealed, NoKey, NoInput, NoCall, NoDatabase,
    MaxKeys,      \* bound: how many keys are ever drawn
    MaxRevision   \* bound: the revisions of a record

ASSUME CliAssumption ==
    /\ BaseAtStart \subseteq {"durable", "absent"}
    /\ MaxKeys \in Nat /\ MaxRevision \in Nat
    /\ NoKey \notin 1..MaxKeys
    /\ NoSealed \notin [key : 1..MaxKeys, passphrase : Passphrases, opens : BOOLEAN]
    /\ Urls \ {NoUrl, BadUrl} \subseteq Url

Keys == 1..MaxKeys

Mutations == {"create", "update", "delete"}

ContactCommands == Mutations \cup {"read", "list"}

Commands == ContactCommands \cup {"setup", "verify", "status"}

VARIABLES
    base,      \* the nearest ancestor of the data directory that may be missing
    app,       \* the data directory
    sealed, durable, pending, held, acked,  \* of KeyRegister
    drawn,     \* how many keys were drawn
    contact, call, outcome,                 \* of ContactRegister
    command,   \* what each process was started to do
    stage,     \* how far it is
    database,  \* the configured database, while the process looks at it
    effect,    \* history: what its command has changed
    exit       \* the code its last command ended with

dirVars == <<base, app>>

keyVars == <<sealed, durable, pending, held, acked, drawn>>

contactVars == <<contact, call, outcome>>

procVars == <<command, stage, database, effect, exit>>

vars == <<dirVars, keyVars, contactVars, procVars>>

Register == INSTANCE KeyRegister

\* list is not of one id; its requests carry any.
Requests ==
    [op : {"create", "update", "delete", "get", "list"}, id : Ids, input : Keys]

ASSUME NoCallAssumption == NoCall \notin Requests

Contacts == INSTANCE ContactRegister WITH Payloads <- Keys

Init ==
    /\ base \in BaseAtStart
    /\ app = "absent"
    /\ Register!KeyInit
    /\ drawn = 0
    /\ Contacts!RegInit
    /\ command = [p \in Procs |-> "none"]
    /\ stage = [p \in Procs |-> "idle"]
    /\ database = [p \in Procs |-> NoDatabase]
    /\ effect = [p \in Procs |-> "none"]
    /\ exit = [p \in Procs |-> "none"]

-----------------------------------------------------------------------------

At(p, label) == stage[p] = label

GoTo(p, label) ==
    /\ stage' = [stage EXCEPT ![p] = label]
    /\ UNCHANGED <<command, database, effect, exit>>

\* AppError::exit_code, or 101 after a panic.
ExitCode(code) ==
    IF code = "ok" THEN 0
    ELSE IF code \in {"contact_operation_failed", "key_lifecycle_failed"} THEN 65
    ELSE IF code = "passphrase_input_failed" THEN 74
    ELSE IF code = "config_invalid" THEN 78
    ELSE 101

\* The command is over; a kill leaves no code.
Leave(p, code) ==
    /\ command' = [command EXCEPT ![p] = "none"]
    /\ stage' = [stage EXCEPT ![p] = "idle"]
    /\ database' = [database EXCEPT ![p] = NoDatabase]
    /\ effect' = [effect EXCEPT ![p] = "none"]
    /\ exit' = [exit EXCEPT ![p] = code]

\* What a command says last, an answer or main's error, it says with println or
\* eprintln, which panic if nobody reads.
Finish(p, code) == \E shown \in {code, "panic"} : Leave(p, shown)

\* Before it had a key.
LeaveEarly(p, code) == Finish(p, code) /\ UNCHANGED <<keyVars, contactVars>>

\* Mutant: the key outlives the command.
LeaveHoldingKey(p, code) == Finish(p, code) /\ UNCHANGED <<keyVars, contactVars>>

\* With whatever key it had.
LeaveWithKey(p, code) ==
    Finish(p, code) /\ Register!Drop(p) /\ UNCHANGED <<drawn, contactVars>>

Launch(p) ==
    /\ At(p, "idle")
    /\ \E c \in Commands : command' = [command EXCEPT ![p] = c]
    /\ stage' = [stage EXCEPT ![p] = "paths"]
    /\ exit' = [exit EXCEPT ![p] = "none"]
    /\ UNCHANGED <<dirVars, keyVars, contactVars, database, effect>>

-----------------------------------------------------------------------------
(* config::load.                                                           *)

Misplaced == {env \in Environments : PathsVerdict(env) # "Ok"}

ResolvePaths(p) ==
    /\ At(p, "paths")
    /\ \/ /\ Environments \ Misplaced # {}
          /\ GoTo(p, "ancestors")
          /\ UNCHANGED <<keyVars, contactVars>>
       \/ /\ Misplaced # {}
          /\ LeaveEarly(p, "config_invalid")
    /\ UNCHANGED dirVars

\* ParentDir::open makes the ancestors that are missing, and syncs none.
MakeAncestors(p) ==
    /\ At(p, "ancestors")
    /\ base' = IF base = "absent" THEN "cached" ELSE base
    /\ GoTo(p, "directory")
    /\ UNCHANGED <<app, keyVars, contactVars>>

MakeDirectory(p) ==
    /\ At(p, "directory")
    /\ app' = IF app = "absent" THEN "cached" ELSE app
    /\ GoTo(p, "sync")
    /\ UNCHANGED <<base, keyVars, contactVars>>

\* Mutant: the directory is not synced.
SyncParentSkipped(p) ==
    /\ At(p, "sync")
    /\ GoTo(p, "configure")
    /\ UNCHANGED <<dirVars, keyVars, contactVars>>

\* parent.sync: the entry of the directory itself, also where another made it.
SyncParent(p) ==
    /\ At(p, "sync")
    /\ app' = "durable"
    /\ GoTo(p, "configure")
    /\ UNCHANGED <<base, keyVars, contactVars>>

\* A directory that is not private or cannot be made, of this base or another.
DirectoryFails(p) ==
    /\ stage[p] \in {"ancestors", "directory", "sync"}
    /\ LeaveEarly(p, "config_invalid")
    /\ UNCHANGED dirVars

Configurations == [file : Files, env : Urls, toml : Urls]

Refused == {c \in Configurations : ResolveVerdict(c) # "Ok"}

\* The URLs that get past it.
Accepted == {UrlOf(c) : c \in Configurations \ Refused}

\* The file is read and parsed, the URL chosen and validated.
Configure(p) ==
    /\ At(p, "configure")
    /\ \E url \in Accepted : database' = [database EXCEPT ![p] = url]
    /\ stage' = [stage EXCEPT ![p] = IF command[p] = "status" THEN "status" ELSE "passphrase"]
    /\ UNCHANGED <<command, effect, exit, dirVars, keyVars, contactVars>>

ConfigureFails(p) ==
    /\ At(p, "configure")
    /\ Refused # {}
    /\ LeaveEarly(p, "config_invalid")
    /\ UNCHANGED dirVars

-----------------------------------------------------------------------------
(* The key.                                                                *)

ReadPassphrase(p) ==
    /\ At(p, "passphrase")
    /\ stage' = [stage EXCEPT ![p] = IF command[p] = "setup" THEN "setup" ELSE "verify"]
    /\ database' = [database EXCEPT ![p] = NoDatabase]
    /\ UNCHANGED <<command, effect, exit, dirVars, keyVars, contactVars>>

ReadPassphraseFails(p) ==
    /\ At(p, "passphrase")
    /\ LeaveEarly(p, "passphrase_input_failed")
    /\ UNCHANGED dirVars

\* KeyLifecycle::setup: a fresh key takes effect when its file is published, which
\* under a narrow umask no later command opens.
SetUp(p) ==
    /\ At(p, "setup")
    /\ ~ pending[p]
    /\ drawn < MaxKeys
    /\ \E passphrase \in Passphrases, opens \in BOOLEAN :
         Register!Publish(p, drawn + 1, passphrase, opens)
    /\ drawn' = drawn + 1
    /\ effect' = [effect EXCEPT ![p] = "key"]
    /\ UNCHANGED <<command, stage, database, exit, dirVars, contactVars>>

FinishSetUp(p) ==
    /\ At(p, "setup")
    /\ Register!Acknowledge(p)
    /\ GoTo(p, "print")
    /\ UNCHANGED <<drawn, dirVars, contactVars>>

\* There is a key, the passphrases will not do, or a file cannot be written or,
\* after it was published, synced.
SetUpFails(p) ==
    /\ At(p, "setup")
    /\ LeaveWithKey(p, "key_lifecycle_failed")
    /\ UNCHANGED dirVars

AfterVerify(p) ==
    IF command[p] = "verify" THEN "print"
    ELSE IF command[p] \in {"create", "update"} THEN "fields"
    ELSE "call"

Verify(p) ==
    /\ At(p, "verify")
    /\ \E passphrase \in Passphrases : Register!Authenticate(p, passphrase)
    /\ GoTo(p, AfterVerify(p))
    /\ UNCHANGED <<drawn, dirVars, contactVars>>

\* verify_passphrase, and for the status the sweep and the look.
KeyFails(p) ==
    /\ stage[p] \in {"verify", "status"}
    /\ LeaveEarly(p, "key_lifecycle_failed")
    /\ UNCHANGED dirVars

\* No key, or one that opens, is reported.
Status(p) ==
    /\ At(p, "status")
    /\ sealed # NoSealed => sealed.opens
    /\ stage' = [stage EXCEPT ![p] = "print"]
    /\ database' = [database EXCEPT ![p] = NoDatabase]
    /\ UNCHANGED <<command, effect, exit, dirVars, keyVars, contactVars>>

-----------------------------------------------------------------------------
(* The contact operation.                                                  *)

\* Three lines; the end of the input is an empty line.
ReadFields(p) ==
    /\ At(p, "fields")
    /\ GoTo(p, "call")
    /\ UNCHANGED <<dirVars, keyVars, contactVars>>

\* The input fails, or is not UTF-8: an io::Error like that of a passphrase.  Or
\* eprint panics at the prompt.
ReadFieldsFails(p) ==
    /\ At(p, "fields")
    /\ LeaveWithKey(p, "passphrase_input_failed")
    /\ UNCHANGED dirVars

Operation(p) == IF command[p] = "read" THEN "get" ELSE command[p]

Invoke(p) ==
    /\ At(p, "call")
    /\ Contacts!Begin(p)
    /\ call'[p].op = Operation(p)
    /\ call'[p].input = held[p]
    /\ GoTo(p, "answer")
    /\ UNCHANGED <<dirVars, keyVars>>

\* Mutant: commits are not synced.
MutateUnsynced(p) ==
    /\ At(p, "answer")
    /\ contact[call[p].id].revision < MaxRevision
    /\ Contacts!RegCreate(p) \/ Contacts!RegUpdate(p) \/ Contacts!RegDelete(p)
    /\ effect' = [effect EXCEPT ![p] = "contact"]
    /\ UNCHANGED <<command, stage, database, exit, dirVars, keyVars>>

\* SQLite syncs its write-ahead log and, with the log's entry, every entry of
\* the directory before the commit returns, that of the key file among them.
Mutate(p) ==
    /\ At(p, "answer")
    /\ contact[call[p].id].revision < MaxRevision
    /\ Contacts!RegCreate(p) \/ Contacts!RegUpdate(p) \/ Contacts!RegDelete(p)
    /\ durable' = (sealed # NoSealed)
    /\ effect' = [effect EXCEPT ![p] = "contact"]
    /\ UNCHANGED <<command, stage, database, exit, dirVars, sealed, pending, held, acked, drawn>>

\* Reads, refusals and failures, one of which stands for all: main tells none
\* from another.
Observe(p) ==
    /\ At(p, "answer")
    /\ \/ Contacts!RegGet(p)
       \/ Contacts!RegList(p)
       \/ Contacts!RegRefuse(p)
       \/ Contacts!RegFail(p) /\ outcome'[p].status = "WriteFailed"
    /\ UNCHANGED <<procVars, dirVars, keyVars>>

Return(p) ==
    /\ At(p, "answer")
    /\ outcome[p] # Contacts!Unanswered
    /\ Contacts!Forget(p)
    /\ IF outcome[p].status = "Ok"
       THEN GoTo(p, "print") /\ UNCHANGED keyVars
       ELSE Finish(p, "contact_operation_failed") /\ Register!Drop(p) /\ UNCHANGED drawn
    /\ UNCHANGED dirVars

-----------------------------------------------------------------------------

\* Mutant: the lines are written with writeln, whose error is an AppError::Io.
PrintOrFail(p) ==
    /\ At(p, "print")
    /\ \E code \in {"ok", "passphrase_input_failed"} : LeaveWithKey(p, code)
    /\ UNCHANGED dirVars

PrintAndExit(p) ==
    /\ At(p, "print")
    /\ LeaveWithKey(p, "ok")
    /\ UNCHANGED dirVars

Kill(p) ==
    /\ ~ At(p, "idle")
    /\ Leave(p, "none")
    /\ Register!Drop(p)
    /\ IF call[p] = NoCall THEN UNCHANGED contactVars ELSE Contacts!Forget(p)
    /\ UNCHANGED <<drawn, dirVars>>

\* What the disk holds after a power loss: all that was synced below a
\* directory whose entry, and whose ancestors' entries, are there.
PowerLoss ==
    /\ \/ /\ base # "absent" /\ app # "absent"
          /\ base' = "durable"
          /\ app' = "durable"
          /\ Register!PowerLoss
          /\ UNCHANGED contact
       \/ /\ base # "absent"
          /\ base' \in IF base = "cached" THEN {"absent", "durable"} ELSE {"durable"}
          /\ base' = "durable" => app # "durable"
          /\ app' = "absent"
          /\ sealed' = NoSealed
          /\ durable' = FALSE
          /\ pending' = [p \in Procs |-> FALSE]
          /\ held' = [p \in Procs |-> NoKey]
          /\ UNCHANGED acked
          /\ contact' = [id \in Ids |-> Contacts!Unborn]
    /\ call' = [p \in Procs |-> NoCall]
    /\ outcome' = [p \in Procs |-> Contacts!Unanswered]
    /\ command' = [p \in Procs |-> "none"]
    /\ stage' = [p \in Procs |-> "idle"]
    /\ database' = [p \in Procs |-> NoDatabase]
    /\ effect' = [p \in Procs |-> "none"]
    /\ exit' = [p \in Procs |-> "none"]
    /\ UNCHANGED drawn

Step(p) ==
    \/ Launch(p)  \/ ResolvePaths(p) \/ MakeAncestors(p) \/ MakeDirectory(p)
    \/ SyncParent(p) \/ DirectoryFails(p) \/ Configure(p) \/ ConfigureFails(p)
    \/ ReadPassphrase(p) \/ ReadPassphraseFails(p)
    \/ SetUp(p)   \/ FinishSetUp(p) \/ SetUpFails(p)
    \/ Verify(p)  \/ KeyFails(p)    \/ Status(p)
    \/ ReadFields(p) \/ ReadFieldsFails(p)
    \/ Invoke(p)  \/ Mutate(p)      \/ Observe(p)   \/ Return(p)
    \/ PrintAndExit(p) \/ Kill(p)

Next == (\E p \in Procs : Step(p)) \/ PowerLoss

Spec == Init /\ [][Next]_vars

-----------------------------------------------------------------------------
(* Properties.                                                             *)

Stages == {"idle", "paths", "ancestors", "directory", "sync", "configure", "status",
           "passphrase", "setup", "verify", "fields", "call", "answer", "print"}

Codes == {"none", "ok", "contact_operation_failed", "config_invalid", "key_lifecycle_failed",
          "passphrase_input_failed", "panic"}

\* Every variable has its type, a command holds a key and a call only at the
\* stages that need them, and there are files only in a directory.
TypeOK ==
    /\ base \in {"absent", "cached", "durable"}
    /\ app \in {"absent", "cached", "durable"}
    /\ sealed \in [key : Keys, passphrase : Passphrases, opens : BOOLEAN] \cup {NoSealed}
    /\ durable \in BOOLEAN
    /\ pending \in [Procs -> BOOLEAN]
    /\ held \in [Procs -> Keys \cup {NoKey}]
    /\ acked \subseteq 1..drawn
    /\ drawn \in 0..MaxKeys
    /\ \A id \in Ids : contact[id].revision \in 0..MaxRevision
    /\ command \in [Procs -> Commands \cup {"none"}]
    /\ stage \in [Procs -> Stages]
    /\ effect \in [Procs -> {"none", "key", "contact"}]
    /\ exit \in [Procs -> Codes]
    /\ \A p \in Procs :
         /\ held[p] # NoKey => stage[p] \in {"fields", "call", "answer", "print"}
         /\ call[p] # NoCall <=> stage[p] = "answer"
    /\ sealed # NoSealed => app # "absent"
    /\ app # "absent" => base # "absent"

\* Whatever a user does, and wherever processes are killed and the power goes:
\* every row can be opened, for it was sealed under the key that is installed, in
\* a file that others can read.  That key may have been published by a setup that
\* never reported success, and used before it was safe.
RowsOpen ==
    \A id \in Ids : contact[id].revision > 0 =>
        sealed # NoSealed /\ sealed.opens /\ contact[id].payload = sealed.key

\* What the exit code says of the files: zero, that the command did what it was
\* for; 74 and 78, that it changed nothing; 65, that it changed no contact, though
\* a setup may have installed its key.  101 says nothing: a panic may hide an
\* answer or any error.
ExitTellsOutcome ==
    [][\A p \in Procs : exit'[p] # exit[p] /\ exit'[p] # "none" =>
         LET code == ExitCode(exit'[p])
             purpose == IF command[p] = "setup" THEN "key"
                        ELSE IF command[p] \in Mutations THEN "contact"
                        ELSE "none"
         IN  /\ code = 0 => effect[p] = purpose
             /\ code = 0 /\ command[p] = "setup" => durable
             /\ code \in {74, 78} => effect[p] = "none"
             /\ code = 65 => effect[p] # "contact" /\ (effect[p] = "key" => command[p] = "setup")]_vars

Acknowledged ==
    [keys |-> {key \in acked : sealed # NoSealed /\ sealed.key = key},
     revisions |-> [id \in Ids |-> contact[id].revision]]

\* A key whose setup reported success, and a committed revision, outlive every
\* kill and every power loss but one that takes an ancestor of the directory.
LostOnlyWithAnAncestor ==
    [][~ (base = "cached" /\ base' = "absent") =>
         /\ Acknowledged.keys \subseteq Acknowledged'.keys
         /\ \A id \in Ids : Acknowledged.revisions[id] <= Acknowledged'.revisions[id]]_vars

OnlyLocal(url) == ContactedHosts(url) \subseteq {"localhost", "loopback", "socket"}

\* A command gets past its configuration with a URL that config.rs and libpq read
\* alike only if libpq would talk to this machine alone, whichever of environment,
\* file and default gave it.
PlainUrlsAreLocal ==
    \A p \in Procs :
        database[p] # NoDatabase /\ SameReading(database[p]) => OnlyLocal(database[p])

\* "accepted only when the URL uses localhost, loopback, or a Unix socket"
\* (README.md:51): so with every URL.
OnlyLocalDatabases ==
    \A p \in Procs : database[p] # NoDatabase => OnlyLocal(database[p])

\* "Revisions and audit events are persisted with each mutation" (README.md:31).
MutationsPersist ==
    [][\A id \in Ids : contact[id].revision <= contact'[id].revision]_vars
=============================================================================
