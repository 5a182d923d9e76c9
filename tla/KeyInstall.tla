----------------------------- MODULE KeyInstall -----------------------------
(***************************************************************************)
(* The key file: KeyLifecycle of keyring.rs over the private-file layer of *)
(* secure_fs.rs.  Any number of processes set the key up, verify a         *)
(* passphrase against it, lock and ask for the status, in one directory.   *)
(*                                                                         *)
(* A setup writes a temporary file named after its pid and a random        *)
(* number, syncs it, renames it to the key file without replacing one, and *)
(* syncs the directory.  Looking for the key file, and every installation, *)
(* first sweeps the directory for temporary files of dead processes.       *)
(* Processes are killed anywhere, pids are reused, and a power loss takes  *)
(* away whatever was not synced.  A file is created with mode 0600 less    *)
(* the umask, and its mode is not set again: under a umask that denies its *)
(* owner the file, the readers of the key file refuse it.                  *)
(*                                                                         *)
(* Abstracted: the sealed key is opened by the passphrase it was sealed    *)
(* with and by no other; a random number or key is never drawn twice.      *)
(***************************************************************************)
EXTENDS Naturals, FiniteSets

CONSTANTS
    Procs,        \* process slots
    Pids,         \* process ids, reused after a process has gone
    Passphrases,  \* those validate_new_passphrase takes
    Weak,         \* one of fewer than MIN_PASSPHRASE_CHARS characters
    TooLong,      \* one of more than MAX_PASSPHRASE_BYTES bytes
    Umasks,       \* "wide" leaves the owner's bits of a mode alone, "narrow" does not
    NoPid,        \* a slot in which no process runs
    NoKey,        \* the None of KeyLifecycle.key
    NoFile,       \* a directory without a key file
    NoName,       \* a sweep that has condemned nothing
    MaxDraws      \* bound: how many keys are ever generated

ASSUME KeyAssumption ==
    /\ NoPid \notin Pids
    /\ Weak \notin Passphrases
    /\ TooLong \notin Passphrases
    /\ Weak # TooLong
    /\ Umasks \subseteq {"wide", "narrow"}
    /\ MaxDraws \in Nat
    /\ NoKey \notin Nat

Draws == 1..MaxDraws

Inputs == Passphrases \cup {Weak, TooLong}

TempName == [pid : Pids, nonce : Draws]

\* What of a file's bytes is there: none yet, all of them, all of them on the
\* disk, or what a power loss left of them.
Contents == {"empty", "written", "synced", "torn"}

\* 0600, or less than that.
Modes == {"private", "narrow"}

File == [name : TempName, key : Draws, passphrase : Passphrases,
         mode : Modes, content : Contents]

\* None is neither a file nor what is sealed in one.
ASSUME NoFileAssumption ==
    NoFile \notin File \cup [key : Draws, passphrase : Passphrases, opens : BOOLEAN]

VARIABLES
    temps,      \* the temporary files in the directory
    installed,  \* the key file, or NoFile
    durable,    \* the key file's directory entry is on the disk
    drawn,      \* how many keys were generated so far
    pid,        \* the process running in each slot
    pc,         \* where its current call is
    purpose,    \* the call: setup, status, or the installation within setup
    request,    \* the passphrase and confirmation of its setup
    mine,       \* the temporary file its installation works on
    todo,       \* the names its sweep still has to look at
    victim,     \* the name its sweep found to be an orphan's
    held,       \* the key the process has authenticated
    answer,     \* what its last call answered
    acked       \* history: the keys whose setup reported success

disk == <<temps, installed, durable>>

vars == <<temps, installed, durable, drawn, pid, pc, purpose, request, mine,
          todo, victim, held, answer, acked>>

NoRequest == [passphrase |-> TooLong, confirmation |-> TooLong]

Alive(p) == pid[p] # NoPid

Running == {pid[p] : p \in Procs} \ {NoPid}

Init ==
    /\ temps = {}
    /\ installed = NoFile
    /\ durable = FALSE
    /\ drawn = 0
    /\ pid = [p \in Procs |-> NoPid]
    /\ pc = [p \in Procs |-> "idle"]
    /\ purpose = [p \in Procs |-> "none"]
    /\ request = [p \in Procs |-> NoRequest]
    /\ mine = [p \in Procs |-> NoFile]
    /\ todo = [p \in Procs |-> {}]
    /\ victim = [p \in Procs |-> NoName]
    /\ held = [p \in Procs |-> NoKey]
    /\ answer = [p \in Procs |-> "none"]
    /\ acked = {}

-----------------------------------------------------------------------------

At(p, label) == Alive(p) /\ pc[p] = label

GoTo(p, label) == pc' = [pc EXCEPT ![p] = label]

\* The call is over; the variables of its stack frame are gone.
Finish(p, status) ==
    /\ GoTo(p, "idle")
    /\ answer' = [answer EXCEPT ![p] = status]
    /\ purpose' = [purpose EXCEPT ![p] = "none"]
    /\ request' = [request EXCEPT ![p] = NoRequest]
    /\ mine' = [mine EXCEPT ![p] = NoFile]
    /\ todo' = [todo EXCEPT ![p] = {}]
    /\ victim' = [victim EXCEPT ![p] = NoName]

\* validate_new_passphrase; "none" takes it.
PassphraseRefusal(passphrase, confirmation) ==
    IF TooLong \in {passphrase, confirmation} THEN "InvalidPassphrase"
    ELSE IF passphrase = Weak THEN "WeakPassphrase"
    ELSE IF passphrase # confirmation THEN "PassphraseMismatch"
    ELSE "none"

-----------------------------------------------------------------------------
(* Calls begin.                                                            *)

BeginSetup(p) ==
    /\ At(p, "idle")
    /\ drawn + Cardinality({q \in Procs : purpose[q] = "setup"}) < MaxDraws
    /\ \E passphrase \in Inputs, confirmation \in Inputs :
         request' = [request EXCEPT ![p] =
             [passphrase |-> passphrase, confirmation |-> confirmation]]
    /\ purpose' = [purpose EXCEPT ![p] = "setup"]
    /\ GoTo(p, "listing")
    /\ answer' = [answer EXCEPT ![p] = "none"]
    /\ UNCHANGED <<disk, drawn, pid, mine, todo, victim, held, acked>>

\* An authenticated process answers without looking at the directory.
Status(p) ==
    /\ At(p, "idle")
    /\ IF held[p] # NoKey
       THEN Finish(p, "Authenticated")
       ELSE /\ purpose' = [purpose EXCEPT ![p] = "status"]
            /\ GoTo(p, "listing")
            /\ answer' = [answer EXCEPT ![p] = "none"]
            /\ UNCHANGED <<request, mine, todo, victim>>
    /\ UNCHANGED <<disk, drawn, pid, held, acked>>

\* A file that parses and holds a sealed key.
Whole(file) == file.content \notin {"empty", "torn"}

\* What open_private_file lets its callers read: the mode is 0600.
Private(file) == file.mode = "private"

\* verify_passphrase opens the key file once and keeps the key on success; a
\* failure leaves an earlier authentication as it was.
Verify(p) ==
    /\ At(p, "idle")
    /\ \E passphrase \in Inputs :
         LET status ==
               IF passphrase = TooLong THEN "InvalidPassphrase"
               ELSE IF installed = NoFile THEN "Io"
               ELSE IF ~ Private(installed) THEN "Io"
               ELSE IF ~ Whole(installed) THEN "InvalidFile"
               ELSE IF installed.passphrase # passphrase THEN "InvalidPassphrase"
               ELSE "Ok"
         IN  /\ Finish(p, status)
             /\ held' = IF status = "Ok" THEN [held EXCEPT ![p] = installed.key] ELSE held
    /\ UNCHANGED <<disk, drawn, pid, acked>>

\* The directory or the file cannot be opened or read.
VerifyFails(p) ==
    /\ At(p, "idle")
    /\ Finish(p, "Io")
    /\ UNCHANGED <<disk, drawn, pid, held, acked>>

Lock(p) ==
    /\ At(p, "idle")
    /\ held[p] # NoKey
    /\ held' = [held EXCEPT ![p] = NoKey]
    /\ UNCHANGED <<disk, drawn, pid, pc, purpose, request, mine, todo, victim, answer, acked>>

-----------------------------------------------------------------------------
(* recover_orphan_temps: read the directory, and unlink what belongs to no *)
(* process.  A name that appears while the directory is read may or may    *)
(* not be returned; /proc is consulted after the name was, and the unlink  *)
(* comes after that.                                                       *)

ListTemps(p) ==
    /\ At(p, "listing")
    /\ GoTo(p, "sweeping")
    /\ todo' = [todo EXCEPT ![p] = {file.name : file \in temps}]
    /\ UNCHANGED <<disk, drawn, pid, purpose, request, mine, victim, held, answer, acked>>

SkipLive(p) ==
    /\ At(p, "sweeping")
    /\ \E name \in todo[p] :
         /\ name.pid \in Running
         /\ todo' = [todo EXCEPT ![p] = @ \ {name}]
    /\ UNCHANGED <<disk, drawn, pid, pc, purpose, request, mine, victim, held, answer, acked>>

\* Mutant: whose temporary file it is, is not asked.
CondemnAny(p) ==
    /\ At(p, "sweeping")
    /\ \E name \in todo[p] \cup {file.name : file \in temps} :
         /\ victim' = [victim EXCEPT ![p] = name]
         /\ todo' = [todo EXCEPT ![p] = @ \ {name}]
    /\ GoTo(p, "unlinking")
    /\ UNCHANGED <<disk, drawn, pid, purpose, request, mine, held, answer, acked>>

CondemnOrphan(p) ==
    /\ At(p, "sweeping")
    /\ \E name \in todo[p] \cup {file.name : file \in temps} :
         /\ name.pid \notin Running
         /\ victim' = [victim EXCEPT ![p] = name]
         /\ todo' = [todo EXCEPT ![p] = @ \ {name}]
    /\ GoTo(p, "unlinking")
    /\ UNCHANGED <<disk, drawn, pid, purpose, request, mine, held, answer, acked>>

\* Mutant: waits for the file to be there, where NOENT was fine.
UnlinkOrphanPresent(p) ==
    /\ At(p, "unlinking")
    /\ \E file \in temps : file.name = victim[p]
    /\ temps' = {file \in temps : file.name # victim[p]}
    /\ victim' = [victim EXCEPT ![p] = NoName]
    /\ GoTo(p, "sweeping")
    /\ UNCHANGED <<installed, durable, drawn, pid, purpose, request, mine, todo, held, answer, acked>>

\* That another sweep was faster (NOENT) is no error.
UnlinkOrphan(p) ==
    /\ At(p, "unlinking")
    /\ temps' = {file \in temps : file.name # victim[p]}
    /\ victim' = [victim EXCEPT ![p] = NoName]
    /\ GoTo(p, "sweeping")
    /\ UNCHANGED <<installed, durable, drawn, pid, purpose, request, mine, todo, held, answer, acked>>

\* The directory, /proc or the unlink fails.
SweepFails(p) ==
    /\ At(p, "sweeping") \/ At(p, "unlinking")
    /\ Finish(p, "Io")
    /\ UNCHANGED <<disk, drawn, pid, held, acked>>

Swept(p, why) == At(p, "sweeping") /\ todo[p] = {} /\ purpose[p] = why

-----------------------------------------------------------------------------
(* After the sweep.                                                        *)

\* regular_file_exists opens the file to look at it.
AnswerStatus(p) ==
    /\ Swept(p, "status")
    /\ Finish(p, IF installed = NoFile THEN "NotInitialized"
                 ELSE IF Private(installed) THEN "Locked"
                 ELSE "Io")
    /\ UNCHANGED <<disk, drawn, pid, held, acked>>

RefuseSetup(p) ==
    LET refusal == PassphraseRefusal(request[p].passphrase, request[p].confirmation)
    IN  /\ Swept(p, "setup")
        /\ IF installed = NoFile
           THEN refusal # "none" /\ Finish(p, refusal)
           ELSE Finish(p, IF Private(installed) THEN "AlreadyInitialized" ELSE "Io")
        /\ UNCHANGED <<disk, drawn, pid, held, acked>>

\* Mutant: the pid alone.
TempNameByPid(p, draw) == [pid |-> pid[p], nonce |-> 1]

\* The temporary file's name: the process and a random number.
TempNameOf(p, draw) == [pid |-> pid[p], nonce |-> draw]

\* encrypt_key: the key under the passphrase, in a file not yet created.
SealedKey(p, draw) ==
    [name |-> TempNameOf(p, draw), key |-> draw, passphrase |-> request[p].passphrase,
     mode |-> "private", content |-> "empty"]

\* Mutant: any passphrase will do.
DrawKeyUnchecked(p) ==
    /\ Swept(p, "setup")
    /\ installed = NoFile
    /\ drawn' = drawn + 1
    /\ mine' = [mine EXCEPT ![p] = SealedKey(p, drawn + 1)]
    /\ purpose' = [purpose EXCEPT ![p] = "install"]
    /\ GoTo(p, "listing")
    /\ UNCHANGED <<disk, pid, request, todo, victim, held, answer, acked>>

\* A fresh key is drawn and sealed; the installation sweeps again.
DrawKey(p) ==
    /\ Swept(p, "setup")
    /\ installed = NoFile
    /\ PassphraseRefusal(request[p].passphrase, request[p].confirmation) = "none"
    /\ drawn' = drawn + 1
    /\ mine' = [mine EXCEPT ![p] = SealedKey(p, drawn + 1)]
    /\ purpose' = [purpose EXCEPT ![p] = "install"]
    /\ GoTo(p, "listing")
    /\ UNCHANGED <<disk, pid, request, todo, victim, held, answer, acked>>

-----------------------------------------------------------------------------
(* install_new_file.                                                       *)

Without(p) == {file \in temps : file.name # mine[p].name}

OnDisk(p) == \E file \in temps : file.name = mine[p].name

\* The file's next content, both as the process and as the directory has it.
Becomes(p, content) ==
    LET next == [mine[p] EXCEPT !.content = content]
    IN  /\ mine' = [mine EXCEPT ![p] = next]
        /\ temps' = IF OnDisk(p) THEN Without(p) \cup {next} ELSE temps

\* A failure before publication unlinks the temporary file; whether that worked
\* is not asked.
FailInstall(p, status) ==
    /\ temps' \in {Without(p), temps}
    /\ Finish(p, status)

\* The mode that is asked for, as the umask of the process leaves it.
Created(umask) == IF umask = "wide" THEN "private" ELSE "narrow"

\* O_EXCL: a file of that name is an AlreadyExists like any other.
CreateTemp(p) ==
    /\ Swept(p, "install")
    /\ IF OnDisk(p)
       THEN FailInstall(p, "AlreadyInitialized")
       ELSE /\ \E umask \in Umasks :
                 mine' = [mine EXCEPT ![p] = [@ EXCEPT !.mode = Created(umask)]]
            /\ temps' = temps \cup {mine'[p]}
            /\ GoTo(p, "write")
            /\ UNCHANGED <<answer, purpose, request, todo, victim>>
    /\ UNCHANGED <<installed, durable, drawn, pid, held, acked>>

WriteTemp(p) ==
    /\ At(p, "write")
    /\ Becomes(p, "written")
    /\ GoTo(p, "sync")
    /\ UNCHANGED <<installed, durable, drawn, pid, purpose, request, todo, victim, held, answer, acked>>

\* Mutant: the file is not synced before it is published.
SyncTempSkipped(p) ==
    /\ At(p, "sync")
    /\ GoTo(p, "publish")
    /\ UNCHANGED <<disk, drawn, pid, purpose, request, mine, todo, victim, held, answer, acked>>

SyncTemp(p) ==
    /\ At(p, "sync")
    /\ Becomes(p, "synced")
    /\ GoTo(p, "publish")
    /\ UNCHANGED <<installed, durable, drawn, pid, purpose, request, todo, victim, held, answer, acked>>

\* Mutant: a rename that replaces.
PublishReplacing(p) ==
    /\ At(p, "publish")
    /\ OnDisk(p)
    /\ temps' = Without(p)
    /\ installed' = mine[p]
    /\ durable' = FALSE
    /\ GoTo(p, "syncdir")
    /\ UNCHANGED <<drawn, pid, purpose, request, mine, todo, victim, held, answer, acked>>

\* renameat2 with NOREPLACE.
Publish(p) ==
    /\ At(p, "publish")
    /\ IF installed # NoFile THEN
          /\ FailInstall(p, "AlreadyInitialized")
          /\ UNCHANGED <<installed, durable>>
       ELSE IF ~ OnDisk(p) THEN
          /\ FailInstall(p, "Io")
          /\ UNCHANGED <<installed, durable>>
       ELSE
          /\ temps' = Without(p)
          /\ installed' = mine[p]
          /\ durable' = FALSE
          /\ GoTo(p, "syncdir")
          /\ UNCHANGED <<answer, purpose, request, mine, todo, victim>>
    /\ UNCHANGED <<drawn, pid, held, acked>>

InstallFails(p) ==
    /\ Swept(p, "install") \/ At(p, "write") \/ At(p, "sync") \/ At(p, "publish")
    /\ FailInstall(p, "Io")
    /\ UNCHANGED <<installed, durable, drawn, pid, held, acked>>

Succeed(p) ==
    /\ Finish(p, "Ok")
    /\ held' = [held EXCEPT ![p] = mine[p].key]
    /\ acked' = acked \cup {mine[p].key}

\* Mutant: success without syncing the directory.
SyncDirSkipped(p) ==
    /\ At(p, "syncdir")
    /\ Succeed(p)
    /\ UNCHANGED <<disk, drawn, pid>>

SyncDir(p) ==
    /\ At(p, "syncdir")
    /\ durable' = TRUE
    /\ Succeed(p)
    /\ UNCHANGED <<temps, installed, drawn, pid>>

\* The key file is published, yet the setup fails and holds no key.
SyncDirFails(p) ==
    /\ At(p, "syncdir")
    /\ Finish(p, "Io")
    /\ UNCHANGED <<disk, drawn, pid, held, acked>>

-----------------------------------------------------------------------------
(* Processes and the machine.                                              *)

Start(p) ==
    /\ ~ Alive(p)
    /\ \E id \in Pids \ Running : pid' = [pid EXCEPT ![p] = id]
    /\ UNCHANGED <<disk, drawn, pc, purpose, request, mine, todo, victim, held, answer, acked>>

\* A process exits or is killed, wherever its call is.
Die(p) ==
    /\ Alive(p)
    /\ pid' = [pid EXCEPT ![p] = NoPid]
    /\ held' = [held EXCEPT ![p] = NoKey]
    /\ Finish(p, "none")
    /\ UNCHANGED <<disk, drawn, acked>>

AfterPowerLoss(file) ==
    IF file.content = "synced" THEN {file}
    ELSE {file, [file EXCEPT !.content = "torn"]}

\* Every process dies.  A directory entry that was not synced may be undone: a
\* temporary file vanishes, a published one is a temporary file again or gone.
PowerLoss ==
    /\ \E p \in Procs : Alive(p)
    /\ \E kept \in SUBSET temps :
         \/ /\ installed # NoFile
            /\ installed' \in AfterPowerLoss(installed)
            /\ temps' = kept
         \/ /\ installed = NoFile
            /\ UNCHANGED installed
            /\ temps' = kept
         \/ /\ installed # NoFile
            /\ ~ durable
            /\ installed' = NoFile
            /\ temps' \in {kept, kept \cup {installed}}
    /\ durable' = (installed' # NoFile)
    /\ pid' = [p \in Procs |-> NoPid]
    /\ pc' = [p \in Procs |-> "idle"]
    /\ purpose' = [p \in Procs |-> "none"]
    /\ request' = [p \in Procs |-> NoRequest]
    /\ mine' = [p \in Procs |-> NoFile]
    /\ todo' = [p \in Procs |-> {}]
    /\ victim' = [p \in Procs |-> NoName]
    /\ held' = [p \in Procs |-> NoKey]
    /\ answer' = [p \in Procs |-> "none"]
    /\ UNCHANGED <<drawn, acked>>

\* What a call does by itself once it has begun, while nothing fails.
Progress(p) ==
    \/ ListTemps(p) \/ SkipLive(p) \/ CondemnOrphan(p) \/ UnlinkOrphan(p)
    \/ AnswerStatus(p) \/ RefuseSetup(p) \/ DrawKey(p)
    \/ CreateTemp(p) \/ WriteTemp(p) \/ SyncTemp(p) \/ Publish(p) \/ SyncDir(p)

Faults(p) == VerifyFails(p) \/ SweepFails(p) \/ InstallFails(p) \/ SyncDirFails(p)

Calls(p) == BeginSetup(p) \/ Status(p) \/ Verify(p) \/ Lock(p)

Next ==
    \/ \E p \in Procs : Start(p) \/ Die(p) \/ Calls(p) \/ Progress(p) \/ Faults(p)
    \/ PowerLoss

Spec == Init /\ [][Next]_vars

\* The system calls of a process that is scheduled return.
FairSpec == Spec /\ \A p \in Procs : WF_vars(Progress(p))

-----------------------------------------------------------------------------
(* Properties.                                                             *)

Labels == {"idle", "listing", "sweeping", "unlinking",
           "write", "sync", "publish", "syncdir"}

Answers == {"none", "Ok", "Io", "AlreadyInitialized", "InvalidFile", "InvalidPassphrase",
            "WeakPassphrase", "PassphraseMismatch",
            "Authenticated", "Locked", "NotInitialized"}

\* Every variable has the shape the code gives it; in particular a key is only
\* ever sealed under a passphrase that validation takes.
TypeOK ==
    /\ temps \subseteq File
    /\ installed \in File \cup {NoFile}
    /\ durable \in BOOLEAN
    /\ drawn \in 0..MaxDraws
    /\ pid \in [Procs -> Pids \cup {NoPid}]
    /\ pc \in [Procs -> Labels]
    /\ purpose \in [Procs -> {"none", "setup", "status", "install"}]
    /\ request \in [Procs -> [passphrase : Inputs, confirmation : Inputs]]
    /\ mine \in [Procs -> File \cup {NoFile}]
    /\ todo \in [Procs -> SUBSET TempName]
    /\ victim \in [Procs -> TempName \cup {NoName}]
    /\ held \in [Procs -> Draws \cup {NoKey}]
    /\ answer \in [Procs -> Answers]
    /\ acked \subseteq Draws

\* Whoever reads the key file reads all of it: it is published only once its
\* bytes are on the disk, so neither a kill nor a power loss leaves it torn.
KeyFileComplete ==
    installed # NoFile => Whole(installed)

\* However many setups race, all authenticated processes hold one key, the one
\* in the key file: the rename never replaces, and the losers hold nothing.
HeldKeyIsInstalled ==
    \A p \in Procs : held[p] # NoKey => installed # NoFile /\ installed.key = held[p]

\* A setup that reported success is not undone by a power loss: its key is the
\* key of the key file from then on.
AcknowledgedKeySurvives ==
    \A key \in acked : installed # NoFile /\ installed.key = key

\* AlreadyInitialized is said only when there is a key file: neither another
\* process's temporary file nor a leftover one is taken for it.
AlreadyInitializedIsTrue ==
    \A p \in Procs : answer[p] = "AlreadyInitialized" => installed # NoFile

\* A sweep never takes the temporary file of a process that is installing, also
\* when pids are reused while it looks: a publication finds its file.
SweepSparesInstallers ==
    \A p \in Procs : pc[p] \in {"write", "sync", "publish"} => OnDisk(p)

\* "key_initialized; current_command=authenticated; next_process=locked"
\* (main.rs:53): after a setup that reported success, the next process finds a
\* key file that it can unlock.
NextProcessIsLocked ==
    acked # {} => installed # NoFile /\ Whole(installed) /\ Private(installed)

\* The key file as its readers see it: they open none that is not private.  And
\* the setups that have published it.
Register ==
    INSTANCE KeyRegister WITH
        Keys <- Draws,
        NoSealed <- NoFile,
        sealed <- IF installed # NoFile /\ Whole(installed)
                  THEN [key |-> installed.key, passphrase |-> installed.passphrase,
                        opens |-> Private(installed)]
                  ELSE NoFile,
        pending <- [p \in Procs |-> pc[p] = "syncdir"]

\* All this implements a register that is written once and never replaced: the
\* rename is where a setup takes effect, the directory's sync where it may be
\* reported, and only a power loss before that sync undoes it.  Whether others
\* can open it is settled with it, by the umask of its setup.
ImplementsKeyRegister == Register!KeySpec

\* A call is answered, or its process dies: two sweeps after the same orphan do
\* not wait for each other, and a sweep ends whatever others create meanwhile.
CallsAreAnswered == \A p \in Procs : pc[p] # "idle" ~> pc[p] = "idle"
=============================================================================
