-------------------------- MODULE KeyInstall_proof --------------------------
(***************************************************************************)
(* Theorems about KeyInstall, for every set of process slots, pids and     *)
(* passphrases, and however many keys are drawn.                           *)
(***************************************************************************)
EXTENDS KeyInstall, FiniteSetTheorems, TLAPS

-----------------------------------------------------------------------------
(* The inductive invariant.                                                *)

SettingUp == {p \in Procs : purpose[p] = "setup"}

\* Each setup that has begun may still draw its key: BeginSetup leaves room.
DrawsAreReserved ==
    /\ IsFiniteSet(SettingUp)
    /\ drawn + Cardinality(SettingUp) <= MaxDraws

\* Where a call is, and what it is for.
CallInv(p) ==
    /\ pc[p] # "idle" => Alive(p)
    /\ pc[p] = "idle" <=> purpose[p] = "none"
    /\ pc[p] \in {"write", "sync", "publish", "syncdir"} => purpose[p] = "install"

Installing(p) == purpose[p] = "install"

\* The file of an installation is named after its process and the key drawn for
\* it; what is published of it has been synced.
OwnFileInv(p) ==
    Installing(p) =>
        /\ mine[p] \in File
        /\ mine[p].name.pid = pid[p]
        /\ mine[p].name.nonce = mine[p].key
        /\ mine[p].key <= drawn
        /\ pc[p] \in {"publish", "syncdir"} => mine[p].content = "synced"

KeysDiffer(p, q) == p # q /\ Installing(p) /\ Installing(q) => mine[p].key # mine[q].key

\* The file is there from its creation to its publication, and not before.
OnDiskInv(p) ==
    /\ Installing(p) /\ pc[p] \in {"listing", "sweeping", "unlinking"} => ~ OnDisk(p)
    /\ pc[p] \in {"write", "sync", "publish"} => OnDisk(p)

\* The names a sweep knows were drawn before, and the one it has condemned is no
\* installation's: its process was gone, and no later process draws its number.
SweepInv(p) ==
    /\ \A name \in todo[p] : name.nonce <= drawn
    /\ pc[p] = "unlinking" =>
         /\ victim[p] \in TempName
         /\ victim[p].nonce <= drawn
         /\ \A q \in Procs : Installing(q) => mine[q].name # victim[p]

NamesWereDrawn == \A file \in temps : file.name.nonce <= drawn

\* What the key file has to do with the processes.
KeyFileInv ==
    /\ installed # NoFile => installed.content = "synced" /\ installed.name.nonce <= drawn
    /\ \A p \in Procs :
         /\ pc[p] = "syncdir" => installed = mine[p]
         /\ held[p] # NoKey => Alive(p)
    /\ acked # {} => durable

Safety ==
    /\ HeldKeyIsInstalled
    /\ AcknowledgedKeySurvives
    /\ AlreadyInitializedIsTrue

IInv ==
    /\ TypeOK
    /\ DrawsAreReserved
    /\ NamesWereDrawn
    /\ KeyFileInv
    /\ Safety
    /\ \A p \in Procs : CallInv(p) /\ OwnFileInv(p) /\ OnDiskInv(p) /\ SweepInv(p)
    /\ \A p, q \in Procs : KeysDiffer(p, q)

-----------------------------------------------------------------------------
(* What a step of one process leaves alone.                                *)

Step(p) == Start(p) \/ Die(p) \/ Calls(p) \/ Progress(p) \/ Faults(p)

\* A step is on its own process's variables.
LEMMA OthersKeep ==
    ASSUME TypeOK, NEW p \in Procs, Step(p), NEW q \in Procs, q # p
    PROVE  /\ pid'[q] = pid[q] /\ pc'[q] = pc[q] /\ purpose'[q] = purpose[q]
           /\ mine'[q] = mine[q] /\ todo'[q] = todo[q] /\ victim'[q] = victim[q]
           /\ held'[q] = held[q] /\ answer'[q] = answer[q]
<1> USE DEF TypeOK, GoTo, Finish, FailInstall, Becomes
<1>1. CASE Start(p) \/ Die(p)
    BY <1>1 DEF Start, Die
<1>2. CASE Calls(p)
    BY <1>2 DEF Calls, BeginSetup, Status, Verify, Lock
<1>3. CASE ListTemps(p) \/ SkipLive(p) \/ CondemnOrphan(p) \/ UnlinkOrphan(p)
    BY <1>3 DEF ListTemps, SkipLive, CondemnOrphan, UnlinkOrphan
<1>4. CASE AnswerStatus(p) \/ RefuseSetup(p) \/ DrawKey(p)
    BY <1>4 DEF AnswerStatus, RefuseSetup, DrawKey
<1>5. CASE CreateTemp(p) \/ WriteTemp(p) \/ SyncTemp(p)
    BY <1>5 DEF CreateTemp, WriteTemp, SyncTemp
<1>6. CASE Publish(p) \/ SyncDir(p)
    BY <1>6 DEF Publish, SyncDir, Succeed
<1>7. CASE Faults(p)
    BY <1>7 DEF Faults, VerifyFails, SweepFails, InstallFails, SyncDirFails
<1> QED BY <1>1, <1>2, <1>3, <1>4, <1>5, <1>6, <1>7 DEF Step, Progress

\* Only DrawKey draws.
LEMMA DrawnStep ==
    ASSUME NEW p \in Procs, Step(p)
    PROVE  drawn' = drawn \/ DrawKey(p)
BY DEF Step, Start, Die, Calls, BeginSetup, Status, Verify, Lock, Progress, ListTemps, SkipLive,
       CondemnOrphan, UnlinkOrphan, AnswerStatus, RefuseSetup, CreateTemp, WriteTemp, SyncTemp,
       Publish, SyncDir, Faults, VerifyFails, SweepFails, InstallFails, SyncDirFails, disk

\* Only a publication changes the key file, which was not there before.
LEMMA KeyFileStep ==
    ASSUME NEW p \in Procs, Step(p)
    PROVE  \/ installed' = installed
           \/ /\ Publish(p)
              /\ installed = NoFile
              /\ installed' = mine[p]
BY DEF Step, Start, Die, Calls, BeginSetup, Status, Verify, Lock, Progress, ListTemps, SkipLive,
       CondemnOrphan, UnlinkOrphan, AnswerStatus, RefuseSetup, DrawKey, CreateTemp, WriteTemp,
       SyncTemp, Publish, SyncDir, Faults, VerifyFails, SweepFails, InstallFails, SyncDirFails, disk

-----------------------------------------------------------------------------
(* Types.                                                                  *)

LEMMA InitType == Init => TypeOK
<1> SUFFICES ASSUME Init PROVE TypeOK
    OBVIOUS
<1>1. drawn \in 0..MaxDraws
    BY KeyAssumption DEF Init
<1>2. request \in [Procs -> [passphrase : Inputs, confirmation : Inputs]]
    BY DEF Init, NoRequest, Inputs
<1> QED BY <1>1, <1>2 DEF Init, TypeOK, Labels, Answers

\* A passphrase that validation does not refuse is one a key may be sealed under.
LEMMA AcceptedPassphrase ==
    ASSUME NEW passphrase \in Inputs, NEW confirmation \in Inputs,
           PassphraseRefusal(passphrase, confirmation) = "none"
    PROVE  passphrase \in Passphrases
BY DEF PassphraseRefusal, Inputs

LEMMA RefusalType ==
    ASSUME NEW passphrase, NEW confirmation
    PROVE  PassphraseRefusal(passphrase, confirmation) \in Answers
BY DEF PassphraseRefusal, Answers

LEMMA FinishType ==
    ASSUME TypeOK, NEW p \in Procs, NEW status \in Answers, Finish(p, status)
    PROVE  /\ pc' \in [Procs -> Labels]
           /\ answer' \in [Procs -> Answers]
           /\ purpose' \in [Procs -> {"none", "setup", "status", "install"}]
           /\ request' \in [Procs -> [passphrase : Inputs, confirmation : Inputs]]
           /\ mine' \in [Procs -> File \cup {NoFile}]
           /\ todo' \in [Procs -> SUBSET TempName]
           /\ victim' \in [Procs -> TempName \cup {NoName}]
BY DEF TypeOK, Finish, GoTo, Labels, NoRequest, Inputs

LEMMA DrawKeyType ==
    ASSUME IInv, NEW p \in Procs, DrawKey(p)
    PROVE  /\ drawn' = drawn + 1
           /\ drawn' \in Draws
           /\ SealedKey(p, drawn + 1) \in File
<1>1. p \in SettingUp
    BY DEF DrawKey, Swept, SettingUp
<1>2. Cardinality(SettingUp) \in Nat /\ Cardinality(SettingUp) # 0
    <2>1. IsFiniteSet(SettingUp)
        BY DEF IInv, DrawsAreReserved
    <2> QED BY <1>1, <2>1, FS_CardinalityType, FS_EmptySet
<1>3. drawn + 1 \in Draws
    <2>1. drawn \in Nat /\ drawn + Cardinality(SettingUp) <= MaxDraws
        BY KeyAssumption DEF IInv, DrawsAreReserved, TypeOK
    <2> QED BY <1>2, <2>1, KeyAssumption DEF Draws
<1>4. pid[p] \in Pids
    BY DEF DrawKey, Swept, At, Alive, IInv, TypeOK
<1>5. request[p].passphrase \in Passphrases
    BY AcceptedPassphrase DEF DrawKey, IInv, TypeOK
<1>6. SealedKey(p, drawn + 1) \in File
    BY <1>3, <1>4, <1>5 DEF SealedKey, TempNameOf, File, TempName, Modes, Contents
<1> QED BY <1>3, <1>6 DEF DrawKey

\* The content of the file changes, in the process and in the directory.
LEMMA BecomesType ==
    ASSUME TypeOK, NEW p \in Procs, mine[p] \in File, NEW content \in Contents,
           Becomes(p, content)
    PROVE  /\ temps' \subseteq File
           /\ mine' \in [Procs -> File \cup {NoFile}]
           /\ mine'[p] = [mine[p] EXCEPT !.content = content]
           /\ mine'[p] \in File
<1>1. [mine[p] EXCEPT !.content = content] \in File
    BY DEF File
<1> QED BY <1>1 DEF TypeOK, Becomes, Without

\* The umask settles the mode of a file that is created, and nothing else of it.
LEMMA CreatedFile ==
    ASSUME TypeOK, NEW p \in Procs, mine[p] \in File, CreateTemp(p), ~ OnDisk(p)
    PROVE  /\ temps' = temps \cup {mine'[p]}
           /\ mine' \in [Procs -> File \cup {NoFile}]
           /\ mine'[p] \in File
           /\ mine'[p].name = mine[p].name /\ mine'[p].key = mine[p].key
           /\ mine'[p].content = mine[p].content
<1>1. PICK mode \in Modes : mine' = [mine EXCEPT ![p] = [mine[p] EXCEPT !.mode = mode]]
    BY DEF CreateTemp, Created, Modes
<1>2. mine'[p] = [mine[p] EXCEPT !.mode = mode]
    BY <1>1 DEF TypeOK
<1>3. [mine[p] EXCEPT !.mode = mode] \in File
    BY DEF File
<1> QED BY <1>1, <1>2, <1>3 DEF CreateTemp, File, TypeOK

LEMMA TypeStep ==
    ASSUME IInv, NEW p \in Procs, Step(p)
    PROVE  TypeOK'
<1>0. TypeOK /\ CallInv(p) /\ OwnFileInv(p)
    BY DEF IInv
<1> USE <1>0 DEF TypeOK, GoTo
<1>1. CASE Start(p)
    BY <1>1 DEF Start, disk
<1>2. CASE Die(p)
    <2>1. Finish(p, "none") /\ "none" \in Answers
        BY <1>2 DEF Die, Answers
    <2>2. held' \in [Procs -> Draws \cup {NoKey}] /\ pid' \in [Procs -> Pids \cup {NoPid}]
        BY <1>2 DEF Die
    <2> QED BY <1>2, <2>1, <2>2, FinishType DEF Die, disk
<1>3. CASE BeginSetup(p) \/ Lock(p)
    <2>1. request' \in [Procs -> [passphrase : Inputs, confirmation : Inputs]]
        BY <1>3 DEF BeginSetup, Lock
    <2>2. /\ pc' \in [Procs -> Labels] /\ held' \in [Procs -> Draws \cup {NoKey}]
          /\ answer' \in [Procs -> Answers]
          /\ purpose' \in [Procs -> {"none", "setup", "status", "install"}]
        BY <1>3 DEF BeginSetup, Lock, Labels, Answers
    <2> QED BY <1>3, <2>1, <2>2 DEF BeginSetup, Lock, disk
<1>4. CASE Status(p)
    <2>1. CASE held[p] # NoKey
        <3>1. Finish(p, "Authenticated") /\ "Authenticated" \in Answers
            BY <1>4, <2>1 DEF Status, Answers
        <3> QED BY <1>4, <3>1, FinishType DEF Status, disk
    <2>2. CASE held[p] = NoKey
        BY <1>4, <2>2 DEF Status, disk, Labels, Answers
    <2> QED BY <2>1, <2>2
<1>5. CASE Verify(p)
    <2>1. PICK status \in {"InvalidPassphrase", "Io", "InvalidFile", "Ok"} :
            /\ Finish(p, status)
            /\ held' = held \/ (installed # NoFile /\ held' = [held EXCEPT ![p] = installed.key])
        BY <1>5 DEF Verify
    <2>2. installed # NoFile => installed.key \in Draws
        BY DEF File
    <2> QED BY <1>5, <2>1, <2>2, FinishType DEF Verify, disk, Answers
<1>6. CASE ListTemps(p)
    <2>1. {file.name : file \in temps} \subseteq TempName
        BY DEF File
    <2> QED BY <1>6, <2>1 DEF ListTemps, disk, Labels
<1>7. CASE SkipLive(p)
    BY <1>7 DEF SkipLive, disk
<1>8. CASE CondemnOrphan(p)
    <2>1. {file.name : file \in temps} \subseteq TempName
        BY DEF File
    <2> QED BY <1>8, <2>1 DEF CondemnOrphan, disk, Labels
<1>9. CASE UnlinkOrphan(p)
    BY <1>9 DEF UnlinkOrphan, Labels
<1>10. CASE AnswerStatus(p)
    <2>1. {"NotInitialized", "Locked", "Io"} \subseteq Answers
        BY DEF Answers
    <2> QED BY <1>10, <2>1, FinishType DEF AnswerStatus, disk
<1>11. CASE RefuseSetup(p)
    <2>1. PICK status \in Answers : Finish(p, status)
        BY <1>11, RefusalType DEF RefuseSetup, Answers
    <2> QED BY <1>11, <2>1, FinishType DEF RefuseSetup, disk
<1>12. CASE DrawKey(p)
    <2>1. drawn' \in 0..MaxDraws /\ SealedKey(p, drawn + 1) \in File
        BY <1>12, DrawKeyType, KeyAssumption DEF Draws
    <2> QED BY <1>12, <2>1 DEF DrawKey, disk, Labels
<1>13. CASE CreateTemp(p)
    <2>1. CASE OnDisk(p)
        <3>1. Finish(p, "AlreadyInitialized") /\ "AlreadyInitialized" \in Answers
            BY <1>13, <2>1 DEF CreateTemp, FailInstall, Answers
        <3> QED BY <1>13, <2>1, <3>1, FinishType DEF CreateTemp, FailInstall, Without
    <2>2. CASE ~ OnDisk(p)
        <3>1. mine[p] \in File
            BY <1>13 DEF CreateTemp, Swept, OwnFileInv, Installing
        <3>2. temps' \subseteq File /\ mine' \in [Procs -> File \cup {NoFile}]
            BY <1>13, <2>2, <3>1, CreatedFile
        <3> QED BY <1>13, <2>2, <3>2 DEF CreateTemp, Labels
    <2> QED BY <2>1, <2>2
<1>14. CASE WriteTemp(p) \/ SyncTemp(p)
    <2>1. mine[p] \in File
        BY <1>14 DEF WriteTemp, SyncTemp, At, CallInv, OwnFileInv, Installing
    <2>2. \E content \in Contents : Becomes(p, content)
        BY <1>14 DEF WriteTemp, SyncTemp, Contents
    <2>3. temps' \subseteq File /\ mine' \in [Procs -> File \cup {NoFile}]
        BY <2>1, <2>2, BecomesType
    <2> QED BY <1>14, <2>3 DEF WriteTemp, SyncTemp, Labels
<1>15. CASE Publish(p)
    <2>1. mine[p] \in File
        BY <1>15 DEF Publish, At, CallInv, OwnFileInv, Installing
    <2>2. Without(p) \subseteq File
        BY DEF Without
    <2>3. CASE \E status \in {"AlreadyInitialized", "Io"} :
                  FailInstall(p, status) /\ UNCHANGED <<installed, durable>>
        <3>1. PICK status \in Answers : Finish(p, status) /\ temps' \in {Without(p), temps}
            BY <2>3 DEF FailInstall, Answers
        <3> QED BY <1>15, <2>2, <2>3, <3>1, FinishType DEF Publish
    <2>4. CASE installed = NoFile /\ OnDisk(p)
        BY <1>15, <2>1, <2>2, <2>4 DEF Publish, Labels
    <2> QED BY <1>15, <2>3, <2>4 DEF Publish
<1>16. CASE SyncDir(p)
    <2>1. mine[p] \in File
        BY <1>16 DEF SyncDir, At, CallInv, OwnFileInv, Installing
    <2>2. mine[p].key \in Draws
        BY <2>1 DEF File
    <2>3. Finish(p, "Ok") /\ "Ok" \in Answers
        BY <1>16 DEF SyncDir, Succeed, Answers
    <2> QED BY <1>16, <2>2, <2>3, FinishType DEF SyncDir, Succeed
<1>17. CASE Faults(p)
    <2>1. Finish(p, "Io") /\ "Io" \in Answers /\ Without(p) \subseteq File
        BY <1>17 DEF Faults, VerifyFails, SweepFails, InstallFails, FailInstall, SyncDirFails, Answers, Without
    <2> QED BY <1>17, <2>1, FinishType
            DEF Faults, VerifyFails, SweepFails, InstallFails, FailInstall, SyncDirFails, disk
<1> QED BY <1>1, <1>2, <1>3, <1>4, <1>5, <1>6, <1>7, <1>8, <1>9, <1>10, <1>11, <1>12, <1>13,
           <1>14, <1>15, <1>16, <1>17 DEF Step, Calls, Progress

-----------------------------------------------------------------------------
(* Room for the keys still to be drawn.                                    *)

\* BeginSetup takes room, DrawKey uses it, whatever ends a setup gives it back.
LEMMA SettingUpStep ==
    ASSUME IInv, NEW p \in Procs, Step(p)
    PROVE  \/ SettingUp' = SettingUp /\ drawn' = drawn
           \/ SettingUp' = SettingUp \ {p} /\ drawn' = drawn
           \/ /\ p \notin SettingUp /\ SettingUp' = SettingUp \cup {p} /\ drawn' = drawn
              /\ drawn + Cardinality(SettingUp) < MaxDraws
           \/ p \in SettingUp /\ SettingUp' = SettingUp \ {p} /\ drawn' = drawn + 1
<1>1. ASSUME NEW q \in Procs, q # p PROVE purpose'[q] = purpose[q]
    BY <1>1, OthersKeep DEF IInv
<1>2. CASE DrawKey(p)
    <2>1. purpose[p] = "setup" /\ purpose'[p] # "setup" /\ drawn' = drawn + 1
        BY <1>2 DEF DrawKey, Swept, IInv, TypeOK
    <2> QED BY <1>1, <2>1 DEF SettingUp
<1>3. CASE BeginSetup(p)
    <2>1. /\ purpose[p] # "setup" /\ purpose'[p] = "setup" /\ drawn' = drawn
          /\ drawn + Cardinality(SettingUp) < MaxDraws
        BY <1>3 DEF BeginSetup, At, CallInv, IInv, TypeOK, SettingUp
    <2> QED BY <1>1, <2>1 DEF SettingUp
<1>4. CASE ~ DrawKey(p) /\ ~ BeginSetup(p)
    <2>1. drawn' = drawn
        BY <1>4, DrawnStep
    <2>2. purpose'[p] = purpose[p] \/ purpose'[p] # "setup"
        BY <1>4 DEF Step, Start, Die, Calls, Status, Verify, Lock, Progress, ListTemps, SkipLive,
           CondemnOrphan, UnlinkOrphan, AnswerStatus, RefuseSetup, CreateTemp, WriteTemp, SyncTemp,
           Publish, SyncDir, Succeed, Faults, VerifyFails, SweepFails, InstallFails, SyncDirFails, FailInstall,
           Finish, IInv, TypeOK
    <2> QED BY <1>1, <2>1, <2>2 DEF SettingUp
<1> QED BY <1>2, <1>3, <1>4

LEMMA DrawsStep ==
    ASSUME IInv, NEW p \in Procs, Step(p)
    PROVE  DrawsAreReserved'
<1>1. /\ IsFiniteSet(SettingUp) /\ drawn + Cardinality(SettingUp) <= MaxDraws
      /\ drawn \in Nat
    BY KeyAssumption DEF IInv, DrawsAreReserved, TypeOK
<1>2. /\ IsFiniteSet(SettingUp \ {p}) /\ Cardinality(SettingUp) \in Nat
      /\ Cardinality(SettingUp \ {p}) =
           IF p \in SettingUp THEN Cardinality(SettingUp) - 1 ELSE Cardinality(SettingUp)
    BY <1>1, FS_CardinalityType, FS_RemoveElement
<1>3. /\ IsFiniteSet(SettingUp \cup {p})
      /\ p \notin SettingUp =>
           Cardinality(SettingUp \cup {p}) = Cardinality(SettingUp) + 1
    BY <1>1, FS_AddElement
<1> QED BY <1>1, <1>2, <1>3, SettingUpStep, KeyAssumption DEF DrawsAreReserved

-----------------------------------------------------------------------------
(* Temporary files and their names.                                        *)

\* No two installations work on files of one name.
LEMMA NamesDiffer ==
    ASSUME IInv, NEW p \in Procs, NEW q \in Procs, p # q, Installing(p), Installing(q)
    PROVE  mine[p].name # mine[q].name
<1>1. KeysDiffer(p, q) /\ OwnFileInv(p) /\ OwnFileInv(q)
    BY DEF IInv
<1> QED BY <1>1 DEF KeysDiffer, OwnFileInv

LEMMA InstallerIsRunning ==
    ASSUME IInv, NEW p \in Procs, Installing(p)
    PROVE  mine[p].name.pid \in Running
BY DEF IInv, CallInv, OwnFileInv, Installing, Alive, Running

\* The names in the directory after a step: those that were there, less the name
\* a sweep condemned or a file that was published or abandoned, or with a new
\* one; every other step leaves them as they are.
LEMMA TempNames ==
    ASSUME IInv, NEW p \in Procs, Step(p), NEW name
    PROVE  LET before == \E file \in temps : file.name = name
               after  == \E file \in temps' : file.name = name
           IN  \/ after <=> before
               \/ pc[p] = "unlinking" /\ (after <=> before /\ name # victim[p])
               \/ /\ Installing(p) /\ pc'[p] \notin {"write", "sync", "publish"}
                  /\ after <=> before /\ name # mine[p].name
               \/ /\ Swept(p, "install") /\ pc'[p] = "write" /\ mine'[p].name = mine[p].name
                  /\ after <=> before \/ name = mine[p].name
<1> USE DEF IInv, TypeOK, GoTo, At, Installing
<1>1. CASE UnlinkOrphan(p)
    BY <1>1 DEF UnlinkOrphan
<1>2. CASE CreateTemp(p)
    <2>1. CASE OnDisk(p)
        BY <1>2, <2>1 DEF CreateTemp, Swept, FailInstall, Finish, Without
    <2>2. CASE ~ OnDisk(p)
        <3>1. mine[p] \in File
            BY <1>2 DEF CreateTemp, Swept, OwnFileInv
        <3>2. temps' = temps \cup {mine'[p]} /\ mine'[p].name = mine[p].name
            BY <1>2, <2>2, <3>1, CreatedFile
        <3> QED BY <1>2, <2>2, <3>2 DEF CreateTemp, Swept
    <2> QED BY <2>1, <2>2
<1>3. CASE WriteTemp(p) \/ SyncTemp(p)
    <2>1. mine[p] \in File
        BY <1>3 DEF WriteTemp, SyncTemp, CallInv, OwnFileInv
    <2>2. PICK content \in Contents : Becomes(p, content)
        BY <1>3 DEF WriteTemp, SyncTemp, Contents
    <2>3. [mine[p] EXCEPT !.content = content].name = mine[p].name
        BY <2>1 DEF File
    <2> QED BY <2>2, <2>3 DEF Becomes, Without, OnDisk
<1>4. CASE Publish(p)
    <2>1. Installing(p) /\ temps' \in {Without(p), temps} /\ pc'[p] \in {"idle", "syncdir"}
        BY <1>4 DEF Publish, FailInstall, Finish, CallInv
    <2> QED BY <2>1 DEF Without
<1>5. CASE InstallFails(p)
    <2>1. Installing(p) /\ temps' \in {Without(p), temps} /\ pc'[p] = "idle"
        BY <1>5 DEF InstallFails, FailInstall, Finish, CallInv, Swept
    <2> QED BY <2>1 DEF Without
<1>6. CASE temps' = temps
    BY <1>6
<1> QED BY <1>1, <1>2, <1>3, <1>4, <1>5, <1>6 DEF Step, Start, Die, Calls, BeginSetup, Status,
       Verify, Lock, Progress, ListTemps, SkipLive, CondemnOrphan, AnswerStatus, RefuseSetup,
       DrawKey, SyncDir, Faults, VerifyFails, SweepFails, SyncDirFails, disk

LEMMA DrawnGrows ==
    ASSUME IInv, NEW p \in Procs, Step(p)
    PROVE  drawn \in Nat /\ drawn' \in Nat /\ drawn <= drawn'
<1>1. drawn \in Nat /\ (drawn' = drawn \/ drawn' = drawn + 1)
    BY DrawnStep, DrawKeyType, KeyAssumption DEF IInv, TypeOK
<1> QED BY <1>1

\* The installations after a step are those before it, on the same files, or the
\* one whose key was just drawn.
LEMMA InstallersStep ==
    ASSUME IInv, NEW p \in Procs, Step(p), NEW q \in Procs, Installing(q)'
    PROVE  \/ /\ Installing(q) /\ mine'[q].name = mine[q].name /\ mine'[q].key = mine[q].key
              /\ mine'[q] \in File /\ pid'[q] = pid[q]
              /\ mine'[q].content = mine[q].content \/ q = p
           \/ q = p /\ DrawKey(p) /\ mine'[q] = SealedKey(p, drawn + 1) /\ pid'[q] = pid[q]
<1>0. TypeOK /\ CallInv(q) /\ (Installing(q) => mine[q] \in File)
    BY DEF IInv, OwnFileInv
<1>1. CASE q # p
    BY <1>0, <1>1, OthersKeep DEF Installing
<1>2. CASE q = p
    <2>1. CASE DrawKey(p)
        BY <1>0, <1>2, <2>1 DEF DrawKey, TypeOK
    <2>2. CASE WriteTemp(p) \/ SyncTemp(p)
        <3>1. Installing(p) /\ pid' = pid
            BY <1>0, <1>2, <2>2 DEF WriteTemp, SyncTemp, Installing
        <3>2. PICK content \in Contents : Becomes(p, content)
            BY <2>2 DEF WriteTemp, SyncTemp, Contents
        <3>3. mine'[p] = [mine[p] EXCEPT !.content = content] /\ mine'[p] \in File
            BY <1>0, <1>2, <3>1, <3>2, BecomesType
        <3> QED BY <1>0, <1>2, <3>1, <3>3 DEF File
    <2>3. CASE CreateTemp(p) /\ ~ OnDisk(p)
        <3>1. Installing(p) /\ pid' = pid
            BY <2>3 DEF CreateTemp, Swept, Installing
        <3> QED BY <1>0, <1>2, <2>3, <3>1, CreatedFile
    <2>4. CASE ~ DrawKey(p) /\ ~ WriteTemp(p) /\ ~ SyncTemp(p) /\ ~ (CreateTemp(p) /\ ~ OnDisk(p))
        <3>1. purpose'[p] = "none" \/ purpose'[p] # "install"
              \/ (purpose'[p] = purpose[p] /\ mine'[p] = mine[p] /\ pid'[p] = pid[p])
            <4>1. CASE Start(p)
                BY <1>0, <1>2, <4>1 DEF Start, CallInv, Installing
            <4> QED
                BY <1>0, <1>2, <2>4, <4>1 DEF Step, Die, Calls, BeginSetup, Status, Verify, Lock,
                   Progress, ListTemps, SkipLive, CondemnOrphan, UnlinkOrphan, AnswerStatus,
                   RefuseSetup, CreateTemp, Publish, SyncDir, Succeed, Faults, VerifyFails, SweepFails,
                   InstallFails, SyncDirFails, FailInstall, Finish, TypeOK
        <3> QED BY <1>0, <1>2, <3>1 DEF Installing
    <2> QED BY <2>1, <2>2, <2>3, <2>4
<1> QED BY <1>1, <1>2

\* The label of an installation: it sweeps, creates its file, works on it, and
\* has published it.
LEMMA InstallLabels ==
    ASSUME IInv, NEW p \in Procs, Step(p), Installing(p), Installing(p)'
    PROVE  \/ pc[p] \in {"listing", "sweeping", "unlinking"}
              /\ pc'[p] \in {"listing", "sweeping", "unlinking"}
           \/ pc[p] \in {"write", "sync"} /\ pc'[p] \in {"sync", "publish"}
           \/ CreateTemp(p) /\ ~ OnDisk(p) /\ pc'[p] = "write"
           \/ Publish(p) /\ pc[p] = "publish" /\ pc'[p] = "syncdir"
<1>1. TypeOK /\ CallInv(p) /\ pc[p] # "idle" /\ Alive(p)
    BY DEF IInv, CallInv, Installing
<1>2. ~ Start(p) /\ ~ Calls(p)
    BY <1>1 DEF Start, Calls, BeginSetup, Status, Verify, Lock, At
<1>3. ~ AnswerStatus(p) /\ ~ RefuseSetup(p) /\ ~ DrawKey(p)
    BY <1>1 DEF AnswerStatus, RefuseSetup, DrawKey, Swept, Installing
<1>4. ~ Die(p) /\ ~ SyncDir(p) /\ ~ Faults(p)
    BY <1>1 DEF Die, SyncDir, Succeed, Faults, VerifyFails, SweepFails, InstallFails, SyncDirFails, FailInstall,
               Finish, Installing, TypeOK
<1>5. CASE ListTemps(p) \/ SkipLive(p) \/ CondemnOrphan(p) \/ UnlinkOrphan(p)
    BY <1>1, <1>5 DEF ListTemps, SkipLive, CondemnOrphan, UnlinkOrphan, At, GoTo, TypeOK
<1>6. CASE CreateTemp(p) \/ WriteTemp(p) \/ SyncTemp(p) \/ Publish(p)
    BY <1>1, <1>6 DEF CreateTemp, WriteTemp, SyncTemp, Publish, FailInstall, Finish, At, GoTo,
               Installing, TypeOK
<1> QED BY <1>2, <1>3, <1>4, <1>5, <1>6 DEF Step, Progress

-----------------------------------------------------------------------------
(* The parts of the invariant, each after a step of process p.             *)

\* A call that is over satisfies all that is asked of it.
LEMMA IdleInv ==
    ASSUME NEW q \in Procs, pc'[q] = "idle", purpose'[q] = "none", todo'[q] = {}
    PROVE  CallInv(q)' /\ OwnFileInv(q)' /\ OnDiskInv(q)' /\ SweepInv(q)'
BY DEF CallInv, OwnFileInv, OnDiskInv, SweepInv, Installing

LEMMA CallStep ==
    ASSUME IInv, NEW p \in Procs, Step(p), NEW q \in Procs
    PROVE  CallInv(q)'
<1>0. TypeOK /\ CallInv(q) /\ CallInv(p)
    BY DEF IInv
<1>1. CASE q # p
    BY <1>0, <1>1, OthersKeep DEF CallInv, Alive
<1>2. CASE q = p
    <2>1. CASE pc'[p] = "idle" /\ purpose'[p] = "none"
        BY <1>2, <2>1 DEF CallInv
    <2>2. CASE Start(p) \/ Calls(p)
        BY <1>0, <1>2, <2>1, <2>2 DEF Start, Calls, BeginSetup, Status, Verify, Lock, At, GoTo,
           Finish, CallInv, Alive, TypeOK
    <2>3. CASE ListTemps(p) \/ SkipLive(p) \/ CondemnOrphan(p) \/ UnlinkOrphan(p) \/ DrawKey(p)
        BY <1>0, <1>2, <2>3 DEF ListTemps, SkipLive, CondemnOrphan, UnlinkOrphan, DrawKey, At,
           Swept, GoTo, CallInv, Alive, TypeOK
    <2>4. CASE CreateTemp(p) \/ WriteTemp(p) \/ SyncTemp(p) \/ Publish(p)
        BY <1>0, <1>2, <2>1, <2>4 DEF CreateTemp, WriteTemp, SyncTemp, Publish, FailInstall,
           Finish, At, Swept, GoTo, CallInv, Alive, TypeOK
    <2>5. CASE Die(p) \/ AnswerStatus(p) \/ RefuseSetup(p) \/ SyncDir(p) \/ Faults(p)
        BY <1>0, <2>1, <2>5 DEF Die, AnswerStatus, RefuseSetup, SyncDir, Succeed, Faults,
           VerifyFails, SweepFails, InstallFails, SyncDirFails, FailInstall, Finish, GoTo, TypeOK
    <2> QED BY <2>2, <2>3, <2>4, <2>5 DEF Step, Progress
<1> QED BY <1>1, <1>2

LEMMA OwnFileStep ==
    ASSUME IInv, NEW p \in Procs, Step(p), NEW q \in Procs
    PROVE  OwnFileInv(q)'
<1> SUFFICES ASSUME Installing(q)' PROVE OwnFileInv(q)'
    BY DEF OwnFileInv
<1>0. TypeOK /\ OwnFileInv(q) /\ drawn <= drawn' /\ drawn \in Nat /\ drawn' \in Nat
    BY DrawnGrows DEF IInv
<1>1. CASE DrawKey(p) /\ q = p
    <2>1. mine'[p] = SealedKey(p, drawn + 1) /\ SealedKey(p, drawn + 1) \in File /\ drawn' = drawn + 1
        BY <1>0, <1>1, DrawKeyType DEF DrawKey, TypeOK
    <2>2. pid'[p] = pid[p] /\ pc'[p] = "listing"
        BY <1>0, <1>1 DEF DrawKey, GoTo, TypeOK
    <2> QED BY <1>0, <1>1, <2>1, <2>2 DEF OwnFileInv, SealedKey, TempNameOf
<1>2. CASE Installing(q) /\ mine'[q].name = mine[q].name /\ mine'[q].key = mine[q].key
           /\ mine'[q] \in File /\ pid'[q] = pid[q]
    <2>1. mine[q].key \in Nat
        BY <1>0, <1>2 DEF OwnFileInv, File, Draws
    <2>2. ASSUME pc'[q] \in {"publish", "syncdir"} PROVE mine'[q].content = "synced"
        <3>1. CASE q # p
            BY <1>0, <1>2, <2>2, <3>1, OthersKeep DEF OwnFileInv
        <3>2. CASE q = p /\ pc[p] = "publish"
            BY <1>0, <1>2, <2>2, <3>2, InstallLabels DEF OwnFileInv, Publish, FailInstall, Finish, GoTo, TypeOK
        <3>3. CASE q = p /\ pc[p] # "publish"
            <4>1. SyncTemp(p)
                BY <1>0, <1>2, <2>2, <3>3, InstallLabels DEF Step, Start, Die, Calls, BeginSetup,
                   Status, Verify, Lock, Progress, ListTemps, SkipLive, CondemnOrphan,
                   UnlinkOrphan, AnswerStatus, RefuseSetup, DrawKey, CreateTemp, WriteTemp, Publish,
                   SyncDir, Succeed, Faults, VerifyFails, SweepFails, InstallFails, SyncDirFails, FailInstall,
                   Finish, At, Swept, GoTo, TypeOK
            <4> QED BY <1>0, <1>2, <3>3, <4>1, BecomesType DEF SyncTemp, OwnFileInv, File, Contents
        <3> QED BY <3>1, <3>2, <3>3
    <2> QED BY <1>0, <1>2, <2>1, <2>2 DEF OwnFileInv
<1> QED BY <1>1, <1>2, InstallersStep

LEMMA KeysStep ==
    ASSUME IInv, NEW p \in Procs, Step(p), NEW q \in Procs, NEW r \in Procs
    PROVE  KeysDiffer(q, r)'
<1> SUFFICES ASSUME q # r, Installing(q)', Installing(r)' PROVE mine'[q].key # mine'[r].key
    BY DEF KeysDiffer
<1>1. ASSUME NEW s \in Procs, Installing(s) PROVE mine[s].key \in Nat /\ mine[s].key <= drawn
    BY <1>1 DEF IInv, OwnFileInv, File, Draws
<1>2. drawn \in Nat /\ SealedKey(p, drawn + 1).key = drawn + 1
    BY DrawnGrows DEF SealedKey
<1>3. KeysDiffer(q, r)
    BY DEF IInv
<1> QED BY <1>1, <1>2, <1>3, InstallersStep DEF KeysDiffer

LEMMA NamesStep ==
    ASSUME IInv, NEW p \in Procs, Step(p)
    PROVE  NamesWereDrawn'
<1> SUFFICES ASSUME NEW file \in temps' PROVE file.name.nonce <= drawn'
    BY DEF NamesWereDrawn
<1>1. file.name.nonce \in Nat /\ drawn <= drawn' /\ drawn \in Nat /\ drawn' \in Nat
    <2>1. file \in File
        BY TypeStep DEF TypeOK
    <2> QED BY <2>1, DrawnGrows DEF File, TempName, Draws
<1>2. CASE \E before \in temps : before.name = file.name
    BY <1>1, <1>2 DEF IInv, NamesWereDrawn
<1>3. CASE Installing(p) /\ file.name = mine[p].name
    BY <1>1, <1>3 DEF IInv, OwnFileInv
<1> QED BY <1>2, <1>3, TempNames DEF Swept, Installing

LEMMA OnDiskStep ==
    ASSUME IInv, NEW p \in Procs, Step(p), NEW q \in Procs
    PROVE  OnDiskInv(q)'
<1> SUFFICES ASSUME Installing(q)' PROVE OnDiskInv(q)'
    BY CallStep DEF OnDiskInv, CallInv, Installing
<1>0. OnDiskInv(q) /\ SweepInv(p) /\ TypeOK
    BY DEF IInv
<1>1. CASE DrawKey(p) /\ q = p
    <2>1. mine'[p].name.nonce = drawn + 1 /\ temps' = temps /\ pc'[p] = "listing"
        BY <1>0, <1>1, DrawKeyType DEF DrawKey, SealedKey, TempNameOf, GoTo, disk, TypeOK
    <2>2. ASSUME NEW file \in temps PROVE file.name.nonce # drawn + 1
        BY <2>2, DrawnGrows DEF IInv, NamesWereDrawn, TypeOK, File, TempName, Draws
    <2> QED BY <1>1, <2>1, <2>2 DEF OnDiskInv, OnDisk
<1>2. CASE Installing(q) /\ mine'[q].name = mine[q].name
    <2>1. pc[p] = "unlinking" => mine[q].name # victim[p]
        BY <1>0, <1>2 DEF SweepInv
    <2>2. CASE q # p
        <3>1. Installing(p) => mine[q].name # mine[p].name
            BY <1>2, <2>2, NamesDiffer
        <3>2. OnDisk(q)' <=> OnDisk(q)
            BY <1>2, <2>1, <3>1, TempNames DEF OnDisk, Swept, Installing
        <3> QED BY <1>0, <1>2, <2>2, <3>2, OthersKeep DEF OnDiskInv, Installing
    <2>3. CASE q = p
        <3>1. CASE CreateTemp(p) /\ ~ OnDisk(p) /\ pc'[p] = "write"
            <4>1. mine'[p] \in temps'
                BY <3>1 DEF CreateTemp
            <4> QED BY <2>3, <3>1, <4>1 DEF OnDiskInv, OnDisk
        <3>2. CASE pc'[p] = "syncdir"
            BY <2>3, <3>2 DEF OnDiskInv
        <3>3. CASE pc'[p] \in {"listing", "sweeping", "unlinking"} /\ pc[p] \in {"listing", "sweeping", "unlinking"}
            <4>1. ~ OnDisk(p)'
                BY <1>0, <1>2, <2>3, <3>3, TempNames DEF OnDisk, OnDiskInv
            <4> QED BY <2>3, <3>3, <4>1 DEF OnDiskInv
        <3>4. CASE pc[p] \in {"write", "sync"} /\ pc'[p] \in {"sync", "publish"}
            <4>1. OnDisk(p)'
                BY <1>0, <1>2, <2>3, <3>4, TempNames DEF OnDisk, OnDiskInv
            <4> QED BY <2>3, <3>4, <4>1 DEF OnDiskInv
        <3> QED BY <1>2, <2>3, <3>1, <3>2, <3>3, <3>4, InstallLabels
    <2> QED BY <2>2, <2>3
<1> QED BY <1>1, <1>2, InstallersStep

LEMMA SweepStep ==
    ASSUME IInv, NEW p \in Procs, Step(p), NEW q \in Procs
    PROVE  SweepInv(q)'
<1>0. /\ TypeOK /\ SweepInv(q) /\ TypeOK'
      /\ drawn \in Nat /\ drawn' \in Nat /\ drawn <= drawn'
    BY TypeStep, DrawnGrows DEF IInv
<1>1. \A name \in TempName : name.nonce \in Nat
    BY DEF TempName, Draws
<1>2. \A name \in {file.name : file \in temps} : name \in TempName /\ name.nonce <= drawn
    BY <1>0 DEF IInv, NamesWereDrawn, TypeOK, File
<1>3. \A name \in todo'[q] : name.nonce <= drawn'
    <2>1. \A name \in todo[q] : name.nonce <= drawn /\ name \in TempName
        BY <1>0 DEF SweepInv, TypeOK
    <2>2. todo'[q] \subseteq todo[q] \cup {file.name : file \in temps}
        <3>1. CASE q # p
            BY <1>0, <3>1, OthersKeep
        <3>2. CASE q = p
            BY <1>0, <3>2 DEF Step, Start, Die, Calls, BeginSetup, Status, Verify, Lock, Progress,
               ListTemps, SkipLive, CondemnOrphan, UnlinkOrphan, AnswerStatus, RefuseSetup, DrawKey,
               CreateTemp, WriteTemp, SyncTemp, Publish, SyncDir, Succeed, Faults, VerifyFails, SweepFails,
               InstallFails, SyncDirFails, FailInstall, Finish, TypeOK
        <3> QED BY <3>1, <3>2
    <2> QED BY <1>0, <1>1, <1>2, <2>1, <2>2
<1>4. ASSUME pc'[q] = "unlinking"
      PROVE  /\ victim'[q] \in TempName
             /\ victim'[q].nonce <= drawn'
             /\ \A r \in Procs : Installing(r)' => mine'[r].name # victim'[q]
    \* The name was condemned before this step, or by it.
    <2>1. \/ pc[q] = "unlinking" /\ victim'[q] = victim[q]
          \/ q = p /\ CondemnOrphan(p)
        <3>1. CASE q # p
            BY <1>0, <1>4, <3>1, OthersKeep
        <3>2. CASE q = p
            BY <1>0, <1>4, <3>2 DEF Step, Start, Die, Calls, BeginSetup, Status, Verify, Lock,
               Progress, ListTemps, SkipLive, UnlinkOrphan, AnswerStatus, RefuseSetup, DrawKey,
               CreateTemp, WriteTemp, SyncTemp, Publish, SyncDir, Succeed, Faults, VerifyFails, SweepFails,
               InstallFails, SyncDirFails, FailInstall, Finish, GoTo, At, Swept, TypeOK
        <3> QED BY <3>1, <3>2
    <2>2. /\ victim'[q] \in TempName
          /\ victim'[q].nonce <= drawn
          /\ \A r \in Procs : Installing(r) => mine[r].name # victim'[q]
        <3>1. CASE pc[q] = "unlinking" /\ victim'[q] = victim[q]
            BY <1>0, <3>1 DEF SweepInv
        <3>2. CASE q = p /\ CondemnOrphan(p)
            <4>1. PICK name \in todo[p] \cup {file.name : file \in temps} :
                    name.pid \notin Running /\ victim'[p] = name
                BY <1>0, <3>2 DEF CondemnOrphan, TypeOK
            <4>2. name \in TempName /\ name.nonce <= drawn
                BY <1>0, <1>2, <3>2, <4>1 DEF SweepInv, TypeOK
            <4> QED BY <3>2, <4>1, <4>2, InstallerIsRunning
        <3> QED BY <2>1, <3>1, <3>2
    <2>3. ASSUME NEW r \in Procs, Installing(r)' PROVE mine'[r].name # victim'[q]
        <3>1. CASE r = p /\ mine'[r] = SealedKey(p, drawn + 1)
            <4>1. mine'[r].name.nonce = drawn + 1
                BY <3>1 DEF SealedKey, TempNameOf
            <4> QED BY <1>0, <1>1, <2>2, <4>1
        <3> QED BY <2>2, <2>3, <3>1, InstallersStep
    <2> QED BY <1>0, <1>1, <2>2, <2>3
<1> QED BY <1>3, <1>4 DEF SweepInv

-----------------------------------------------------------------------------
(* The key file.                                                           *)

\* A key is held from a successful setup or verification on.
LEMMA HeldStep ==
    ASSUME IInv, NEW p \in Procs, Step(p), NEW q \in Procs, held'[q] # NoKey
    PROVE  /\ Alive(q)'
           /\ \/ held'[q] = held[q]
              \/ q = p /\ Verify(p) /\ installed # NoFile /\ held'[q] = installed.key
              \/ q = p /\ SyncDir(p) /\ held'[q] = mine[q].key
<1>0. TypeOK /\ (held[q] # NoKey => Alive(q))
    BY DEF IInv, KeyFileInv
<1>1. CASE q # p
    BY <1>0, <1>1, OthersKeep DEF Alive
<1>2. CASE q = p
    <2>1. CASE Verify(p)
        BY <1>0, <1>2, <2>1 DEF Verify, Alive, At, TypeOK
    <2>2. CASE SyncDir(p)
        BY <1>0, <1>2, <2>2 DEF SyncDir, Succeed, Alive, At, TypeOK
    <2>3. CASE Start(p) \/ Die(p)
        BY <1>0, <1>2, <2>3 DEF Start, Die, Alive, TypeOK
    <2>4. CASE ~ Verify(p) /\ ~ SyncDir(p) /\ ~ Start(p) /\ ~ Die(p)
        <3>1. held'[p] = held[p] \/ held'[p] = NoKey
            BY <1>0, <2>4 DEF Step, Calls, BeginSetup, Status, Lock, Progress, ListTemps, SkipLive,
               CondemnOrphan, UnlinkOrphan, AnswerStatus, RefuseSetup, DrawKey, CreateTemp,
               WriteTemp, SyncTemp, Publish, Faults, VerifyFails, SweepFails, InstallFails, SyncDirFails, TypeOK
        <3>2. pid' = pid
            BY <2>4 DEF Step, Calls, BeginSetup, Status, Lock, Progress, ListTemps, SkipLive,
               CondemnOrphan, UnlinkOrphan, AnswerStatus, RefuseSetup, DrawKey, CreateTemp,
               WriteTemp, SyncTemp, Publish, Faults, VerifyFails, SweepFails, InstallFails, SyncDirFails
        <3> QED BY <1>0, <1>2, <2>4, <3>1, <3>2 DEF Alive
    <2> QED BY <2>1, <2>2, <2>3, <2>4
<1> QED BY <1>1, <1>2

\* Success is reported, and the key file made durable, by SyncDir alone; a
\* publication begins anew.
LEMMA AckedStep ==
    ASSUME IInv, NEW p \in Procs, Step(p)
    PROVE  \/ acked' = acked /\ durable' = durable
           \/ SyncDir(p) /\ acked' = acked \cup {mine[p].key} /\ durable'
           \/ Publish(p) /\ installed = NoFile /\ acked' = acked
BY DEF Step, Start, Die, Calls, BeginSetup, Status, Verify, Lock, Progress, ListTemps, SkipLive,
       CondemnOrphan, UnlinkOrphan, AnswerStatus, RefuseSetup, DrawKey, CreateTemp, WriteTemp,
       SyncTemp, Publish, SyncDir, Succeed, Faults, VerifyFails, SweepFails, InstallFails, SyncDirFails, disk

\* Who has published the key file has the file it published.
LEMMA PublishedStep ==
    ASSUME IInv, NEW p \in Procs, Step(p), NEW q \in Procs, pc'[q] = "syncdir"
    PROVE  installed' = mine'[q]
<1>0. TypeOK /\ (pc[q] = "syncdir" => installed = mine[q]) /\ CallInv(q)
    BY DEF IInv, KeyFileInv
<1>1. CASE q # p
    <2>1. pc[q] = "syncdir" /\ mine'[q] = mine[q]
        BY <1>0, <1>1, OthersKeep
    <2>2. installed # NoFile
        BY <1>0, <2>1, NoFileAssumption DEF IInv, OwnFileInv, CallInv, Installing
    <2> QED BY <1>0, <2>1, <2>2, KeyFileStep
<1>2. CASE q = p
    <2>1. Publish(p) /\ pc[p] = "publish"
        BY <1>0, <1>2 DEF Step, Start, Die, Calls, BeginSetup, Status, Verify, Lock, Progress,
           ListTemps, SkipLive, CondemnOrphan, UnlinkOrphan, AnswerStatus, RefuseSetup, DrawKey,
           CreateTemp, WriteTemp, SyncTemp, Publish, SyncDir, Succeed, Faults, VerifyFails, SweepFails,
           InstallFails, SyncDirFails, FailInstall, Finish, GoTo, At, Swept, CallInv, TypeOK
    <2> QED BY <1>0, <1>2, <2>1 DEF Publish, FailInstall, Finish, GoTo, TypeOK
<1> QED BY <1>1, <1>2

LEMMA KeyFileInvStep ==
    ASSUME IInv, NEW p \in Procs, Step(p)
    PROVE  KeyFileInv'
<1>1. ASSUME installed' # NoFile
      PROVE  installed'.content = "synced" /\ installed'.name.nonce <= drawn'
    <2>0. drawn \in Nat /\ drawn' \in Nat /\ drawn <= drawn'
        BY DrawnGrows
    <2>1. installed' \in File
        BY <1>1, TypeStep DEF TypeOK
    <2>2. installed'.content = "synced" /\ installed'.name.nonce <= drawn
        <3>1. CASE installed' = installed
            BY <1>1, <3>1 DEF IInv, KeyFileInv
        <3>2. CASE Publish(p) /\ installed' = mine[p]
            BY <3>2 DEF IInv, CallInv, OwnFileInv, Installing, Publish, At
        <3> QED BY <3>1, <3>2, KeyFileStep
    <2> QED BY <2>0, <2>1, <2>2 DEF File, TempName, Draws
<1>2. ASSUME NEW q \in Procs
      PROVE  /\ pc'[q] = "syncdir" => installed' = mine'[q]
             /\ held'[q] # NoKey => Alive(q)'
    BY PublishedStep, HeldStep
<1>3. acked' # {} => durable'
    <2>1. installed = NoFile => acked = {}
        BY DEF IInv, Safety, AcknowledgedKeySurvives
    <2> QED BY <2>1, AckedStep DEF IInv, KeyFileInv
<1> QED BY <1>1, <1>2, <1>3 DEF KeyFileInv

\* Whoever says that there is a key file saw one: a temporary file of the name
\* of a new one does not exist.
LEMMA AnswerStep ==
    ASSUME IInv, NEW p \in Procs, Step(p), NEW q \in Procs, answer'[q] = "AlreadyInitialized"
    PROVE  answer[q] = "AlreadyInitialized" \/ installed # NoFile
<1>0. TypeOK /\ CallInv(p) /\ OnDiskInv(p)
    BY DEF IInv
<1>1. CASE q # p
    BY <1>1, <1>0, OthersKeep
<1>2. CASE q = p /\ CreateTemp(p)
    BY <1>0, <1>2 DEF CreateTemp, Swept, At, OnDiskInv, Installing, TypeOK
<1>3. CASE q = p /\ RefuseSetup(p)
    BY <1>0, <1>3 DEF RefuseSetup, PassphraseRefusal, Finish, TypeOK
<1>4. CASE q = p /\ ~ CreateTemp(p) /\ ~ RefuseSetup(p)
    BY <1>0, <1>4 DEF Step, Start, Die, Calls, BeginSetup, Status, Verify, Lock, Progress,
       ListTemps, SkipLive, CondemnOrphan, UnlinkOrphan, AnswerStatus, DrawKey, WriteTemp, SyncTemp,
       Publish, SyncDir, Succeed, Faults, VerifyFails, SweepFails, InstallFails, SyncDirFails, FailInstall,
       Finish, TypeOK
<1> QED BY <1>1, <1>2, <1>3, <1>4

LEMMA SafetyStep ==
    ASSUME IInv, NEW p \in Procs, Step(p)
    PROVE  Safety'
<1>0. /\ Safety /\ KeyFileInv /\ (installed # NoFile => installed' = installed)
      /\ (pc[p] = "syncdir" => installed = mine[p] /\ mine[p] \in File)
    BY KeyFileStep DEF IInv, KeyFileInv, CallInv, OwnFileInv, Installing
<1>1. pc[p] = "syncdir" => installed # NoFile /\ installed.key = mine[p].key
    BY <1>0, NoFileAssumption
<1>2. SyncDir(p) => pc[p] = "syncdir"
    BY DEF SyncDir, At
<1>3. HeldKeyIsInstalled'
    BY <1>0, <1>1, <1>2, HeldStep DEF Safety, HeldKeyIsInstalled
<1>4. AcknowledgedKeySurvives'
    BY <1>0, <1>1, <1>2, AckedStep DEF Safety, AcknowledgedKeySurvives
<1>5. AlreadyInitializedIsTrue'
    BY <1>0, AnswerStep DEF Safety, AlreadyInitializedIsTrue
<1> QED BY <1>3, <1>4, <1>5 DEF Safety

-----------------------------------------------------------------------------
(* A power loss.                                                           *)

\* It ends every call, and undoes a publication that was never acknowledged or
\* leaves it as it is: what is published is on the disk in full.
LEMMA PowerLossFacts ==
    ASSUME IInv, PowerLoss
    PROVE  /\ installed' = installed \/ (installed' = NoFile /\ ~ durable)
           /\ durable' = (installed' # NoFile)
           /\ temps' \subseteq temps \cup ({installed} \ {NoFile})
           /\ drawn' = drawn /\ acked' = acked
           /\ \A p \in Procs :
                /\ pid'[p] = NoPid /\ pc'[p] = "idle" /\ purpose'[p] = "none"
                /\ todo'[p] = {} /\ held'[p] = NoKey /\ answer'[p] = "none"
<1>1. installed # NoFile => AfterPowerLoss(installed) = {installed}
    BY DEF AfterPowerLoss, IInv, KeyFileInv
<1>2. /\ installed' = installed \/ (installed' = NoFile /\ ~ durable)
      /\ temps' \subseteq temps \cup ({installed} \ {NoFile})
    BY <1>1 DEF PowerLoss
<1> QED BY <1>2 DEF PowerLoss

LEMMA PowerLossType ==
    ASSUME IInv, PowerLoss
    PROVE  TypeOK'
<1>1. TypeOK
    BY DEF IInv
<1>2. temps' \subseteq File /\ installed' \in File \cup {NoFile} /\ durable' \in BOOLEAN
    BY <1>1, PowerLossFacts DEF TypeOK
<1>3. request' \in [Procs -> [passphrase : Inputs, confirmation : Inputs]]
    BY DEF PowerLoss, NoRequest, Inputs
<1> QED BY <1>1, <1>2, <1>3 DEF PowerLoss, TypeOK, Labels, Answers

LEMMA PowerLossInv ==
    ASSUME IInv, PowerLoss
    PROVE  IInv'
<1>1. TypeOK'
    BY PowerLossType
<1>2. DrawsAreReserved'
    <2>1. SettingUp' = {} /\ IsFiniteSet({}) /\ Cardinality({}) = 0
        BY PowerLossFacts, FS_EmptySet DEF SettingUp
    <2> QED BY <2>1, PowerLossFacts, KeyAssumption DEF DrawsAreReserved, IInv, TypeOK
<1>3. NamesWereDrawn'
    BY PowerLossFacts DEF NamesWereDrawn, IInv, KeyFileInv
<1>4. acked # {} => durable /\ installed # NoFile
    BY DEF IInv, KeyFileInv, Safety, AcknowledgedKeySurvives
<1>5. KeyFileInv'
    BY <1>4, PowerLossFacts DEF KeyFileInv, IInv
<1>6. Safety'
    BY <1>4, PowerLossFacts DEF Safety, HeldKeyIsInstalled, AcknowledgedKeySurvives,
                                AlreadyInitializedIsTrue, IInv
<1>7. \A p \in Procs : CallInv(p)' /\ OwnFileInv(p)' /\ OnDiskInv(p)' /\ SweepInv(p)'
    BY PowerLossFacts, IdleInv
<1>8. \A p, q \in Procs : KeysDiffer(p, q)'
    BY PowerLossFacts DEF KeysDiffer, Installing
<1> QED BY <1>1, <1>2, <1>3, <1>5, <1>6, <1>7, <1>8 DEF IInv

-----------------------------------------------------------------------------
(* Theorems.                                                               *)

LEMMA InitInvariant == Init => IInv
<1> SUFFICES ASSUME Init PROVE IInv
    OBVIOUS
<1>1. TypeOK
    BY InitType
<1>2. DrawsAreReserved
    <2>1. SettingUp = {} /\ drawn = 0 /\ IsFiniteSet({}) /\ Cardinality({}) = 0
        BY FS_EmptySet DEF SettingUp, Init
    <2> QED BY <2>1, KeyAssumption DEF DrawsAreReserved
<1>3. NamesWereDrawn /\ KeyFileInv /\ Safety
    BY DEF Init, NamesWereDrawn, KeyFileInv, Safety, HeldKeyIsInstalled, AcknowledgedKeySurvives,
           AlreadyInitializedIsTrue
<1>4. ASSUME NEW p \in Procs PROVE CallInv(p) /\ OwnFileInv(p) /\ OnDiskInv(p) /\ SweepInv(p)
    BY DEF Init, CallInv, OwnFileInv, OnDiskInv, SweepInv, Installing
<1>5. \A p, q \in Procs : KeysDiffer(p, q)
    BY DEF Init, KeysDiffer, Installing
<1> QED BY <1>1, <1>2, <1>3, <1>4, <1>5 DEF IInv

LEMMA StepInvariant == IInv /\ [Next]_vars => IInv'
<1> SUFFICES ASSUME IInv, [Next]_vars PROVE IInv'
    OBVIOUS
<1>1. ASSUME NEW p \in Procs, Step(p) PROVE IInv'
    BY <1>1, TypeStep, DrawsStep, NamesStep, KeyFileInvStep, SafetyStep, CallStep, OwnFileStep,
       OnDiskStep, SweepStep, KeysStep DEF IInv
<1>2. CASE PowerLoss
    BY <1>2, PowerLossInv
<1>3. CASE UNCHANGED vars
    BY <1>3 DEF vars, IInv, TypeOK, DrawsAreReserved, SettingUp, NamesWereDrawn, KeyFileInv, Alive,
                Safety, HeldKeyIsInstalled, AcknowledgedKeySurvives, AlreadyInitializedIsTrue,
                CallInv, OwnFileInv, OnDiskInv, OnDisk, SweepInv, KeysDiffer, Installing
<1> QED BY <1>1, <1>2, <1>3 DEF Next, Step

\* The inductive invariant holds of every reachable state.
THEOREM Invariance == Spec => []IInv
BY InitInvariant, StepInvariant, PTL DEF Spec

\* Every variable has the shape the code gives it; a key is only ever sealed
\* under a passphrase that validation takes.
THEOREM TypeCorrect == Spec => []TypeOK
<1>1. IInv => TypeOK
    BY DEF IInv
<1> QED BY <1>1, Invariance, PTL

\* The key file is whole whenever there is one, after kills and power losses.
THEOREM KeyFileIsComplete == Spec => []KeyFileComplete
<1>1. IInv => KeyFileComplete
    BY DEF IInv, KeyFileInv, KeyFileComplete, Whole
<1> QED BY <1>1, Invariance, PTL

\* All processes that hold a key hold the one in the key file.
THEOREM OneKeyIsHeld == Spec => []HeldKeyIsInstalled
<1>1. IInv => HeldKeyIsInstalled
    BY DEF IInv, Safety
<1> QED BY <1>1, Invariance, PTL

\* A key whose setup reported success is never lost or replaced.
THEOREM AcknowledgedKeysSurvive == Spec => []AcknowledgedKeySurvives
<1>1. IInv => AcknowledgedKeySurvives
    BY DEF IInv, Safety
<1> QED BY <1>1, Invariance, PTL

\* Nobody is told that there is a key when there is only a temporary file.
THEOREM RefusalsAreTrue == Spec => []AlreadyInitializedIsTrue
<1>1. IInv => AlreadyInitializedIsTrue
    BY DEF IInv, Safety
<1> QED BY <1>1, Invariance, PTL

\* No sweep takes the temporary file of a process that is installing, although
\* it looks the process up before it unlinks and pids are reused.
THEOREM SweepsSpareInstallers == Spec => []SweepSparesInstallers
<1>1. IInv => SweepSparesInstallers
    BY DEF IInv, OnDiskInv, SweepSparesInstallers
<1> QED BY <1>1, Invariance, PTL

-----------------------------------------------------------------------------
(* The register: every step of KeyInstall is a step of KeyRegister, or     *)
(* leaves the register as it is.                                           *)

sealedBar == IF installed # NoFile /\ Whole(installed)
             THEN [key |-> installed.key, passphrase |-> installed.passphrase,
                   opens |-> Private(installed)]
             ELSE NoFile

pendingBar == [p \in Procs |-> pc[p] = "syncdir"]

SealedIsKeyFile ==
    /\ installed = NoFile => sealedBar = NoFile
    /\ installed # NoFile =>
         /\ sealedBar = [key |-> installed.key, passphrase |-> installed.passphrase,
                         opens |-> Private(installed)]
         /\ sealedBar # NoFile

LEMMA SealedFacts == IInv => SealedIsKeyFile
<1> SUFFICES ASSUME IInv PROVE SealedIsKeyFile
    OBVIOUS
<1>1. installed # NoFile => Whole(installed) /\ installed \in File
    BY DEF IInv, KeyFileInv, TypeOK, Whole
<1>2. installed # NoFile =>
        [key |-> installed.key, passphrase |-> installed.passphrase, opens |-> Private(installed)]
            \in [key : Draws, passphrase : Passphrases, opens : BOOLEAN]
    BY <1>1 DEF File, Private
<1> QED BY <1>1, <1>2, NoFileAssumption DEF SealedIsKeyFile, sealedBar

LEMMA PendingStep ==
    ASSUME TypeOK, NEW p \in Procs, Step(p)
    PROVE  pendingBar' = [pendingBar EXCEPT ![p] = (pc'[p] = "syncdir")]
<1>1. \A q \in Procs : q # p => pc'[q] = pc[q]
    BY OthersKeep
<1> QED BY <1>1, Zenon DEF pendingBar

LEMMA PendingSame ==
    ASSUME TypeOK, NEW p \in Procs, Step(p), pc[p] = "syncdir" <=> pc'[p] = "syncdir"
    PROVE  pendingBar' = pendingBar
<1>1. \A q \in Procs : pc[q] = "syncdir" <=> pc'[q] = "syncdir"
    BY OthersKeep
<1> QED BY <1>1 DEF pendingBar

LEMMA InitRefines == Init => Register!KeyInit
<1> SUFFICES ASSUME Init PROVE Register!KeyInit
    OBVIOUS
<1>1. sealedBar = NoFile
    BY DEF Init, sealedBar
<1>2. pendingBar = [p \in Procs |-> FALSE]
    BY DEF Init, pendingBar
<1> QED BY <1>1, <1>2 DEF Init, Register!KeyInit, sealedBar, pendingBar

LEMMA PublishRefines ==
    ASSUME IInv, SealedIsKeyFile, SealedIsKeyFile', NEW p \in Procs, Publish(p),
           installed' # installed
    PROVE  \E key \in Draws, passphrase \in Passphrases, opens \in BOOLEAN :
               Register!Publish(p, key, passphrase, opens)
<1>0. TypeOK /\ Step(p) /\ mine[p] # NoFile
    BY NoFileAssumption DEF IInv, Step, Progress, Publish, At, CallInv, OwnFileInv, Installing
<1>1. /\ installed = NoFile /\ installed' = mine[p] /\ durable' = FALSE /\ pc'[p] = "syncdir"
      /\ held' = held /\ acked' = acked
    BY <1>0 DEF Publish, GoTo, TypeOK
<1>2. /\ sealedBar = NoFile
      /\ sealedBar' = [key |-> mine[p].key, passphrase |-> mine[p].passphrase,
                       opens |-> Private(mine[p])]
    BY <1>0, <1>1 DEF SealedIsKeyFile, Private
<1>3. pendingBar' = [pendingBar EXCEPT ![p] = TRUE]
    BY <1>0, <1>1, PendingStep
<1>4. PICK key \in Draws, passphrase \in Passphrases, opens \in BOOLEAN :
        key = mine[p].key /\ passphrase = mine[p].passphrase /\ opens = Private(mine[p])
    BY DEF IInv, Publish, At, CallInv, OwnFileInv, Installing, File, Private
<1>5. Register!Publish(p, key, passphrase, opens)
    BY <1>1, <1>2, <1>3, <1>4 DEF Register!Publish, sealedBar, pendingBar
<1> QED BY <1>5

LEMMA SyncDirRefines ==
    ASSUME IInv, SealedIsKeyFile, NEW p \in Procs, SyncDir(p)
    PROVE  Register!Acknowledge(p)
<1>0. TypeOK /\ Step(p) /\ installed = mine[p] /\ mine[p] # NoFile
    BY NoFileAssumption DEF IInv, Step, Progress, SyncDir, At, CallInv, OwnFileInv, Installing,
                            KeyFileInv
<1>1. /\ sealedBar # NoFile /\ sealedBar.key = mine[p].key
      /\ sealedBar' = sealedBar
    BY <1>0 DEF SealedIsKeyFile, SyncDir, sealedBar, Whole, Private
<1>2. pendingBar[p]
    BY DEF SyncDir, At, pendingBar
<1>3. pendingBar' = [pendingBar EXCEPT ![p] = FALSE]
    <2>1. pc'[p] = "idle"
        BY <1>0 DEF SyncDir, Succeed, Finish, GoTo, TypeOK
    <2> QED BY <1>0, <2>1, PendingStep
<1>4. /\ durable' = TRUE /\ held' = [held EXCEPT ![p] = mine[p].key]
      /\ acked' = acked \cup {mine[p].key}
    BY DEF SyncDir, Succeed
<1> QED BY <1>1, <1>2, <1>3, <1>4 DEF Register!Acknowledge, sealedBar, pendingBar

LEMMA VerifyRefines ==
    ASSUME IInv, SealedIsKeyFile, NEW p \in Procs, Verify(p), held' # held
    PROVE  \E passphrase \in Passphrases : Register!Authenticate(p, passphrase)
<1>0. TypeOK /\ Step(p)
    BY DEF IInv, Step, Calls
<1>1. /\ installed # NoFile /\ installed.passphrase \in Passphrases /\ Private(installed)
      /\ held' = [held EXCEPT ![p] = installed.key]
    BY <1>0 DEF Verify, TypeOK, File
<1>2. /\ sealedBar # NoFile
      /\ sealedBar = [key |-> installed.key, passphrase |-> installed.passphrase,
                      opens |-> Private(installed)]
      /\ sealedBar' = sealedBar
    BY <1>1 DEF SealedIsKeyFile, Verify, disk, sealedBar, Whole, Private
<1>3. pendingBar' = pendingBar
    <2>1. pc[p] = "idle" /\ pc'[p] = "idle"
        BY <1>0 DEF Verify, At, Finish, GoTo, TypeOK
    <2> QED BY <1>0, <2>1, PendingSame
<1>4. durable' = durable /\ acked' = acked
    BY DEF Verify, disk
<1>5. Register!Authenticate(p, installed.passphrase)
    BY <1>1, <1>2, <1>3, <1>4 DEF Register!Authenticate, sealedBar, pendingBar
<1> QED BY <1>1, <1>5

LEMMA DropRefines ==
    ASSUME IInv, NEW p \in Procs, Lock(p) \/ Die(p)
    PROVE  Register!Drop(p)
<1>0. TypeOK /\ Step(p)
    BY DEF IInv, Step, Calls
<1>1. /\ installed' = installed /\ durable' = durable /\ acked' = acked
      /\ held' = [held EXCEPT ![p] = NoKey]
    BY DEF Lock, Die, disk
<1>2. pendingBar' = [pendingBar EXCEPT ![p] = FALSE]
    <2>1. pc'[p] = "idle"
        BY <1>0 DEF Lock, Die, Finish, At, GoTo, TypeOK
    <2> QED BY <1>0, <2>1, PendingStep
<1>3. sealedBar' = sealedBar
    BY <1>1 DEF sealedBar, Whole, Private
<1> QED BY <1>1, <1>2, <1>3 DEF Register!Drop, sealedBar, pendingBar

LEMMA SyncDirFailsRefines ==
    ASSUME IInv, NEW p \in Procs, SyncDirFails(p)
    PROVE  Register!Abandon(p)
<1>0. TypeOK /\ Step(p)
    BY DEF IInv, Step, Faults
<1>1. installed' = installed /\ durable' = durable /\ acked' = acked /\ held' = held
    BY DEF SyncDirFails, disk
<1>2. pendingBar[p] /\ pendingBar' = [pendingBar EXCEPT ![p] = FALSE]
    <2>1. pc[p] = "syncdir" /\ pc'[p] = "idle"
        BY <1>0 DEF SyncDirFails, Finish, At, GoTo, TypeOK
    <2> QED BY <1>0, <2>1, PendingStep DEF pendingBar
<1>3. sealedBar' = sealedBar
    BY <1>1 DEF sealedBar, Whole, Private
<1> QED BY <1>1, <1>2, <1>3 DEF Register!Abandon, sealedBar, pendingBar

LEMMA PowerLossRefines ==
    ASSUME IInv, SealedIsKeyFile', PowerLoss
    PROVE  Register!PowerLoss
<1>1. sealedBar' = sealedBar \/ (~ durable /\ sealedBar' = NoFile)
    BY PowerLossFacts DEF sealedBar, Whole, Private
<1>2. durable' = (sealedBar' # NoFile)
    <2>1. installed' # NoFile <=> sealedBar' # NoFile
        BY DEF SealedIsKeyFile
    <2> QED BY <2>1, PowerLossFacts
<1>3. pendingBar' = [p \in Procs |-> FALSE]
    BY PowerLossFacts DEF pendingBar
<1> QED BY <1>1, <1>2, <1>3, PowerLossFacts DEF Register!PowerLoss, PowerLoss, sealedBar, pendingBar

\* Whatever else a process does shows nothing of the register.
LEMMA OtherStutters ==
    ASSUME IInv, NEW p \in Procs, Step(p),
           ~ SyncDir(p), ~ Lock(p), ~ Die(p), ~ SyncDirFails(p),
           installed' = installed, held' = held
    PROVE  /\ sealedBar' = sealedBar /\ pendingBar' = pendingBar
           /\ durable' = durable /\ held' = held /\ acked' = acked
<1>0. TypeOK
    BY DEF IInv
<1>1. Publish(p) => \E status : FailInstall(p, status) /\ UNCHANGED <<durable, acked>>
    <2>1. Publish(p) => mine[p] # NoFile
        BY NoFileAssumption DEF IInv, Publish, At, CallInv, OwnFileInv, Installing
    <2> QED BY <2>1 DEF Publish
<1>2. durable' = durable /\ acked' = acked
    BY <1>1 DEF Step, Start, Calls, BeginSetup, Status, Verify, Progress, ListTemps, SkipLive,
       CondemnOrphan, UnlinkOrphan, AnswerStatus, RefuseSetup, DrawKey, CreateTemp, WriteTemp,
       SyncTemp, Faults, VerifyFails, SweepFails, InstallFails, disk
<1>3. pc[p] = "syncdir" <=> pc'[p] = "syncdir"
    <2>1. CASE Publish(p)
        BY <1>0, <1>1, <2>1 DEF Publish, FailInstall, Finish, GoTo, At, TypeOK
    <2>2. CASE ~ Publish(p)
        BY <1>0, <2>2 DEF Step, Start, Calls, BeginSetup, Status, Verify, Progress, ListTemps,
           SkipLive, CondemnOrphan, UnlinkOrphan, AnswerStatus, RefuseSetup, DrawKey, CreateTemp,
           WriteTemp, SyncTemp, Faults, VerifyFails, SweepFails, InstallFails, FailInstall, Finish, GoTo, At,
           Swept, TypeOK
    <2> QED BY <2>1, <2>2
<1>4. sealedBar' = sealedBar
    BY DEF sealedBar, Whole, Private
<1> QED BY <1>0, <1>2, <1>3, <1>4, PendingSame

LEMMA StepRefines ==
    ASSUME IInv, SealedIsKeyFile, SealedIsKeyFile', NEW p \in Procs, Step(p)
    PROVE  \/ Register!KeyNext
           \/ /\ sealedBar' = sealedBar /\ pendingBar' = pendingBar
              /\ durable' = durable /\ held' = held /\ acked' = acked
<1>1. CASE Publish(p) /\ installed' # installed
    BY <1>1, PublishRefines DEF Register!KeyNext
<1>2. CASE SyncDir(p)
    BY <1>2, SyncDirRefines DEF Register!KeyNext
<1>3. CASE Verify(p) /\ held' # held
    BY <1>3, VerifyRefines DEF Register!KeyNext
<1>4. CASE Lock(p) \/ Die(p)
    BY <1>4, DropRefines DEF Register!KeyNext
<1>5. CASE SyncDirFails(p)
    BY <1>5, SyncDirFailsRefines DEF Register!KeyNext
<1>6. ~ Publish(p) => installed' = installed
    BY KeyFileStep
<1>7. ~ Verify(p) /\ ~ SyncDir(p) /\ ~ Lock(p) /\ ~ Die(p) => held' = held
    BY DEF Step, Start, Calls, BeginSetup, Status, Progress, ListTemps, SkipLive, CondemnOrphan,
       UnlinkOrphan, AnswerStatus, RefuseSetup, DrawKey, CreateTemp, WriteTemp, SyncTemp, Publish,
       Faults, VerifyFails, SweepFails, InstallFails, SyncDirFails
<1> QED BY <1>1, <1>2, <1>3, <1>4, <1>5, <1>6, <1>7, OtherStutters

\* The rename, the sync and the sweep together implement a register that is
\* written once: a setup takes effect at its rename, is reported after its sync,
\* and only a power loss in between undoes it.
THEOREM Refinement == Spec => ImplementsKeyRegister
<1>1. IInv /\ SealedIsKeyFile /\ SealedIsKeyFile' /\ [Next]_vars
        => [Register!KeyNext]_(Register!keyVars)
    <2> SUFFICES ASSUME IInv, SealedIsKeyFile, SealedIsKeyFile', [Next]_vars
                 PROVE  [Register!KeyNext]_(Register!keyVars)
        OBVIOUS
    <2>1. ASSUME NEW p \in Procs, Step(p) PROVE [Register!KeyNext]_(Register!keyVars)
        BY <2>1, StepRefines DEF Register!keyVars, sealedBar, pendingBar
    <2>2. CASE PowerLoss
        BY <2>2, PowerLossRefines DEF Register!KeyNext
    <2>3. CASE UNCHANGED vars
        BY <2>3 DEF vars, Register!keyVars, Whole, Private
    <2> QED BY <2>1, <2>2, <2>3 DEF Next, Step
<1> QED BY <1>1, InitRefines, SealedFacts, Invariance, PTL
        DEF Spec, ImplementsKeyRegister, Register!KeySpec
=============================================================================
