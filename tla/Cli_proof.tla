------------------------------ MODULE Cli_proof ------------------------------
(***************************************************************************)
(* Theorems about Cli, for every number of commands, records, keys and     *)
(* revisions, and every set of environments and database URLs.             *)
(***************************************************************************)
EXTENDS Cli, WellFoundedInduction, TLAPS

-----------------------------------------------------------------------------
(* The inductive invariant.                                                *)

Views ==
    [id : Ids, payload : Keys \cup {NoInput}, revision : 0..MaxRevision, deleted : BOOLEAN]

Outcomes ==
    [status : {"none", "Ok", "NotFound", "Deleted", "AlreadyExists"} \cup Contacts!Failures,
     views : SUBSET Views]

\* The types TypeOK does not state, because the registers have them.
RegisterTypes ==
    /\ contact \in [Ids -> [revision : 0..MaxRevision, deleted : BOOLEAN,
                            payload : Keys \cup {NoInput}]]
    /\ call \in [Procs -> Requests \cup {NoCall}]
    /\ outcome \in [Procs -> Outcomes]
    /\ database \in [Procs -> Accepted \cup {NoDatabase}]

\* The key was drawn, and its directory is on the disk; it is durable once it was
\* acknowledged, or used.
KeyInv ==
    /\ sealed # NoSealed => sealed.key \in 1..drawn /\ app = "durable"
    /\ durable => sealed # NoSealed
    /\ sealed # NoSealed /\ sealed.key \in acked => durable

RowInv ==
    \A id \in Ids : contact[id].revision > 0 =>
        sealed # NoSealed /\ sealed.opens /\ durable /\ contact[id].payload = sealed.key

\* A command has made the directories it is past.
PlaceInv(p) ==
    /\ stage[p] \notin {"idle", "paths", "ancestors"} => base # "absent"
    /\ stage[p] \notin {"idle", "paths", "ancestors", "directory"} => app # "absent"
    /\ stage[p] \notin {"idle", "paths", "ancestors", "directory", "sync"} => app = "durable"

\* Whoever holds a key holds the one that is installed, and calls with it: one
\* that opened.
HoldInv(p) ==
    /\ held[p] # NoKey => sealed # NoSealed /\ held[p] = sealed.key
    /\ stage[p] \in {"fields", "call", "answer"} => held[p] # NoKey /\ sealed.opens
    /\ pending[p] => stage[p] = "setup"
    /\ stage[p] # "answer" => outcome[p] = Contacts!Unanswered
    /\ stage[p] = "answer" => call[p].op = Operation(p) /\ call[p].input = held[p]

\* The commands that may be at a stage.
CommandsAt(label) ==
    IF label = "status" THEN {"status"}
    ELSE IF label = "passphrase" THEN Commands \ {"status"}
    ELSE IF label = "setup" THEN {"setup"}
    ELSE IF label = "verify" THEN ContactCommands \cup {"verify"}
    ELSE IF label = "fields" THEN {"create", "update"}
    ELSE IF label \in {"call", "answer"} THEN ContactCommands
    ELSE Commands

\* What a command is for.
Purpose(p) ==
    IF command[p] = "setup" THEN "key"
    ELSE IF command[p] \in Mutations THEN "contact"
    ELSE "none"

\* A command has done nothing until its call is answered with Ok, or its key is
\* published; when it prints it has done what it was for.
EffectInv(p) ==
    /\ stage[p] # "idle" => command[p] \in CommandsAt(stage[p])
    /\ stage[p] \notin {"setup", "answer", "print"} => effect[p] = "none"
    /\ stage[p] = "setup" => effect[p] = IF pending[p] THEN "key" ELSE "none"
    /\ stage[p] = "answer" => effect[p] = IF outcome[p].status = "Ok" THEN Purpose(p) ELSE "none"
    /\ stage[p] = "print" => effect[p] = Purpose(p) /\ (command[p] = "setup" => durable)

IInv ==
    /\ TypeOK
    /\ RegisterTypes
    /\ KeyInv
    /\ RowInv
    /\ \A p \in Procs : PlaceInv(p) /\ HoldInv(p) /\ EffectInv(p)

-----------------------------------------------------------------------------
(* The database URL.                                                       *)

\* libpq takes the last parameter of a name, so that there has to be one.
LEMMA LeastNatural ==
    ASSUME NEW T, T \subseteq Nat, T # {}
    PROVE  \E x \in T : \A y \in T : x <= y
<1> DEFINE R == OpToRel(<, Nat)
<1>1. IsWellFoundedOn(R, Nat)
    BY NatLessThanWellFounded
<1>2. \A x, y \in Nat : x < y => <<x, y>> \in R
    BY DEF OpToRel
<1> HIDE DEF R
<1>3. PICK x \in T : \A y \in T : ~ (<<y, x>> \in R)
    BY <1>1, WFMin
<1>4. \A y \in T : ~ (y < x)
    BY <1>2, <1>3
<1> QED BY <1>4

LEMMA MaxIsMember ==
    ASSUME NEW n \in Nat, NEW S, S \subseteq 1..n, S # {}
    PROVE  Max(S) \in S
<1> DEFINE T == {n - x : x \in S}
<1>1. T \subseteq Nat /\ T # {}
    <2>1. \A x \in S : n - x \in Nat
        OBVIOUS
    <2> QED BY <2>1
<1>2. PICK t \in T : \A y \in T : t <= y
    BY <1>1, LeastNatural
<1>3. PICK x \in S : t = n - x
    BY <1>2
<1>4. \A y \in S : x >= y
    <2> TAKE y \in S
    <2>1. n - y \in T
        OBVIOUS
    <2>2. n - x <= n - y
        BY <1>2, <1>3, <2>1
    <2> QED BY <2>2
<1> QED BY <1>4 DEF Max

Local == {"localhost", "loopback", "socket"}

\* Whatever libpq picks of a URL that is accepted and that it reads the same way
\* was looked at.
LEMMA AcceptedIsLocal ==
    ASSUME NEW url \in Accepted, SameReading(url)
    PROVE  ContactedHosts(url) \subseteq Local
<1>1. UrlVerdict(url) = "Ok" /\ url.params \in Seq(Param)
    <2>1. PICK c \in Configurations : ResolveVerdict(c) = "Ok" /\ url = UrlOf(c)
        BY DEF Accepted, Refused
    <2>2. UrlVerdict(url) = "Ok"
        BY <2>1 DEF ResolveVerdict
    <2>3. url # BadUrl
        BY <2>2 DEF UrlVerdict
    <2>4. url \in Urls \ {NoUrl} \/ url = DefaultUrl
        BY <2>1 DEF UrlOf, Configurations
    <2>5. DefaultUrl.params \in Seq(Param)
        <3>1. [name |-> "host", hosts |-> <<"socket">>] \in Param
            BY DEF Param, Hosts
        <3> QED BY <3>1 DEF DefaultUrl
    <2>6. CASE url = DefaultUrl
        BY <2>2, <2>5, <2>6
    <2>7. CASE url \in Urls \ {NoUrl, BadUrl}
        BY <2>2, <2>7, CliAssumption DEF Url
    <2> QED BY <2>3, <2>4, <2>6, <2>7
<1>2. /\ url.authority # <<>> => LocalHosts(url.authority, FALSE)
      /\ \A i \in HostParams(url) : LocalHosts(url.params[i].hosts, url.params[i].name = "hostaddr")
    BY <1>1 DEF UrlVerdict
<1>3. ASSUME NEW hosts, NEW addressOnly, LocalHosts(hosts, addressOnly)
      PROVE  ToSet(hosts) \subseteq Local
    BY <1>3 DEF LocalHosts, ToSet, Local
<1>4. url.params \o url.fragment = url.params /\ ~ url.twoAts
    BY <1>1 DEF SameReading
<1>5. ASSUME NEW name \in {"host", "hostaddr"}, LastParam(url, name) # <<>>
      PROVE  ToSet(LastParam(url, name)) \subseteq Local
    <2> DEFINE named == {i \in DOMAIN url.params : url.params[i].name = name}
    <2>1. named # {} /\ LastParam(url, name) = url.params[Max(named)].hosts
        BY <1>4, <1>5 DEF LastParam
    <2>2. PICK n \in Nat : DOMAIN url.params = 1..n
        BY <1>1
    <2>3. Max(named) \in named
        BY <2>1, <2>2, MaxIsMember
    <2>4. Max(named) \in HostParams(url)
        BY <2>3 DEF HostParams
    <2> HIDE DEF named
    <2> QED BY <1>2, <1>3, <2>1, <2>4
<1>6. LastParam(url, "service") = <<>>
    BY <1>4 DEF LastParam, SameReading
<1>7. ToSet(url.authority) \subseteq Local
    <2>1. CASE url.authority = <<>>
        BY <2>1 DEF ToSet
    <2>2. CASE url.authority # <<>>
        BY <1>2, <1>3, <2>2
    <2> QED BY <2>1, <2>2
<1> QED BY <1>4, <1>5, <1>6, <1>7 DEF ContactedHosts

-----------------------------------------------------------------------------
(* What a step of one command changes.                                     *)

\* The steps that are about neither key nor contacts.
Quiet(p) ==
    \/ Launch(p) \/ ResolvePaths(p) \/ MakeAncestors(p) \/ MakeDirectory(p) \/ SyncParent(p)
    \/ DirectoryFails(p) \/ Configure(p) \/ ConfigureFails(p) \/ ReadPassphrase(p)
    \/ ReadPassphraseFails(p) \/ KeyFails(p) \/ Status(p) \/ ReadFields(p)

LEMMA QuietFrame ==
    ASSUME NEW p \in Procs, Quiet(p)
    PROVE  UNCHANGED <<sealed, durable, pending, held, acked, drawn, contact, call, outcome>>
BY DEF Quiet, Launch, ResolvePaths, MakeAncestors, MakeDirectory, SyncParent, DirectoryFails,
       Configure, ConfigureFails, ReadPassphrase, ReadPassphraseFails, KeyFails, Status, ReadFields,
       LeaveEarly, keyVars, contactVars

LEMMA KeyMoves ==
    ASSUME TypeOK, NEW p \in Procs, Step(p)
    PROVE  \/ UNCHANGED <<sealed, durable, pending, held, acked, drawn>>
           \/ SetUp(p) \/ FinishSetUp(p) \/ Verify(p) \/ Mutate(p)
           \/ Register!Drop(p) /\ drawn' = drawn /\ stage'[p] = "idle"
<1>1. CASE Quiet(p)
    BY <1>1, QuietFrame
<1>2. CASE SetUpFails(p) \/ ReadFieldsFails(p) \/ PrintAndExit(p) \/ Kill(p)
    BY <1>2 DEF SetUpFails, ReadFieldsFails, PrintAndExit, Kill, LeaveWithKey, Leave, Finish, TypeOK
<1>3. CASE Return(p)
    BY <1>3 DEF Return, Leave, Finish, keyVars, TypeOK
<1>4. CASE Invoke(p) \/ Observe(p)
    BY <1>4 DEF Invoke, Observe, keyVars
<1> QED BY <1>1, <1>2, <1>3, <1>4 DEF Step, Quiet

LEMMA ContactMoves ==
    ASSUME NEW p \in Procs, Step(p)
    PROVE  \/ UNCHANGED <<contact, call, outcome>>
           \/ Invoke(p) \/ Mutate(p) \/ Observe(p)
           \/ Contacts!Forget(p) /\ (Return(p) \/ Kill(p))
<1>1. CASE Quiet(p)
    BY <1>1, QuietFrame
<1>2. CASE SetUp(p) \/ FinishSetUp(p) \/ Verify(p)
    BY <1>2 DEF SetUp, FinishSetUp, Verify, contactVars
<1>3. CASE SetUpFails(p) \/ ReadFieldsFails(p) \/ PrintAndExit(p) \/ Kill(p) \/ Return(p)
    BY <1>3 DEF SetUpFails, ReadFieldsFails, PrintAndExit, Kill, Return, LeaveWithKey, contactVars
<1> QED BY <1>1, <1>2, <1>3 DEF Step, Quiet

LEMMA DirMoves ==
    ASSUME NEW p \in Procs, Step(p)
    PROVE  \/ UNCHANGED <<base, app>>
           \/ MakeAncestors(p) \/ MakeDirectory(p) \/ SyncParent(p)
<1>1. CASE Quiet(p)
    BY <1>1 DEF Quiet, Launch, ResolvePaths, DirectoryFails, Configure, ConfigureFails,
                ReadPassphrase, ReadPassphraseFails, KeyFails, Status, ReadFields, dirVars
<1>2. CASE SetUp(p) \/ FinishSetUp(p) \/ Verify(p) \/ SetUpFails(p) \/ ReadFieldsFails(p)
    BY <1>2 DEF SetUp, FinishSetUp, Verify, SetUpFails, ReadFieldsFails, dirVars
<1>3. CASE PrintAndExit(p) \/ Kill(p) \/ Return(p) \/ Invoke(p) \/ Observe(p) \/ Mutate(p)
    BY <1>3 DEF PrintAndExit, Kill, Return, Invoke, Observe, Mutate, dirVars
<1> QED BY <1>1, <1>2, <1>3 DEF Step, Quiet

\* A mutation is one of the register's, on a record with revisions left.
MutationShape(p) ==
    /\ call[p].id \in Ids /\ contact[call[p].id].revision < MaxRevision
    /\ outcome[p] = Contacts!Unanswered
    /\ call[p].op \in Mutations
    /\ \E next \in [revision : {contact[call[p].id].revision + 1}, deleted : BOOLEAN,
                    payload : {call[p].input, contact[call[p].id].payload}] :
         /\ call[p].op # "delete" => call[p].input \in Keys /\ next.payload = call[p].input
         /\ call[p].op = "delete" =>
              contact[call[p].id].revision > 0 /\ next.payload = contact[call[p].id].payload
         /\ contact' = [contact EXCEPT ![call[p].id] = next]
         /\ outcome' = [outcome EXCEPT ![p] =
                          [status |-> "Ok", views |-> {Contacts!RegView(call[p].id, next)}]]
    /\ call' = call

LEMMA MutationFacts ==
    ASSUME NEW p \in Procs, Mutate(p)
    PROVE  MutationShape(p)
<1> USE DEF Contacts!PendingOn, Contacts!Pending, Contacts!Becomes, Contacts!Answer, Contacts!Live,
            MutationShape, Mutations
<1>1. CASE Contacts!RegCreate(p)
    BY <1>1 DEF Mutate, Contacts!RegCreate
<1>2. CASE Contacts!RegUpdate(p)
    BY <1>2 DEF Mutate, Contacts!RegUpdate
<1>3. CASE Contacts!RegDelete(p)
    BY <1>3 DEF Mutate, Contacts!RegDelete
<1> QED BY <1>1, <1>2, <1>3 DEF Mutate

\* A command's state is its own.
LEMMA OthersKeep ==
    ASSUME IInv, NEW p \in Procs, Step(p), NEW q \in Procs, q # p
    PROVE  /\ command'[q] = command[q] /\ stage'[q] = stage[q] /\ database'[q] = database[q]
           /\ effect'[q] = effect[q] /\ exit'[q] = exit[q]
           /\ pending'[q] = pending[q] /\ held'[q] = held[q]
           /\ call'[q] = call[q] /\ outcome'[q] = outcome[q]
<1> USE DEF IInv, TypeOK, RegisterTypes
<1>1. /\ command'[q] = command[q] /\ stage'[q] = stage[q] /\ database'[q] = database[q]
      /\ effect'[q] = effect[q] /\ exit'[q] = exit[q]
    <2> USE DEF GoTo, Leave, Finish
    <2>1. CASE Quiet(p)
        BY <2>1 DEF Quiet, Launch, ResolvePaths, MakeAncestors, MakeDirectory, SyncParent, DirectoryFails,
                    Configure, ConfigureFails, ReadPassphrase, ReadPassphraseFails, KeyFails, Status,
                    ReadFields, LeaveEarly
    <2>2. CASE SetUp(p) \/ FinishSetUp(p) \/ Verify(p) \/ SetUpFails(p) \/ ReadFieldsFails(p)
        BY <2>2 DEF SetUp, FinishSetUp, Verify, SetUpFails, ReadFieldsFails, LeaveWithKey
    <2>3. CASE PrintAndExit(p) \/ Kill(p) \/ Return(p)
        BY <2>3 DEF PrintAndExit, Kill, Return, LeaveWithKey
    <2>4. CASE Invoke(p) \/ Observe(p) \/ Mutate(p)
        BY <2>4 DEF Invoke, Observe, Mutate, procVars
    <2> QED BY <2>1, <2>2, <2>3, <2>4 DEF Step, Quiet
<1>2. pending'[q] = pending[q] /\ held'[q] = held[q]
    <2>1. CASE SetUp(p) \/ FinishSetUp(p) \/ Verify(p) \/ Mutate(p)
        BY <2>1 DEF SetUp, FinishSetUp, Verify, Mutate, Register!Publish, Register!Acknowledge,
                    Register!Authenticate
    <2> QED BY <2>1, KeyMoves DEF Register!Drop
<1>3. call'[q] = call[q] /\ outcome'[q] = outcome[q]
    <2>1. CASE Mutate(p)
        BY <2>1, MutationFacts DEF MutationShape
    <2>2. CASE Observe(p)
        BY <2>2 DEF Observe, Contacts!RegGet, Contacts!RegList, Contacts!RegRefuse, Contacts!RegFail,
                    Contacts!Answer
    <2> QED BY <2>1, <2>2, ContactMoves DEF Invoke, Contacts!Begin, Contacts!Forget
<1> QED BY <1>1, <1>2, <1>3

-----------------------------------------------------------------------------
(* The key.                                                                *)

\* What SetUp publishes is drawn for it.
LEMMA PublishFacts ==
    ASSUME NEW p \in Procs, SetUp(p)
    PROVE  /\ stage[p] = "setup" /\ drawn < MaxKeys /\ drawn' = drawn + 1
           /\ sealed = NoSealed /\ sealed' \in [key : {drawn + 1}, passphrase : Passphrases, opens : BOOLEAN]
           /\ durable' = FALSE /\ pending' = [pending EXCEPT ![p] = TRUE]
           /\ held' = held /\ acked' = acked /\ contact' = contact /\ call' = call
           /\ outcome' = outcome /\ stage' = stage /\ command' = command
           /\ effect' = [effect EXCEPT ![p] = "key"]
BY DEF SetUp, At, Register!Publish, contactVars

LEMMA KeyStays ==
    ASSUME IInv, NEW p \in Procs, Step(p)
    PROVE  /\ sealed # NoSealed => sealed' = sealed
           /\ durable => durable'
           /\ acked \subseteq acked'
<1>1. TypeOK /\ KeyInv
    BY DEF IInv
<1>2. CASE SetUp(p)
    BY <1>1, <1>2, PublishFacts DEF KeyInv
<1>3. CASE FinishSetUp(p) \/ Verify(p) \/ Mutate(p)
    BY <1>1, <1>3 DEF FinishSetUp, Verify, Mutate, Register!Acknowledge, Register!Authenticate, KeyInv
<1> QED BY <1>1, <1>2, <1>3, KeyMoves DEF Register!Drop

LEMMA KeyTypes ==
    ASSUME IInv, NEW p \in Procs, Step(p)
    PROVE  /\ sealed' \in [key : Keys, passphrase : Passphrases, opens : BOOLEAN] \cup {NoSealed}
           /\ durable' \in BOOLEAN
           /\ pending' \in [Procs -> BOOLEAN]
           /\ held' \in [Procs -> Keys \cup {NoKey}]
           /\ acked' \subseteq 1..drawn'
           /\ drawn' \in 0..MaxKeys
<1>1. TypeOK /\ KeyInv /\ MaxKeys \in Nat
    BY CliAssumption DEF IInv
<1> USE <1>1 DEF TypeOK
<1>2. CASE SetUp(p)
    <2>1. drawn \in Nat
        BY <1>1
    <2>2. drawn < MaxKeys /\ drawn' = drawn + 1
        BY <1>2, PublishFacts
    <2>3. drawn + 1 \in Keys /\ drawn' \in 0..MaxKeys /\ 1..drawn \subseteq 1..drawn'
        BY <1>1, <2>1, <2>2 DEF Keys
    <2> QED BY <1>2, <2>3, PublishFacts
<1>3. CASE FinishSetUp(p)
    BY <1>3 DEF FinishSetUp, Register!Acknowledge, KeyInv
<1>4. CASE Verify(p)
    BY <1>4 DEF Verify, Register!Authenticate
<1>5. CASE Mutate(p)
    BY <1>5 DEF Mutate
<1> QED BY <1>2, <1>3, <1>4, <1>5, KeyMoves DEF Register!Drop

\* Only the command that draws the key makes it the installed one, and it has the
\* directory's entry synced by then.
LEMMA KeyStep ==
    ASSUME IInv, NEW p \in Procs, Step(p)
    PROVE  KeyInv'
<1>1. TypeOK /\ KeyInv /\ PlaceInv(p)
    BY DEF IInv
<1>2. app = "durable" => app' = "durable"
    BY DirMoves DEF MakeAncestors, MakeDirectory, SyncParent
<1>3. CASE SetUp(p)
    <2>1. app = "durable"
        BY <1>1, <1>3, PublishFacts DEF PlaceInv
    <2>2. drawn \in Nat /\ acked \subseteq 1..drawn
        BY <1>1 DEF TypeOK
    <2>3. sealed'.key = drawn + 1 /\ drawn' = drawn + 1 /\ durable' = FALSE /\ acked' = acked
        BY <1>3, PublishFacts
    <2>4. sealed'.key \in 1..drawn' /\ sealed'.key \notin acked'
        BY <2>2, <2>3
    <2> QED BY <1>2, <2>1, <2>3, <2>4 DEF KeyInv
<1>4. CASE FinishSetUp(p)
    BY <1>1, <1>2, <1>4 DEF FinishSetUp, Register!Acknowledge, KeyInv
<1>5. CASE Verify(p) \/ Mutate(p)
    BY <1>1, <1>2, <1>5 DEF Verify, Mutate, Register!Authenticate, KeyInv
<1> QED BY <1>1, <1>2, <1>3, <1>4, <1>5, KeyMoves DEF Register!Drop, KeyInv

\* A key is held by those who opened it, and they are past that.
LEMMA HeldStep ==
    ASSUME IInv, NEW p \in Procs, Step(p), held'[p] # NoKey
    PROVE  sealed' # NoSealed /\ held'[p] = sealed'.key
<1>1. TypeOK /\ HoldInv(p)
    BY DEF IInv
<1>2. CASE FinishSetUp(p) \/ Verify(p)
    BY <1>1, <1>2 DEF FinishSetUp, Verify, Register!Acknowledge, Register!Authenticate, TypeOK
<1>3. CASE Register!Drop(p)
    BY <1>1, <1>3 DEF Register!Drop, TypeOK
<1>4. CASE held' = held
    BY <1>1, <1>4, KeyStays DEF HoldInv
<1> QED BY <1>1, <1>2, <1>3, <1>4, KeyMoves, PublishFacts DEF Mutate

-----------------------------------------------------------------------------
(* The rows.                                                               *)

LEMMA ContactTypes ==
    ASSUME IInv, NEW p \in Procs, Step(p)
    PROVE  contact' \in [Ids -> [revision : 0..MaxRevision, deleted : BOOLEAN,
                                payload : Keys \cup {NoInput}]]
<1>1. RegisterTypes /\ MaxRevision \in Nat
    BY CliAssumption DEF IInv
<1>2. CASE Mutate(p)
    <2> DEFINE id == call[p].id
    <2>1. PICK next \in [revision : {contact[id].revision + 1}, deleted : BOOLEAN,
                         payload : {call[p].input, contact[id].payload}] :
              /\ call[p].op # "delete" => call[p].input \in Keys /\ next.payload = call[p].input
              /\ call[p].op = "delete" => next.payload = contact[id].payload
              /\ contact' = [contact EXCEPT ![id] = next]
        BY <1>2, MutationFacts DEF MutationShape
    <2>2. id \in Ids /\ contact[id].revision < MaxRevision
        BY <1>2, MutationFacts DEF MutationShape
    <2>3. contact[id].revision \in 0..MaxRevision /\ contact[id].payload \in Keys \cup {NoInput}
        BY <1>1, <2>2 DEF RegisterTypes
    <2>4. next.revision \in 0..MaxRevision /\ next.payload \in Keys \cup {NoInput}
        BY <1>1, <2>1, <2>2, <2>3
    <2>5. next \in [revision : 0..MaxRevision, deleted : BOOLEAN, payload : Keys \cup {NoInput}]
        BY <2>1, <2>4
    <2> QED BY <1>1, <2>1, <2>5 DEF RegisterTypes
<1>3. CASE contact' = contact
    BY <1>1, <1>3 DEF RegisterTypes
<1>4. CASE Observe(p)
    BY <1>3, <1>4 DEF Observe, Contacts!RegGet, Contacts!RegList, Contacts!RegRefuse, Contacts!RegFail
<1> QED BY <1>2, <1>3, <1>4, ContactMoves DEF Invoke, Contacts!Begin, Contacts!Forget

\* A mutation seals with the key its command holds, which is the installed one,
\* and leaves it durable.
LEMMA RowStep ==
    ASSUME IInv, NEW p \in Procs, Step(p)
    PROVE  RowInv'
<1>1. TypeOK /\ RegisterTypes /\ RowInv /\ HoldInv(p)
    BY DEF IInv
<1>2. CASE Mutate(p)
    <2> DEFINE id == call[p].id
    <2>1. PICK next :
              /\ call[p].op # "delete" => call[p].input \in Keys /\ next.payload = call[p].input
              /\ call[p].op = "delete" =>
                   contact[id].revision > 0 /\ next.payload = contact[id].payload
              /\ contact' = [contact EXCEPT ![id] = next]
        BY <1>2, MutationFacts DEF MutationShape
    <2>2. id \in Ids /\ stage[p] = "answer"
        BY <1>2, MutationFacts DEF MutationShape, Mutate, At
    <2>3. held[p] # NoKey /\ sealed # NoSealed /\ sealed.opens /\ call[p].input = sealed.key
        BY <1>1, <2>2 DEF HoldInv
    <2>4. sealed' = sealed /\ durable'
        BY <1>2, <2>3 DEF Mutate
    <2>5. next.payload = sealed.key
        BY <1>1, <2>1, <2>2, <2>3 DEF RowInv
    <2>6. \A i \in Ids : contact'[i] = IF i = id THEN next ELSE contact[i]
        BY <1>1, <2>1 DEF RegisterTypes
    <2> QED BY <1>1, <2>3, <2>4, <2>5, <2>6 DEF RowInv
<1>3. CASE contact' = contact
    BY <1>1, <1>3, KeyStays DEF RowInv
<1>4. CASE Observe(p)
    BY <1>3, <1>4 DEF Observe, Contacts!RegGet, Contacts!RegList, Contacts!RegRefuse, Contacts!RegFail
<1> QED BY <1>2, <1>3, <1>4, ContactMoves DEF Invoke, Contacts!Begin, Contacts!Forget

-----------------------------------------------------------------------------
(* The commands.                                                           *)

LEMMA PlacesStay ==
    ASSUME NEW p \in Procs, Step(p)
    PROVE  /\ base # "absent" => base' # "absent"
           /\ app # "absent" => app' # "absent"
           /\ app = "durable" => app' = "durable"
BY DirMoves DEF MakeAncestors, MakeDirectory, SyncParent

\* Where a step takes its command, and from where.
Transition(p) ==
    \/ stage'[p] = "idle"
    \/ stage[p] = "idle" /\ stage'[p] = "paths"
    \/ stage[p] = "paths" /\ stage'[p] = "ancestors"
    \/ stage[p] = "ancestors" /\ stage'[p] = "directory" /\ base' # "absent"
    \/ stage[p] = "directory" /\ stage'[p] = "sync" /\ app' # "absent"
    \/ stage[p] = "sync" /\ stage'[p] = "configure" /\ app' = "durable"
    \/ stage[p] = "configure" /\ stage'[p] \in {"status", "passphrase"}
    \/ stage[p] = "passphrase" /\ stage'[p] \in {"setup", "verify"}
    \/ stage[p] \in {"setup", "verify", "status", "answer"} /\ stage'[p] = "print"
    \/ stage[p] = "verify" /\ stage'[p] \in {"fields", "call"}
    \/ stage[p] = "fields" /\ stage'[p] = "call"
    \/ stage[p] = "call" /\ stage'[p] = "answer"
    \/ stage[p] \in {"setup", "answer"} /\ stage'[p] = stage[p]

LEMMA StageMoves ==
    ASSUME TypeOK, NEW p \in Procs, Step(p)
    PROVE  Transition(p) /\ stage' \in [Procs -> Stages]
<1>1. stage \in [Procs -> Stages]
    BY DEF TypeOK
<1> USE <1>1 DEF At, GoTo, Leave, Finish, LeaveEarly, LeaveWithKey, Transition, Stages
<1>2. CASE Launch(p) \/ ResolvePaths(p) \/ DirectoryFails(p)
    BY <1>2 DEF Launch, ResolvePaths, DirectoryFails
<1>3. CASE MakeAncestors(p) \/ MakeDirectory(p) \/ SyncParent(p)
    BY <1>3 DEF MakeAncestors, MakeDirectory, SyncParent
<1>4. CASE Configure(p) \/ ConfigureFails(p)
    BY <1>4 DEF Configure, ConfigureFails
<1>5. CASE ReadPassphrase(p) \/ ReadPassphraseFails(p) \/ KeyFails(p) \/ Status(p)
    BY <1>5 DEF ReadPassphrase, ReadPassphraseFails, KeyFails, Status
<1>6. CASE SetUp(p) \/ FinishSetUp(p) \/ SetUpFails(p)
    BY <1>6 DEF SetUp, FinishSetUp, SetUpFails
<1>7. CASE Verify(p) \/ ReadFields(p) \/ ReadFieldsFails(p)
    BY <1>7 DEF Verify, AfterVerify, ReadFields, ReadFieldsFails
<1>8. CASE Invoke(p) \/ Mutate(p) \/ Observe(p)
    BY <1>8 DEF Invoke, Mutate, Observe, procVars
<1>9. CASE Return(p) \/ PrintAndExit(p) \/ Kill(p)
    BY <1>9 DEF Return, PrintAndExit, Kill
<1> QED BY <1>2, <1>3, <1>4, <1>5, <1>6, <1>7, <1>8, <1>9 DEF Step

LEMMA PlaceStep ==
    ASSUME IInv, NEW p \in Procs, Step(p), NEW q \in Procs
    PROVE  PlaceInv(q)'
<1>1. TypeOK /\ PlaceInv(q)
    BY DEF IInv
<1>2. CASE q # p
    <2>1. stage'[q] = stage[q]
        BY <1>2, OthersKeep
    <2> QED BY <1>1, <2>1, PlacesStay DEF PlaceInv
<1>3. CASE q = p
    <2>1. Transition(p)
        BY <1>1, StageMoves
    <2> QED BY <1>1, <1>3, <2>1, PlacesStay DEF PlaceInv, Transition
<1> QED BY <1>2, <1>3

-----------------------------------------------------------------------------
(* The calls.                                                              *)

\* Only an operation that was for it answers Ok, and with views of the contacts.
LEMMA ObserveFacts ==
    ASSUME IInv, NEW p \in Procs, Observe(p)
    PROVE  /\ call' = call /\ contact' = contact
           /\ outcome[p] = Contacts!Unanswered
           /\ outcome'[p].status = "Ok" => call[p].op \in {"get", "list"}
           /\ outcome' \in [Procs -> Outcomes]
<1>1. RegisterTypes
    BY DEF IInv
<1>2. ASSUME NEW id \in Ids
      PROVE  Contacts!RegView(id, contact[id]) \in Views
    BY <1>1, <1>2 DEF RegisterTypes, Contacts!RegView, Views
<1>3. ASSUME NEW status \in {"Ok", "NotFound", "Deleted", "AlreadyExists"} \cup Contacts!Failures,
             NEW views \in SUBSET Views, Contacts!Answer(p, status, views)
      PROVE  outcome'[p].status = status /\ outcome' \in [Procs -> Outcomes]
    <2>1. [status |-> status, views |-> views] \in Outcomes
        BY DEF Outcomes
    <2> QED BY <1>1, <1>3, <2>1 DEF RegisterTypes, Contacts!Answer
<1> USE DEF Contacts!PendingOn, Contacts!Pending
<1>4. CASE Contacts!RegGet(p)
    <2>1. call[p].id \in Ids /\ call[p].op = "get"
        BY <1>4 DEF Contacts!RegGet
    <2>2. {Contacts!RegView(call[p].id, contact[call[p].id])} \in SUBSET Views
        BY <2>1, <1>2
    <2> QED BY <1>3, <1>4, <2>1, <2>2 DEF Contacts!RegGet
<1>5. CASE Contacts!RegList(p)
    <2>1. {Contacts!RegView(id, contact[id]) : id \in {i \in Ids : Contacts!Live(i)}} \in SUBSET Views
        BY <1>2
    <2> QED BY <1>3, <1>5, <2>1 DEF Contacts!RegList
<1>6. CASE Contacts!RegRefuse(p)
    <2>1. PICK status \in {"NotFound", "Deleted", "AlreadyExists"} : Contacts!Answer(p, status, {})
        BY <1>6 DEF Contacts!RegRefuse
    <2>2. {} \in SUBSET Views
        OBVIOUS
    <2> QED BY <1>3, <1>6, <2>1, <2>2 DEF Contacts!RegRefuse
<1>7. CASE Contacts!RegFail(p)
    <2>1. PICK status \in Contacts!Failures : Contacts!Answer(p, status, {})
        BY <1>7 DEF Contacts!RegFail
    <2>2. {} \in SUBSET Views /\ status # "Ok"
        BY DEF Contacts!Failures
    <2> QED BY <1>3, <1>7, <2>1, <2>2 DEF Contacts!RegFail
<1> QED BY <1>4, <1>5, <1>6, <1>7 DEF Observe

LEMMA MutationAnswers ==
    ASSUME IInv, NEW p \in Procs, Mutate(p)
    PROVE  outcome'[p].status = "Ok" /\ outcome' \in [Procs -> Outcomes]
<1>1. RegisterTypes /\ MutationShape(p) /\ Step(p)
    BY MutationFacts DEF IInv, Step
<1> DEFINE id == call[p].id
<1>2. PICK next :
          /\ contact' = [contact EXCEPT ![id] = next]
          /\ outcome' = [outcome EXCEPT ![p] =
                           [status |-> "Ok", views |-> {Contacts!RegView(id, next)}]]
    BY <1>1 DEF MutationShape
<1>3. id \in Ids
    BY <1>1 DEF MutationShape
<1>4. next = contact'[id]
    BY <1>1, <1>2, <1>3 DEF RegisterTypes
<1>5. next \in [revision : 0..MaxRevision, deleted : BOOLEAN, payload : Keys \cup {NoInput}]
    BY <1>1, <1>3, <1>4, ContactTypes
<1>6. Contacts!RegView(id, next) \in Views
    BY <1>3, <1>5 DEF Contacts!RegView, Views
<1>7. [status |-> "Ok", views |-> {Contacts!RegView(id, next)}] \in Outcomes
    BY <1>6 DEF Outcomes
<1> QED BY <1>1, <1>2, <1>7 DEF RegisterTypes

\* A command's call is the one it was started for.
LEMMA InvokeFacts ==
    ASSUME IInv, NEW p \in Procs, Invoke(p)
    PROVE  /\ call'[p] \in Requests /\ call' \in [Procs -> Requests \cup {NoCall}]
           /\ call'[p].op = Operation(p) /\ call'[p].input = held[p]
           /\ contact' = contact /\ outcome' = outcome
           /\ stage[p] = "call" /\ stage'[p] = "answer" /\ call'[p] # NoCall
<1>1. RegisterTypes /\ TypeOK
    BY DEF IInv
<1>2. PICK request \in Requests : call' = [call EXCEPT ![p] = request]
    BY DEF Invoke, Contacts!Begin
<1>3. call'[p] = request /\ request # NoCall
    BY <1>1, <1>2, NoCallAssumption DEF RegisterTypes
<1> QED BY <1>1, <1>2, <1>3 DEF RegisterTypes, TypeOK, Invoke, Contacts!Begin, At, GoTo

LEMMA CallStep ==
    ASSUME IInv, NEW p \in Procs, Step(p)
    PROVE  call' \in [Procs -> Requests \cup {NoCall}] /\ outcome' \in [Procs -> Outcomes]
<1>1. RegisterTypes
    BY DEF IInv
<1>2. CASE Mutate(p)
    BY <1>1, <1>2, MutationFacts, MutationAnswers DEF MutationShape, RegisterTypes
<1>3. CASE Observe(p)
    BY <1>1, <1>3, ObserveFacts DEF RegisterTypes
<1>4. CASE Invoke(p)
    BY <1>1, <1>4, InvokeFacts DEF RegisterTypes
<1>5. CASE Contacts!Forget(p)
    <2>1. Contacts!Unanswered \in Outcomes
        BY DEF Contacts!Unanswered, Outcomes
    <2> QED BY <1>1, <1>5, <2>1 DEF Contacts!Forget, RegisterTypes
<1> QED BY <1>1, <1>2, <1>3, <1>4, <1>5, ContactMoves DEF RegisterTypes

\* A command has a call just while it waits for the answer.
LEMMA CallPlace ==
    ASSUME IInv, NEW p \in Procs, Step(p)
    PROVE  /\ call'[p] # NoCall <=> stage'[p] = "answer"
           /\ stage'[p] # "answer" => outcome'[p] = Contacts!Unanswered
<1>1. TypeOK /\ RegisterTypes /\ HoldInv(p)
    BY DEF IInv
<1> USE <1>1 DEF TypeOK, RegisterTypes, HoldInv, At, GoTo, Leave, Finish, LeaveEarly, LeaveWithKey
<1>2. CASE Quiet(p)
    <2>1. stage[p] # "answer" /\ stage'[p] # "answer"
        <3>1. CASE Launch(p) \/ ResolvePaths(p) \/ DirectoryFails(p)
            BY <3>1 DEF Launch, ResolvePaths, DirectoryFails
        <3>2. CASE MakeAncestors(p) \/ MakeDirectory(p) \/ SyncParent(p)
            BY <3>2 DEF MakeAncestors, MakeDirectory, SyncParent
        <3>3. CASE Configure(p) \/ ConfigureFails(p)
            BY <3>3 DEF Configure, ConfigureFails
        <3>4. CASE ReadPassphrase(p) \/ ReadPassphraseFails(p)
            BY <3>4 DEF ReadPassphrase, ReadPassphraseFails
        <3>5. CASE KeyFails(p) \/ Status(p) \/ ReadFields(p)
            BY <3>5 DEF KeyFails, Status, ReadFields
        <3> QED BY <1>2, <3>1, <3>2, <3>3, <3>4, <3>5 DEF Quiet
    <2> QED BY <1>2, <2>1, QuietFrame
<1>3. CASE SetUp(p) \/ FinishSetUp(p) \/ SetUpFails(p)
    BY <1>3 DEF SetUp, FinishSetUp, SetUpFails, contactVars
<1>4. CASE Verify(p)
    BY <1>4 DEF Verify, AfterVerify, contactVars
<1>5. CASE ReadFieldsFails(p) \/ PrintAndExit(p)
    BY <1>5 DEF ReadFieldsFails, PrintAndExit, contactVars
<1>6. CASE Invoke(p)
    BY <1>6, InvokeFacts
<1>7. CASE Mutate(p) \/ Observe(p)
    BY <1>7, MutationFacts, ObserveFacts DEF Mutate, MutationShape, Observe, procVars
<1>8. CASE Return(p)
    BY <1>8 DEF Return, Contacts!Forget
<1>9. CASE Kill(p)
    BY <1>9 DEF Kill, Contacts!Forget, contactVars
<1> QED BY <1>2, <1>3, <1>4, <1>5, <1>6, <1>7, <1>8, <1>9 DEF Step, Quiet

LEMMA HoldStep ==
    ASSUME IInv, NEW p \in Procs, Step(p)
    PROVE  HoldInv(p)'
<1>1. TypeOK /\ RegisterTypes /\ HoldInv(p) /\ Transition(p)
    BY StageMoves DEF IInv
<1>2. held'[p] # NoKey => sealed' # NoSealed /\ held'[p] = sealed'.key
    BY HeldStep
<1>3. stage'[p] # "answer" => outcome'[p] = Contacts!Unanswered
    BY CallPlace
<1>4. /\ stage'[p] \in {"fields", "call", "answer"} => held'[p] # NoKey
      /\ pending'[p] => stage'[p] = "setup"
    <2> USE <1>1 DEF HoldInv, TypeOK, At, GoTo, Leave, Finish, LeaveWithKey
    <2>1. CASE Quiet(p)
        <3>1. stage[p] # "setup"
            BY <2>1 DEF Quiet, Launch, ResolvePaths, MakeAncestors, MakeDirectory, SyncParent,
                        DirectoryFails, Configure, ConfigureFails, ReadPassphrase,
                        ReadPassphraseFails, KeyFails, Status, ReadFields
        <3>2. stage'[p] \in {"fields", "call", "answer"} => stage[p] = "fields"
            <4>1. CASE ReadFields(p)
                BY <4>1 DEF ReadFields
            <4>2. CASE KeyFails(p) \/ Status(p)
                BY <4>2 DEF KeyFails, Status, LeaveEarly
            <4>3. stage[p] \notin {"fields", "call", "answer"} \/ ReadFields(p)
                BY <2>1 DEF Quiet, Launch, ResolvePaths, MakeAncestors, MakeDirectory, SyncParent,
                            DirectoryFails, Configure, ConfigureFails, ReadPassphrase,
                            ReadPassphraseFails, KeyFails, Status
            <4>4. stage[p] # "verify" \/ KeyFails(p)
                BY <2>1 DEF Quiet, Launch, ResolvePaths, MakeAncestors, MakeDirectory, SyncParent,
                            DirectoryFails, Configure, ConfigureFails, ReadPassphrase,
                            ReadPassphraseFails, Status, ReadFields
            <4> QED BY <4>1, <4>2, <4>3, <4>4 DEF Transition
        <3> QED BY <2>1, <3>1, <3>2, QuietFrame
    <2>2. CASE SetUp(p)
        BY <2>2, PublishFacts
    <2>3. CASE FinishSetUp(p)
        BY <2>3 DEF FinishSetUp, Register!Acknowledge
    <2>4. CASE Verify(p)
        <3>1. held'[p] = sealed.key /\ sealed # NoSealed /\ pending' = pending
            BY <2>4 DEF Verify, Register!Authenticate
        <3>2. sealed.key # NoKey
            BY <3>1, CliAssumption DEF Keys
        <3> QED BY <2>4, <3>1, <3>2 DEF Verify
    <2>5. CASE SetUpFails(p) \/ ReadFieldsFails(p) \/ PrintAndExit(p) \/ Kill(p)
        BY <2>5 DEF SetUpFails, ReadFieldsFails, PrintAndExit, Kill, Register!Drop
    <2>6. CASE Invoke(p) \/ Mutate(p) \/ Observe(p)
        BY <2>6 DEF Invoke, Mutate, Observe, keyVars, procVars
    <2>7. CASE Return(p)
        BY <2>7 DEF Return, Register!Drop, keyVars
    <2> QED BY <2>1, <2>2, <2>3, <2>4, <2>5, <2>6, <2>7 DEF Step, Quiet
<1>5. stage'[p] = "answer" => call'[p].op = Operation(p)' /\ call'[p].input = held'[p]
    <2>1. CASE Invoke(p)
        BY <1>1, <2>1, InvokeFacts DEF Invoke, GoTo, Operation, keyVars
    <2>2. CASE Mutate(p) \/ Observe(p)
        BY <1>1, <2>2, MutationFacts, ObserveFacts
           DEF Mutate, MutationShape, Observe, procVars, keyVars, HoldInv, Operation, At
    <2>3. stage'[p] = "answer" => Invoke(p) \/ Mutate(p) \/ Observe(p)
        <3>1. stage'[p] = "answer" => call'[p] # NoCall
            BY CallPlace
        <3>2. Contacts!Forget(p) => call'[p] = NoCall
            BY <1>1 DEF Contacts!Forget, RegisterTypes
        <3>3. stage'[p] = "answer" /\ call' = call => stage[p] = "answer"
            BY <1>1, <3>1 DEF TypeOK
        <3>4. stage[p] = "answer" =>
                Invoke(p) \/ Mutate(p) \/ Observe(p) \/ Return(p) \/ Kill(p)
            BY DEF Step, Launch, ResolvePaths, MakeAncestors, MakeDirectory, SyncParent,
                   DirectoryFails, Configure, ConfigureFails, ReadPassphrase, ReadPassphraseFails,
                   SetUp, FinishSetUp, SetUpFails, Verify, KeyFails, Status, ReadFields,
                   ReadFieldsFails, PrintAndExit, At
        <3>5. Return(p) \/ Kill(p) => stage'[p] # "answer"
            BY <1>1 DEF Return, Kill, GoTo, Leave, Finish, TypeOK
        <3> QED BY <3>1, <3>2, <3>3, <3>4, <3>5, ContactMoves
    <2> QED BY <2>1, <2>2, <2>3
<1>6. stage'[p] \in {"fields", "call", "answer"} => sealed'.opens
    <2> SUFFICES ASSUME stage'[p] \in {"fields", "call", "answer"}
                 PROVE  sealed'.opens
        OBVIOUS
    <2>1. CASE stage[p] = "verify"
        <3>1. Verify(p) \/ KeyFails(p) \/ Kill(p)
            BY <2>1 DEF Step, Launch, ResolvePaths, MakeAncestors, MakeDirectory, SyncParent,
                   DirectoryFails, Configure, ConfigureFails, ReadPassphrase, ReadPassphraseFails,
                   SetUp, FinishSetUp, SetUpFails, Status, ReadFields, ReadFieldsFails, Invoke,
                   Mutate, Observe, Return, PrintAndExit, At
        <3>2. ~ (KeyFails(p) \/ Kill(p))
            BY <1>1 DEF KeyFails, Kill, LeaveEarly, Finish, Leave, TypeOK
        <3> QED BY <3>1, <3>2 DEF Verify, Register!Authenticate
    <2>2. CASE stage[p] \in {"fields", "call", "answer"}
        <3>1. sealed # NoSealed /\ sealed.opens
            BY <1>1, <2>2 DEF HoldInv
        <3> QED BY <3>1, KeyStays
    <2> QED BY <1>1, <2>1, <2>2 DEF Transition
<1> QED BY <1>2, <1>3, <1>4, <1>5, <1>6 DEF HoldInv

\* Whether a command has done its work, it knows from its own call and its own
\* setup.
LEMMA EffectStep ==
    ASSUME IInv, NEW p \in Procs, Step(p)
    PROVE  EffectInv(p)'
<1>1. TypeOK /\ RegisterTypes /\ HoldInv(p) /\ EffectInv(p)
    BY DEF IInv
<1> USE <1>1 DEF TypeOK, EffectInv, CommandsAt, Purpose, Commands, ContactCommands, Mutations, At, GoTo
<1>2. CASE stage'[p] = "idle"
    <2>1. effect'[p] = "none"
        <3>1. CASE Return(p) \/ PrintAndExit(p) \/ Kill(p) \/ SetUpFails(p) \/ ReadFieldsFails(p)
            BY <1>2, <3>1 DEF Return, PrintAndExit, Kill, SetUpFails, ReadFieldsFails, LeaveWithKey,
                              Leave, Finish
        <3>2. CASE ResolvePaths(p) \/ DirectoryFails(p) \/ ConfigureFails(p) \/ KeyFails(p)
                     \/ ReadPassphraseFails(p)
            BY <1>2, <3>2 DEF ResolvePaths, DirectoryFails, ConfigureFails, KeyFails,
                              ReadPassphraseFails, LeaveEarly, Leave, Finish
        <3>3. CASE Launch(p) \/ MakeAncestors(p) \/ MakeDirectory(p) \/ SyncParent(p) \/ Configure(p)
                     \/ ReadPassphrase(p) \/ Status(p) \/ ReadFields(p)
            BY <1>2, <3>3 DEF Launch, MakeAncestors, MakeDirectory, SyncParent, Configure,
                              ReadPassphrase, Status, ReadFields
        <3>4. CASE FinishSetUp(p) \/ Verify(p) \/ Invoke(p)
            BY <1>2, <3>4 DEF FinishSetUp, Verify, AfterVerify, Invoke
        <3>5. CASE SetUp(p) \/ Mutate(p) \/ Observe(p)
            BY <1>2, <3>5 DEF SetUp, Mutate, Observe, procVars
        <3> QED BY <3>1, <3>2, <3>3, <3>4, <3>5 DEF Step
    <2> QED BY <1>2, <2>1
<1>3. CASE Launch(p)
    BY <1>3 DEF Launch
<1>4. CASE stage'[p] # "idle" /\ ResolvePaths(p)
    BY <1>4 DEF ResolvePaths, LeaveEarly, Leave, Finish
<1>5. CASE MakeAncestors(p) \/ MakeDirectory(p) \/ SyncParent(p)
    BY <1>5 DEF MakeAncestors, MakeDirectory, SyncParent
<1>6. CASE Configure(p)
    BY <1>6 DEF Configure
<1>7. CASE ReadPassphrase(p)
    <2>1. ~ pending[p] /\ pending' = pending
        BY <1>7 DEF ReadPassphrase, keyVars, HoldInv
    <2> QED BY <1>7, <2>1 DEF ReadPassphrase
<1>8. CASE SetUp(p)
    BY <1>8, PublishFacts
<1>9. CASE FinishSetUp(p)
    BY <1>9 DEF FinishSetUp, Register!Acknowledge
<1>10. CASE Verify(p)
    BY <1>10 DEF Verify, AfterVerify
<1>11. CASE Status(p) \/ ReadFields(p)
    BY <1>11 DEF Status, ReadFields
<1>12. CASE Invoke(p)
    <2>1. outcome'[p].status # "Ok"
        BY <1>12, InvokeFacts DEF HoldInv, Contacts!Unanswered
    <2> QED BY <1>12, <2>1 DEF Invoke
<1>13. CASE Mutate(p)
    <2>1. stage[p] = "answer" /\ stage' = stage /\ command' = command /\ effect'[p] = "contact"
        BY <1>13 DEF Mutate
    <2>2. call[p].op \in {"create", "update", "delete"} /\ outcome'[p].status = "Ok"
        BY <1>13, MutationFacts, MutationAnswers DEF MutationShape
    <2>3. command[p] \in {"create", "update", "delete"}
        BY <2>1, <2>2 DEF HoldInv, Operation
    <2> QED BY <2>1, <2>2, <2>3
<1>14. CASE Observe(p)
    <2>1. stage[p] = "answer" /\ stage' = stage /\ command' = command /\ effect' = effect
        BY <1>14 DEF Observe, procVars
    <2>2. effect[p] = "none"
        BY <1>14, <2>1, ObserveFacts DEF Contacts!Unanswered
    <2>3. outcome'[p].status = "Ok" => command[p] \in {"read", "list"}
        BY <1>14, <2>1, ObserveFacts DEF HoldInv, Operation
    <2> QED BY <2>1, <2>2, <2>3
<1>15. CASE stage'[p] # "idle" /\ Return(p)
    BY <1>15 DEF Return, Leave, Finish
<1>16. stage'[p] # "idle" =>
         ~ (PrintAndExit(p) \/ Kill(p) \/ SetUpFails(p) \/ ReadFieldsFails(p) \/ DirectoryFails(p)
              \/ ConfigureFails(p) \/ KeyFails(p) \/ ReadPassphraseFails(p))
    BY DEF PrintAndExit, Kill, SetUpFails, ReadFieldsFails, DirectoryFails, ConfigureFails, KeyFails,
           ReadPassphraseFails, LeaveWithKey, LeaveEarly, Leave, Finish
<1> QED BY <1>2, <1>3, <1>4, <1>5, <1>6, <1>7, <1>8, <1>9, <1>10, <1>11, <1>12, <1>13, <1>14, <1>15,
           <1>16 DEF Step

\* What another does leaves a command's key, call and effect what they are.
LEMMA OthersStep ==
    ASSUME IInv, NEW p \in Procs, Step(p), NEW q \in Procs, q # p
    PROVE  HoldInv(q)' /\ EffectInv(q)'
<1>1. HoldInv(q) /\ EffectInv(q)
    BY DEF IInv
<1>2. /\ command'[q] = command[q] /\ stage'[q] = stage[q] /\ effect'[q] = effect[q]
      /\ pending'[q] = pending[q] /\ held'[q] = held[q]
      /\ call'[q] = call[q] /\ outcome'[q] = outcome[q]
    BY OthersKeep
<1>3. HoldInv(q)'
    BY <1>1, <1>2, KeyStays DEF HoldInv, Operation
<1>4. EffectInv(q)'
    BY <1>1, <1>2, KeyStays DEF EffectInv, Purpose
<1> QED BY <1>3, <1>4

LEMMA CommandTypes ==
    ASSUME IInv, NEW p \in Procs, Step(p)
    PROVE  /\ command' \in [Procs -> Commands \cup {"none"}]
           /\ effect' \in [Procs -> {"none", "key", "contact"}]
           /\ exit' \in [Procs -> Codes]
           /\ database' \in [Procs -> Accepted \cup {NoDatabase}]
<1>1. TypeOK /\ RegisterTypes
    BY DEF IInv
<1> USE <1>1 DEF TypeOK, RegisterTypes, GoTo, Leave, Finish, LeaveEarly, LeaveWithKey, Codes
<1>2. CASE Launch(p) \/ ResolvePaths(p) \/ DirectoryFails(p)
    BY <1>2 DEF Launch, ResolvePaths, DirectoryFails
<1>3. CASE MakeAncestors(p) \/ MakeDirectory(p) \/ SyncParent(p)
    BY <1>3 DEF MakeAncestors, MakeDirectory, SyncParent
<1>4. CASE Configure(p) \/ ConfigureFails(p)
    BY <1>4 DEF Configure, ConfigureFails
<1>5. CASE ReadPassphrase(p) \/ ReadPassphraseFails(p) \/ KeyFails(p) \/ Status(p)
    BY <1>5 DEF ReadPassphrase, ReadPassphraseFails, KeyFails, Status
<1>6. CASE SetUp(p) \/ FinishSetUp(p) \/ SetUpFails(p)
    BY <1>6 DEF SetUp, FinishSetUp, SetUpFails
<1>7. CASE Verify(p) \/ ReadFields(p) \/ ReadFieldsFails(p)
    BY <1>7 DEF Verify, ReadFields, ReadFieldsFails
<1>8. CASE Invoke(p) \/ Mutate(p) \/ Observe(p)
    BY <1>8 DEF Invoke, Mutate, Observe, procVars
<1>9. CASE Return(p) \/ PrintAndExit(p) \/ Kill(p)
    BY <1>9 DEF Return, PrintAndExit, Kill
<1> QED BY <1>2, <1>3, <1>4, <1>5, <1>6, <1>7, <1>8, <1>9 DEF Step

\* No command ends, or goes back, with a key in hand.
LEMMA HeldPlace ==
    ASSUME IInv, NEW p \in Procs, Step(p), held'[p] # NoKey
    PROVE  stage'[p] \in {"fields", "call", "answer", "print"}
<1>1. TypeOK
    BY DEF IInv
<1> USE <1>1 DEF TypeOK, At, GoTo
<1>2. CASE Register!Drop(p)
    BY <1>2 DEF Register!Drop
<1>3. CASE FinishSetUp(p) \/ Verify(p)
    BY <1>3 DEF FinishSetUp, Verify, AfterVerify
<1>4. CASE held' = held
    <2>1. stage[p] \in {"fields", "call", "answer", "print"}
        BY <1>4
    <2>2. CASE ReadFields(p) \/ Invoke(p) \/ Mutate(p) \/ Observe(p)
        BY <2>1, <2>2 DEF ReadFields, Invoke, Mutate, Observe, procVars
    <2>3. CASE Return(p)
        BY <1>2, <2>3 DEF Return
    <2>4. CASE ReadFieldsFails(p) \/ PrintAndExit(p) \/ Kill(p)
        BY <1>2, <2>4 DEF ReadFieldsFails, PrintAndExit, Kill, LeaveWithKey
    <2> QED BY <2>1, <2>2, <2>3, <2>4
            DEF Step, Launch, ResolvePaths, MakeAncestors, MakeDirectory, SyncParent, DirectoryFails,
                Configure, ConfigureFails, ReadPassphrase, ReadPassphraseFails, SetUp, FinishSetUp,
                SetUpFails, Verify, KeyFails, Status
<1> QED BY <1>2, <1>3, <1>4, KeyMoves, PublishFacts DEF Mutate

LEMMA DirTypes ==
    ASSUME IInv, NEW p \in Procs, Step(p)
    PROVE  /\ base' \in {"absent", "cached", "durable"}
           /\ app' \in {"absent", "cached", "durable"}
           /\ app' # "absent" => base' # "absent"
<1>1. TypeOK /\ PlaceInv(p)
    BY DEF IInv
<1> QED BY <1>1, DirMoves
        DEF MakeAncestors, MakeDirectory, SyncParent, TypeOK, PlaceInv, At

LEMMA TypeStep ==
    ASSUME IInv, NEW p \in Procs, Step(p)
    PROVE  TypeOK' /\ RegisterTypes'
<1>1. TypeOK /\ KeyInv'
    BY KeyStep DEF IInv
<1>2. RegisterTypes'
    BY ContactTypes, CallStep, CommandTypes DEF RegisterTypes
<1>3. ASSUME NEW q \in Procs
      PROVE  /\ held'[q] # NoKey => stage'[q] \in {"fields", "call", "answer", "print"}
             /\ call'[q] # NoCall <=> stage'[q] = "answer"
    <2>1. CASE q = p
        BY <2>1, HeldPlace, CallPlace
    <2>2. CASE q # p
        BY <1>1, <2>2, OthersKeep DEF TypeOK
    <2> QED BY <2>1, <2>2
<1>4. stage' \in [Procs -> Stages]
    BY <1>1, StageMoves
<1>5. \A id \in Ids : contact'[id].revision \in 0..MaxRevision
    BY <1>2 DEF RegisterTypes
<1>6. sealed' # NoSealed => app' # "absent"
    BY <1>1 DEF KeyInv
<1> QED BY <1>2, <1>3, <1>4, <1>5, <1>6, KeyTypes, CommandTypes, DirTypes DEF TypeOK

-----------------------------------------------------------------------------
(* The power, and the whole.                                               *)

\* A power loss ends every command, and leaves of the key and the rows what is
\* durable, or takes the directory with both.
LEMMA PowerLossStep ==
    ASSUME IInv, PowerLoss
    PROVE  IInv'
<1>1. TypeOK /\ RegisterTypes /\ KeyInv /\ RowInv
    BY DEF IInv
<1>2. ASSUME NEW p \in Procs
      PROVE  /\ call'[p] = NoCall /\ outcome'[p] = Contacts!Unanswered /\ command'[p] = "none"
             /\ stage'[p] = "idle" /\ database'[p] = NoDatabase /\ effect'[p] = "none"
             /\ held'[p] = NoKey /\ pending'[p] = FALSE
    BY DEF PowerLoss, Register!PowerLoss
<1>3. /\ held' \in [Procs -> Keys \cup {NoKey}] /\ pending' \in [Procs -> BOOLEAN]
      /\ call' \in [Procs -> Requests \cup {NoCall}]
      /\ command' \in [Procs -> Commands \cup {"none"}]
      /\ stage' \in [Procs -> Stages]
      /\ database' \in [Procs -> Accepted \cup {NoDatabase}]
      /\ effect' \in [Procs -> {"none", "key", "contact"}]
      /\ exit' \in [Procs -> Codes]
    BY DEF PowerLoss, Register!PowerLoss, Stages, Codes
<1>4. outcome' \in [Procs -> Outcomes]
    BY DEF PowerLoss, Outcomes, Contacts!Unanswered
<1>5. /\ base' \in {"absent", "cached", "durable"} /\ app' \in {"absent", "cached", "durable"}
      /\ app' # "absent" => base' # "absent"
      /\ drawn' = drawn /\ acked' = acked
    BY <1>1 DEF PowerLoss, Register!PowerLoss, TypeOK
<1>6. KeyInv' /\ (sealed' = sealed \/ sealed' = NoSealed) /\ durable' \in BOOLEAN
    BY <1>1 DEF PowerLoss, Register!PowerLoss, KeyInv, TypeOK
<1>7. \/ contact' = contact /\ (durable => sealed' = sealed /\ durable')
      \/ contact' = [id \in Ids |-> Contacts!Unborn]
    BY <1>1 DEF PowerLoss, Register!PowerLoss, KeyInv
<1>8. contact' \in [Ids -> [revision : 0..MaxRevision, deleted : BOOLEAN,
                            payload : Keys \cup {NoInput}]] /\ RowInv'
    <2>1. CASE contact' = contact
        BY <1>1, <1>7, <2>1 DEF RegisterTypes, RowInv, Contacts!Unborn
    <2>2. CASE contact' = [id \in Ids |-> Contacts!Unborn]
        <3>1. 0 \in 0..MaxRevision
            BY CliAssumption
        <3> QED BY <2>2, <3>1 DEF RowInv, Contacts!Unborn
    <2> QED BY <1>7, <2>1, <2>2
<1>9. RegisterTypes'
    BY <1>3, <1>4, <1>8 DEF RegisterTypes
<1>10. TypeOK'
    <2>1. \A id \in Ids : contact'[id].revision \in 0..MaxRevision
        BY <1>8
    <2>2. sealed' # NoSealed => app' # "absent"
        BY <1>6 DEF KeyInv
    <2> QED BY <1>1, <1>2, <1>3, <1>5, <1>6, <2>1, <2>2 DEF TypeOK
<1>11. ASSUME NEW p \in Procs
       PROVE  PlaceInv(p)' /\ HoldInv(p)' /\ EffectInv(p)'
    BY <1>2 DEF PlaceInv, HoldInv, EffectInv, Contacts!Unanswered
<1> QED BY <1>6, <1>8, <1>9, <1>10, <1>11 DEF IInv

LEMMA InitInvariant == Init => IInv
<1> SUFFICES ASSUME Init PROVE IInv
    OBVIOUS
<1> USE CliAssumption DEF Init, Register!KeyInit, Contacts!RegInit
<1>1. TypeOK
    <2>1. drawn \in 0..MaxKeys /\ acked \subseteq 1..drawn
        OBVIOUS
    <2>2. \A id \in Ids : contact[id].revision \in 0..MaxRevision
        BY DEF Contacts!Unborn
    <2>3. /\ command \in [Procs -> Commands \cup {"none"}] /\ stage \in [Procs -> Stages]
          /\ effect \in [Procs -> {"none", "key", "contact"}] /\ exit \in [Procs -> Codes]
        BY DEF Stages, Codes
    <2>4. pending \in [Procs -> BOOLEAN] /\ held \in [Procs -> Keys \cup {NoKey}]
        OBVIOUS
    <2> QED BY <2>1, <2>2, <2>3, <2>4 DEF TypeOK
<1>2. RegisterTypes
    BY DEF RegisterTypes, Contacts!Unborn, Contacts!Unanswered, Outcomes
<1>3. KeyInv /\ RowInv
    BY DEF KeyInv, RowInv, Contacts!Unborn
<1>4. ASSUME NEW p \in Procs
      PROVE  PlaceInv(p) /\ HoldInv(p) /\ EffectInv(p)
    BY DEF PlaceInv, HoldInv, EffectInv
<1> QED BY <1>1, <1>2, <1>3, <1>4 DEF IInv

LEMMA StepInvariant == IInv /\ [Next]_vars => IInv'
<1> SUFFICES ASSUME IInv, [Next]_vars PROVE IInv'
    OBVIOUS
<1>1. ASSUME NEW p \in Procs, Step(p)
      PROVE  IInv'
    <2>1. TypeOK' /\ RegisterTypes' /\ KeyInv' /\ RowInv'
        BY <1>1, TypeStep, KeyStep, RowStep
    <2>2. ASSUME NEW q \in Procs
          PROVE  PlaceInv(q)' /\ HoldInv(q)' /\ EffectInv(q)'
        <3>1. PlaceInv(q)'
            BY <1>1, PlaceStep
        <3>2. CASE q = p
            BY <1>1, <3>2, HoldStep, EffectStep, <3>1
        <3>3. CASE q # p
            BY <1>1, <3>1, <3>3, OthersStep
        <3> QED BY <3>2, <3>3
    <2> QED BY <2>1, <2>2 DEF IInv
<1>2. CASE UNCHANGED vars
    BY <1>2 DEF IInv, TypeOK, RegisterTypes, KeyInv, RowInv, PlaceInv, HoldInv, EffectInv, Purpose,
                Operation, vars, dirVars, keyVars, contactVars, procVars
<1> QED BY <1>1, <1>2, PowerLossStep DEF Next

\* Of every command, however many run at once and wherever they are killed and
\* the power goes: what it holds, calls and has changed is what its stage in
\* cli.rs says, and the directories and the key are behind it.
THEOREM Invariance == Spec => []IInv
<1> QED BY InitInvariant, StepInvariant, PTL DEF Spec

\* The state keeps its types: a command holds a key and waits for an answer at
\* the stages of run_contact that need them and no other, and there is a key file
\* only in a directory.
THEOREM TypeCorrect == Spec => []TypeOK
<1>1. IInv => TypeOK
    BY DEF IInv
<1> QED BY <1>1, Invariance, PTL

\* Every row that any mutation of contact.rs committed was sealed under the key
\* that keyring.rs has installed now.
THEOREM RowsAreOpen == Spec => []RowsOpen
<1>1. IInv => RowsOpen
    BY DEF IInv, RowInv, RowsOpen
<1> QED BY <1>1, Invariance, PTL

\* A URL that config.rs lets a command have, and that libpq reads as config.rs
\* does, takes libpq to this machine alone, whatever its authority and its
\* parameters say, however many there are and in whatever order.
THEOREM PlainDatabasesAreLocal == Spec => []PlainUrlsAreLocal
<1>1. IInv => PlainUrlsAreLocal
    <2> SUFFICES ASSUME IInv, NEW p \in Procs, database[p] # NoDatabase, SameReading(database[p])
                 PROVE  ContactedHosts(database[p]) \subseteq {"localhost", "loopback", "socket"}
        BY DEF PlainUrlsAreLocal, OnlyLocal
    <2>1. database[p] \in Accepted
        BY DEF IInv, RegisterTypes
    <2> QED BY <2>1, AcceptedIsLocal DEF Local
<1> QED BY <1>1, Invariance, PTL

\* A command's exit code other than that of a panic tells whoever reads it what
\* was changed, however other commands interleave: main.rs takes it from the error
\* that ended the command.
THEOREM ExitsTellOutcomes == Spec => ExitTellsOutcome
<1> DEFINE Tells(p) ==
        exit'[p] # exit[p] /\ exit'[p] # "none" =>
          LET code == ExitCode(exit'[p])
              purpose == IF command[p] = "setup" THEN "key"
                         ELSE IF command[p] \in Mutations THEN "contact"
                         ELSE "none"
          IN  /\ code = 0 => effect[p] = purpose
              /\ code = 0 /\ command[p] = "setup" => durable
              /\ code \in {74, 78} => effect[p] = "none"
              /\ code = 65 => effect[p] # "contact" /\ (effect[p] = "key" => command[p] = "setup")
<1>1. ASSUME IInv, [Next]_vars, NEW p \in Procs
      PROVE  Tells(p)
    <2>1. TypeOK /\ EffectInv(p)
        BY <1>1 DEF IInv
    <2>2. CASE Step(p)
        <3> USE <2>1 DEF TypeOK, EffectInv, At, ExitCode
        <3>1. CASE exit'[p] = "config_invalid" /\ (ResolvePaths(p) \/ DirectoryFails(p) \/ ConfigureFails(p))
            BY <3>1 DEF ResolvePaths, DirectoryFails, ConfigureFails
        <3>2. CASE exit'[p] = "passphrase_input_failed" /\ (ReadPassphraseFails(p) \/ ReadFieldsFails(p))
            BY <3>2 DEF ReadPassphraseFails, ReadFieldsFails
        <3>3. CASE exit'[p] = "key_lifecycle_failed" /\ (KeyFails(p) \/ SetUpFails(p))
            BY <3>3 DEF KeyFails, SetUpFails, CommandsAt
        <3>4. CASE exit'[p] = "contact_operation_failed" /\ Return(p) /\ outcome[p].status # "Ok"
            BY <3>4 DEF Return
        <3>5. CASE exit'[p] = "ok" /\ PrintAndExit(p)
            BY <3>5 DEF PrintAndExit, Purpose
        <3>6. CASE exit'[p] = "panic"
            BY <3>6
        <3>7. \/ exit'[p] = exit[p] \/ exit'[p] \in {"none", "panic"}
              \/ exit'[p] = "config_invalid" /\ (ResolvePaths(p) \/ DirectoryFails(p) \/ ConfigureFails(p))
              \/ exit'[p] = "passphrase_input_failed" /\ (ReadPassphraseFails(p) \/ ReadFieldsFails(p))
              \/ exit'[p] = "key_lifecycle_failed" /\ (KeyFails(p) \/ SetUpFails(p))
              \/ exit'[p] = "contact_operation_failed" /\ Return(p) /\ outcome[p].status # "Ok"
              \/ exit'[p] = "ok" /\ PrintAndExit(p)
            <4> USE DEF GoTo, Leave, Finish, LeaveEarly, LeaveWithKey
            <4>1. CASE ResolvePaths(p) \/ DirectoryFails(p) \/ ConfigureFails(p)
                BY <4>1 DEF ResolvePaths, DirectoryFails, ConfigureFails
            <4>2. CASE ReadPassphraseFails(p) \/ ReadFieldsFails(p) \/ KeyFails(p) \/ SetUpFails(p)
                BY <4>2 DEF ReadPassphraseFails, ReadFieldsFails, KeyFails, SetUpFails
            <4>3. CASE Return(p)
                BY <4>3 DEF Return
            <4>4. CASE PrintAndExit(p) \/ Kill(p) \/ Launch(p)
                BY <4>4 DEF PrintAndExit, Kill, Launch
            <4>5. CASE MakeAncestors(p) \/ MakeDirectory(p) \/ SyncParent(p) \/ Configure(p)
                         \/ ReadPassphrase(p) \/ Status(p) \/ ReadFields(p)
                BY <4>5 DEF MakeAncestors, MakeDirectory, SyncParent, Configure, ReadPassphrase,
                            Status, ReadFields
            <4>6. CASE SetUp(p) \/ FinishSetUp(p) \/ Verify(p) \/ Invoke(p) \/ Mutate(p) \/ Observe(p)
                BY <4>6 DEF SetUp, FinishSetUp, Verify, Invoke, Mutate, Observe, procVars
            <4> QED BY <2>2, <4>1, <4>2, <4>3, <4>4, <4>5, <4>6 DEF Step
        <3> QED BY <3>1, <3>2, <3>3, <3>4, <3>5, <3>6, <3>7
    <2>3. CASE \E q \in Procs : q # p /\ Step(q)
        <3>1. exit'[p] = exit[p]
            BY <1>1, <2>3, OthersKeep
        <3> QED BY <3>1
    <2>4. CASE PowerLoss
        BY <2>4 DEF PowerLoss
    <2>5. CASE UNCHANGED vars
        BY <2>5 DEF vars, procVars
    <2> QED BY <1>1, <2>2, <2>3, <2>4, <2>5 DEF Next
<1>2. IInv /\ [Next]_vars => [\A p \in Procs : Tells(p)]_vars
    BY <1>1
<1> QED BY <1>2, Invariance, PTL DEF Spec, ExitTellsOutcome

\* What was acknowledged, a key or a revision, is there until an ancestor of the
\* data directory goes that private-file creation made and never synced.
THEOREM LossNeedsAnAncestor == Spec => LostOnlyWithAnAncestor
<1> DEFINE Keeps ==
        ~ (base = "cached" /\ base' = "absent") =>
          /\ Acknowledged.keys \subseteq Acknowledged'.keys
          /\ \A id \in Ids : Acknowledged.revisions[id] <= Acknowledged'.revisions[id]
<1>1. ASSUME sealed' = sealed, acked \subseteq acked'
      PROVE  Acknowledged.keys \subseteq Acknowledged'.keys
    BY <1>1 DEF Acknowledged
<1>2. ASSUME \A id \in Ids : contact[id].revision <= contact'[id].revision
      PROVE  \A id \in Ids : Acknowledged.revisions[id] <= Acknowledged'.revisions[id]
    BY <1>2 DEF Acknowledged
<1>3. ASSUME sealed = NoSealed \/ sealed.key \notin acked
      PROVE  Acknowledged.keys = {}
    BY <1>3 DEF Acknowledged
<1>4. ASSUME IInv, NEW p \in Procs, Step(p)
      PROVE  Keeps
    <2>1. RegisterTypes
        BY <1>4 DEF IInv
    <2>2. Acknowledged.keys \subseteq Acknowledged'.keys
        BY <1>1, <1>3, <1>4, KeyStays
    <2>3. \A id \in Ids : contact[id].revision <= contact'[id].revision
        <3>1. CASE Mutate(p)
            BY <2>1, <3>1, MutationFacts DEF MutationShape, RegisterTypes
        <3>2. CASE contact' = contact
            BY <2>1, <3>2 DEF RegisterTypes
        <3> QED BY <1>4, <3>1, <3>2, ContactMoves, ObserveFacts, InvokeFacts DEF Contacts!Forget
    <2> QED BY <1>2, <2>2, <2>3
<1>5. ASSUME IInv, PowerLoss
      PROVE  Keeps
    <2>1. TypeOK /\ RegisterTypes /\ KeyInv /\ RowInv
        BY <1>5 DEF IInv
    <2>2. CASE UNCHANGED contact /\ Register!PowerLoss
        <3>1. Acknowledged.keys \subseteq Acknowledged'.keys
            <4>1. CASE sealed' = sealed
                BY <1>1, <2>2, <4>1 DEF Register!PowerLoss
            <4>2. CASE ~ durable
                BY <1>3, <2>1, <4>2 DEF KeyInv
            <4> QED BY <2>2, <4>1, <4>2 DEF Register!PowerLoss
        <3>2. \A id \in Ids : contact[id].revision <= contact'[id].revision
            BY <2>1, <2>2 DEF RegisterTypes
        <3> QED BY <1>2, <3>1, <3>2
    <2>3. CASE base' = "durable" /\ app # "durable" /\ contact' = [id \in Ids |-> Contacts!Unborn]
        <3>1. sealed = NoSealed
            BY <2>1, <2>3 DEF KeyInv
        <3>2. \A id \in Ids : contact[id].revision <= contact'[id].revision
            BY <2>1, <2>3, <3>1 DEF RegisterTypes, RowInv, Contacts!Unborn
        <3> QED BY <1>2, <1>3, <3>1, <3>2
    <2> QED BY <1>5, <2>2, <2>3 DEF PowerLoss
<1>6. IInv /\ [Next]_vars => [Keeps]_vars
    BY <1>4, <1>5 DEF Next
<1> QED BY <1>6, Invariance, PTL DEF Spec, LostOnlyWithAnAncestor
=============================================================================
