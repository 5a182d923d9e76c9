-------------------------- MODULE ContactRegister --------------------------
(***************************************************************************)
(* What contact.rs promises its callers: one register per record id.  A    *)
(* call takes effect at one instant between its invocation and its answer, *)
(* or not at all; an answer that was never given says nothing.             *)
(*                                                                         *)
(* A refusal that speaks of the record (NotFound, Deleted, AlreadyExists)  *)
(* is true at that instant; any other failure may come at any time and     *)
(* leaves the contacts alone.  ContactStore implements this module.        *)
(***************************************************************************)
EXTENDS Naturals

CONSTANTS
    Procs,      \* the program's running processes
    Ids,        \* the record ids RecordId::parse accepts
    Payloads,   \* name, email and phone together, as a caller may store them
    Requests,   \* the calls a process may make: [op, id, input]
    NoInput,    \* the fields of a contact that never was
    NoCall      \* the process is doing nothing

VARIABLES
    contact,    \* the newest revision of every id
    call,       \* what each process is executing
    outcome     \* the answer each call has earned

regVars == <<contact, call, outcome>>

Unborn == [revision |-> 0, deleted |-> FALSE, payload |-> NoInput]

Unanswered == [status |-> "none", views |-> {}]

Failures == {"InvalidId", "InvalidField", "Encryption", "Audit", "Malformed",
             "FutureStore", "Read", "WriteFailed", "WriteConflict"}

Live(id) == contact[id].revision > 0 /\ ~ contact[id].deleted

RegView(id, c) == [id |-> id, payload |-> c.payload,
                   revision |-> c.revision, deleted |-> c.deleted]

RegInit ==
    /\ contact = [id \in Ids |-> Unborn]
    /\ call = [p \in Procs |-> NoCall]
    /\ outcome = [p \in Procs |-> Unanswered]

-----------------------------------------------------------------------------

Pending(p, op) ==
    /\ call[p] # NoCall
    /\ outcome[p] = Unanswered
    /\ call[p].op = op

\* A pending call on an id that parses.
PendingOn(p, op) == Pending(p, op) /\ call[p].id \in Ids

Answer(p, status, views) ==
    outcome' = [outcome EXCEPT ![p] = [status |-> status, views |-> views]]

\* The one effect a mutation has: a next revision, answered with its view.
Becomes(p, id, deleted, payload) ==
    LET next == [revision |-> contact[id].revision + 1,
                 deleted |-> deleted, payload |-> payload]
    IN  /\ contact' = [contact EXCEPT ![id] = next]
        /\ Answer(p, "Ok", {RegView(id, next)})
        /\ UNCHANGED call

Begin(p) ==
    /\ call[p] = NoCall
    /\ \E request \in Requests : call' = [call EXCEPT ![p] = request]
    /\ UNCHANGED <<contact, outcome>>

RegCreate(p) ==
    /\ PendingOn(p, "create")
    /\ ~ Live(call[p].id)
    /\ call[p].input \in Payloads
    /\ Becomes(p, call[p].id, FALSE, call[p].input)

RegUpdate(p) ==
    /\ PendingOn(p, "update")
    /\ Live(call[p].id)
    /\ call[p].input \in Payloads
    /\ Becomes(p, call[p].id, FALSE, call[p].input)

\* A deletion keeps the fields the contact had.
RegDelete(p) ==
    /\ PendingOn(p, "delete")
    /\ Live(call[p].id)
    /\ Becomes(p, call[p].id, TRUE, contact[call[p].id].payload)

RegGet(p) ==
    /\ PendingOn(p, "get")
    /\ Live(call[p].id)
    /\ Answer(p, "Ok", {RegView(call[p].id, contact[call[p].id])})
    /\ UNCHANGED <<contact, call>>

\* Every live contact, all of them at the same instant.
RegList(p) ==
    /\ Pending(p, "list")
    /\ Answer(p, "Ok", {RegView(id, contact[id]) : id \in {i \in Ids : Live(i)}})
    /\ UNCHANGED <<contact, call>>

RegRefuse(p) ==
    /\ \/ /\ PendingOn(p, "create")
          /\ Live(call[p].id)
          /\ Answer(p, "AlreadyExists", {})
       \/ /\ \E op \in {"update", "delete", "get"} : PendingOn(p, op)
          /\ contact[call[p].id].revision = 0
          /\ Answer(p, "NotFound", {})
       \/ /\ \E op \in {"update", "delete", "get"} : PendingOn(p, op)
          /\ contact[call[p].id].deleted
          /\ Answer(p, "Deleted", {})
    /\ UNCHANGED <<contact, call>>

RegFail(p) ==
    /\ call[p] # NoCall
    /\ outcome[p] = Unanswered
    /\ \E status \in Failures : Answer(p, status, {})
    /\ UNCHANGED <<contact, call>>

\* The call returns, or its process dies: an effect it had stays.
Forget(p) ==
    /\ call[p] # NoCall
    /\ call' = [call EXCEPT ![p] = NoCall]
    /\ outcome' = [outcome EXCEPT ![p] = Unanswered]
    /\ UNCHANGED contact

RegStep(p) ==
    \/ Begin(p)  \/ RegCreate(p) \/ RegUpdate(p) \/ RegDelete(p)
    \/ RegGet(p) \/ RegList(p)   \/ RegRefuse(p) \/ RegFail(p)  \/ Forget(p)

RegNext == \E p \in Procs : RegStep(p)

RegSpec == RegInit /\ [][RegNext]_regVars
=============================================================================
