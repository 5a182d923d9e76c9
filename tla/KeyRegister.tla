---------------------------- MODULE KeyRegister ----------------------------
(***************************************************************************)
(* What keyring.rs promises its callers: one key, sealed once under one    *)
(* passphrase and never replaced.  Whoever holds a key holds that one, and *)
(* a setup reports success only once a power loss can no longer take the   *)
(* key away.  Under a narrow umask that key opens for nobody but the setup *)
(* that drew it.  KeyInstall implements this module; Cli is built on it.   *)
(***************************************************************************)
CONSTANTS
    Procs,        \* process slots
    Keys,         \* the keys that may be drawn
    Passphrases,  \* those a key may be sealed under
    NoSealed,     \* there is no key file
    NoKey         \* a process that has authenticated no key

VARIABLES
    sealed,    \* the key, the passphrase it is sealed under, and whether it opens
    durable,   \* a power loss leaves it there
    pending,   \* who has published it and not yet reported success
    held,      \* the key each process has authenticated
    acked      \* the keys whose setup reported success

keyVars == <<sealed, durable, pending, held, acked>>

KeyInit ==
    /\ sealed = NoSealed
    /\ durable = FALSE
    /\ pending = [p \in Procs |-> FALSE]
    /\ held = [p \in Procs |-> NoKey]
    /\ acked = {}

\* The one moment a setup takes effect.
Publish(p, key, passphrase, opens) ==
    /\ sealed = NoSealed
    /\ sealed' = [key |-> key, passphrase |-> passphrase, opens |-> opens]
    /\ durable' = FALSE
    /\ pending' = [pending EXCEPT ![p] = TRUE]
    /\ UNCHANGED <<held, acked>>

\* The setup that published the key reports success, and holds the key.
Acknowledge(p) ==
    /\ pending[p]
    /\ sealed # NoSealed
    /\ durable' = TRUE
    /\ pending' = [pending EXCEPT ![p] = FALSE]
    /\ held' = [held EXCEPT ![p] = sealed.key]
    /\ acked' = acked \cup {sealed.key}
    /\ UNCHANGED sealed

\* It fails after all: the key stays, and others may open it.
Abandon(p) ==
    /\ pending[p]
    /\ pending' = [pending EXCEPT ![p] = FALSE]
    /\ UNCHANGED <<sealed, durable, held, acked>>

Authenticate(p, passphrase) ==
    /\ sealed # NoSealed
    /\ sealed.opens
    /\ sealed.passphrase = passphrase
    /\ held' = [held EXCEPT ![p] = sealed.key]
    /\ UNCHANGED <<sealed, durable, pending, acked>>

\* A lock, an exit or a kill.
Drop(p) ==
    /\ held' = [held EXCEPT ![p] = NoKey]
    /\ pending' = [pending EXCEPT ![p] = FALSE]
    /\ UNCHANGED <<sealed, durable, acked>>

PowerLoss ==
    /\ \/ UNCHANGED sealed
       \/ ~ durable /\ sealed' = NoSealed
    /\ durable' = (sealed' # NoSealed)
    /\ pending' = [p \in Procs |-> FALSE]
    /\ held' = [p \in Procs |-> NoKey]
    /\ UNCHANGED acked

KeyNext ==
    \/ \E p \in Procs :
         \/ \E key \in Keys, passphrase \in Passphrases, opens \in BOOLEAN :
              Publish(p, key, passphrase, opens)
         \/ \E passphrase \in Passphrases : Authenticate(p, passphrase)
         \/ Acknowledge(p) \/ Abandon(p) \/ Drop(p)
    \/ PowerLoss

KeySpec == KeyInit /\ [][KeyNext]_keyVars
=============================================================================
