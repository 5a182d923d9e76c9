------------------------------- MODULE Config -------------------------------
(***************************************************************************)
(* config.rs: where the program keeps its files, and which PostgreSQL URL  *)
(* it reports (nothing connects to it).                                    *)
(*                                                                         *)
(* A path is "absent", "absolute" or "relative".  A database URL is what   *)
(* the url crate makes of it: its scheme, the hosts of its authority, its  *)
(* parameters in order and those written after its '#'; and whether more   *)
(* than one '@' precedes the hosts.  A host is one of Hosts, and in the    *)
(* authority a socket can only be written percent-encoded.  libpq reads    *)
(* the same text again by rules of its own.                                *)
(***************************************************************************)
EXTENDS Naturals, FiniteSetsExt, SequencesExt

\* The XDG base directories, in the order the program asks for them.
Bases == <<"config", "data", "state", "cache">>

Hosts == {"localhost", "loopback", "socket", "encoded", "remote", "empty"}

\* No database URL is given, or one that does not parse.
NoUrl == [scheme |-> "none"]

BadUrl == [scheme |-> "unparsable"]

\* A parameter that names hosts: "service" those its service's file gives the
\* addresses of, if it does.
Param == [name : {"host", "hostaddr", "service"}, hosts : Seq(Hosts)]

Url ==
    [scheme : {"postgresql", "postgres", "https"}, authority : Seq(Hosts), twoAts : BOOLEAN,
     params : Seq(Param), fragment : Seq(Param)]

DefaultUrl ==
    [scheme |-> "postgresql", authority |-> <<>>, twoAts |-> FALSE,
     params |-> <<[name |-> "host", hosts |-> <<"socket">>]>>, fragment |-> <<>>]

-----------------------------------------------------------------------------
(* ConfigPaths::from_env.                                                  *)

\* A base directory: what XDG says, and what HOME says if it is silent.
BaseVerdict(env, base) ==
    LET path == IF env.xdg[base] = "absent" THEN env.home ELSE env.xdg[base]
    IN  IF path = "absent" THEN "MissingHome"
        ELSE IF path = "relative" THEN "RelativeXdgPath"
        ELSE "Ok"

\* The first of them that fails decides.
PathsVerdict(env) ==
    LET failing == {i \in DOMAIN Bases : BaseVerdict(env, Bases[i]) # "Ok"}
    IN  IF failing = {} THEN "Ok" ELSE BaseVerdict(env, Bases[Min(failing)])

-----------------------------------------------------------------------------
(* validate_local_database_url.                                            *)

\* Mutant: the first of several hosts is looked at.
LocalHostsFirst(hosts, addressOnly) ==
    \/ hosts[1] \in {"localhost", "loopback"}
    \/ hosts[1] = "socket" /\ ~ addressOnly

\* validate_host_list: a list, each host of it local, none of them empty.
LocalHosts(hosts, addressOnly) ==
    \A i \in DOMAIN hosts :
        \/ hosts[i] \in {"localhost", "loopback"}
        \/ hosts[i] = "socket" /\ ~ addressOnly

HostParams(url) == {i \in DOMAIN url.params : url.params[i].name \in {"host", "hostaddr"}}

\* Of the parameters only, and not of a fragment; a service is no host.
UrlVerdict(url) ==
    IF url = BadUrl THEN "InvalidDatabaseUrl"
    ELSE IF /\ url.scheme \in {"postgres", "postgresql"}
            /\ url.authority # <<>> => LocalHosts(url.authority, FALSE)
            /\ \A i \in HostParams(url) :
                 LocalHosts(url.params[i].hosts, url.params[i].name = "hostaddr")
            /\ url.authority # <<>> \/ HostParams(url) # {}
    THEN "Ok"
    ELSE "RemoteDatabase"

-----------------------------------------------------------------------------
(* resolve_config: the environment before the file before the default.     *)

\* config.toml: missing, or what there is instead of a file that parses.
Files == {"missing", "parsed", "insecure", "large", "unreadable", "unparsable"}

\* The optional read, its errors classified, and the parser's verdict.
FileVerdict(file) ==
    IF file = "insecure" THEN "InsecureFile"
    ELSE IF file = "large" THEN "TooLarge"
    ELSE IF file = "unreadable" THEN "Read"
    ELSE IF file = "unparsable" THEN "Parse"
    ELSE "Ok"

UrlOf(config) ==
    IF config.env # NoUrl THEN config.env
    ELSE IF config.file = "parsed" /\ config.toml # NoUrl THEN config.toml
    ELSE DefaultUrl

\* A bad file is refused also where its URL is not needed.
ResolveVerdict(config) ==
    IF FileVerdict(config.file) # "Ok" THEN FileVerdict(config.file)
    ELSE UrlVerdict(UrlOf(config))

-----------------------------------------------------------------------------
(* What libpq makes of such a URL: the user ends at the first '@', so that *)
(* a second one is in the name of a host, and there is no fragment.  A     *)
(* parameter replaces the authority, the last of several of a name counts, *)
(* what the URL says comes before what a service says, and an address      *)
(* saves looking up a host.                                                *)

LastParam(url, name) ==
    LET given == url.params \o url.fragment
        named == {i \in DOMAIN given : given[i].name = name}
    IN  IF named = {} THEN <<>> ELSE given[Max(named)].hosts

ContactedHosts(url) ==
    IF LastParam(url, "hostaddr") # <<>> THEN ToSet(LastParam(url, "hostaddr"))
    ELSE IF LastParam(url, "service") # <<>> THEN ToSet(LastParam(url, "service"))
    ELSE IF LastParam(url, "host") # <<>> THEN ToSet(LastParam(url, "host"))
    ELSE IF url.twoAts THEN {"remote"}
    ELSE ToSet(url.authority)

\* A URL that libpq reads as config.rs does.
SameReading(url) ==
    /\ ~ url.twoAts
    /\ url.fragment = <<>>
    /\ \A i \in DOMAIN url.params : url.params[i].name # "service"
=============================================================================
