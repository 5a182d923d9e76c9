------------------------------- MODULE MCCli -------------------------------
(* Small instances of Cli for TLC.                                         *)
EXTENDS Cli, TLC

Symmetry == Permutations(Procs) \cup Permutations(Passphrases)

\* HOME and the first base directory set, or not, or relative; the others unset.
SmallEnvironments ==
    [home : {"absent", "absolute", "relative"},
     xdg : {[a \in ToSet(Bases) |-> IF a = b THEN path ELSE "absent"] :
              b \in ToSet(Bases), path \in {"absent", "absolute", "relative"}}]

HostLists == {<<"loopback">>, <<"socket">>, <<"empty">>, <<"remote">>, <<"localhost", "remote">>}

Params == {<<>>} \cup {<<[name |-> n, hosts |-> h]>> : n \in {"host", "hostaddr"}, h \in HostLists}

OneUrl == {NoUrl}

\* URLs that config.rs and libpq read alike.
PlainUrls ==
    {[DefaultUrl EXCEPT !.scheme = "https"],
     [DefaultUrl EXCEPT !.authority = <<"localhost">>, !.params = <<>>]} \cup
    [scheme : {"postgresql"}, authority : {<<>>, <<"encoded">>, <<"localhost", "remote">>},
     twoAts : {FALSE}, params : Params, fragment : {<<>>}]

\* And some that they do not.
OddUrls ==
    {[DefaultUrl EXCEPT !.authority = <<"localhost">>, !.params = <<>>, !.twoAts = TRUE],
     [DefaultUrl EXCEPT !.params = Append(@, [name |-> "service", hosts |-> <<"loopback">>])],
     [DefaultUrl EXCEPT !.params = Append(@, [name |-> "service", hosts |-> <<"remote">>])],
     [DefaultUrl EXCEPT !.fragment = <<[name |-> "host", hosts |-> <<"remote">>]>>]}

SmallUrls == {NoUrl, BadUrl} \cup PlainUrls \cup OddUrls
=============================================================================
