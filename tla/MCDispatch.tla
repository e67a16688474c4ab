----------------------------- MODULE MCDispatch -----------------------------
(***************************************************************************)
(* Instances of Dispatch for TLC: a handful of configurations that have    *)
(* the shapes of the README's, and requests for each of them.              *)
(***************************************************************************)
EXTENDS Dispatch

H(name)           == [name |-> name, port |-> NoPort]
HostAt(name, port) == [name |-> name, port |-> port]

Slashed(a)  == <<"/", a>>
Below(a)    == [prefix |-> <<"/", a, "/">>, star |-> TRUE]
Everything  == [prefix |-> << >>, star |-> TRUE]

RootOf(pattern, path, fallback) ==
  [kind |-> "root", pattern |-> pattern, path |-> path, fallback |-> fallback]
Files       == [kind |-> "file_server"]
Spa         == RootOf(Everything, <<"www">>, <<"index.html">>)
Plain       == RootOf(Everything, <<"www">>, None)
SubRoot     == RootOf(Below("a"), <<"www", "a">>, None)
Exact       == RootOf([prefix |-> Slashed("f"), star |-> FALSE], <<"www">>, None)
Proxy(p, n, policy) ==
  [kind |-> "reverse_proxy", pattern |-> p, backends |-> n, policy |-> policy]
ProxyA      == Proxy(Below("a"), 2, "RoundRobin")
OtherA      == Proxy(Below("a"), 1, "IPHash")
IdleA       == Proxy(Below("a"), 0, "IPHash")
ProxyB      == Proxy(Below("b"), 1, "IPHash")
IdleB       == Proxy(Below("b"), 0, "RoundRobin")
Redirect    == [kind |-> "redir", sendable |-> TRUE]
BadRedirect == [kind |-> "redir", sendable |-> FALSE]
Cookie      == [kind |-> "redirifnotcookie", sendable |-> TRUE]
BadCookie   == [kind |-> "redirifnotcookie", sendable |-> FALSE]
Cert(c)     == [kind |-> "tls", cert |-> c]

AllDirectives ==
  {Files, Spa, Plain, SubRoot, Exact, ProxyA, OtherA, IdleA, ProxyB, IdleB, Redirect, Cookie,
   BadRedirect, BadCookie, Cert("c1"), Cert("c2")}

SomeCbltfiles ==
  { \* Two names, one behind TLS.
    (H("a") :> <<Spa, SubRoot, Files>> @@ H("b") :> <<Cert("c1"), Cookie, Exact, Files>>),
    \* Two names on one port.
    (H("a") :> <<ProxyA, Redirect>> @@ H("b") :> <<Plain, Files>>),
    \* A star host, and one with a port.
    (HostAt("*", 80) :> <<ProxyA, Spa, Files>> @@ HostAt("b", 8080) :> <<ProxyA, Cookie, ProxyB>>),
    \* Two hosts of one port, written with it, and a port that is none.
    (HostAt("a", 8080) :> <<Plain, Files>> @@ HostAt("b", 8080) :> <<Redirect>>
       @@ HostAt("b", BadPort) :> <<Cert("c2"), ProxyA, OtherA, BadCookie, Files>>),
    \* The same port by name and by default, and two certificates.
    (H("a") :> <<ProxyB, BadRedirect>> @@ HostAt("a", 80) :> <<Cert("c2"), Redirect>>
       @@ HostAt("b", 80) :> <<Plain, Files>>) }

\* The README's "127.0.0.1:8080", its only host.
ReadmeCbltfile == {HostAt("a", 8080) :> <<ProxyA, Spa, Files>>}

FileCbltfile == {H("a") :> <<Plain, Files>>}

Service(hosts, secrets, proxy, idle) ==
  [labelled |-> TRUE, valid |-> TRUE, hosts |-> hosts, secrets |-> secrets,
   proxy |-> proxy, idle_proxy |-> idle]

Front1  == Service(<<H("a"), H("b")>>, H("a") :> Cert("c1"), ProxyA, IdleA)
Second  == Service(<<H("a")>>, << >>, ProxyB, IdleB)
Third   == Service(<<H("b"), H("b")>>, H("b") :> Cert("c2"), ProxyB, IdleB)
Other   == [Front1 EXCEPT !.labelled = FALSE]
Invalid == [Front1 EXCEPT !.valid = FALSE]

SomeServices == {Front1, Second, Third, Other, Invalid}

SomeLabels == {<<Other, Front1, Second>>, <<Third, Front1>>, <<Second, Invalid>>}

Ask(port, header, path, cookie) ==
  [port |-> port, header |-> header, path |-> path, cookie |-> cookie, range |-> NoRange,
   valid |-> TRUE, long |-> FALSE]

Paths ==
  {<<"/">>, <<"/", "f">>, <<"/", "a", "/", "f">>, <<"/", "a", "/", "..", "/", ".", "/", "f">>,
   <<"/", "..", "/", "key">>, <<"/", "..", "/", "..", "/", "f">>, <<"/", "b", "/", "none">>}

Headers == {H("a"), H("b"), HostAt("b", 8080), HostAt("b", 80)}

SomeRequests ==
  {Ask(p, h, path, c) : p \in PortNumbers, h \in Headers, path \in Paths, c \in BOOLEAN}
  \cup {[Ask(80, H("a"), <<"/", "f">>, FALSE) EXCEPT !.range = [start |-> s, end |-> e]] :
          s \in {None, 0, 1, 2, 7}, e \in {None, 0, 1, 2, 3, 5, 7}}
  \cup {[Ask(80, H("a"), <<"/", "f">>, FALSE) EXCEPT !.range = Malformed]}
  \cup {[Ask(80, H("a"), <<"/", "f">>, FALSE) EXCEPT !.valid = FALSE]}
  \cup {[Ask(80, h, <<"/", "a", "/", "f">>, FALSE) EXCEPT !.long = TRUE] : h \in Headers}

SomeFiles ==
  { (<<"www", "f">> :> 2 @@ <<"www", "index.html">> :> 1 @@ <<"www", "a", "f">> :> 1
       @@ <<"key">> :> 1 @@ <<"www", "a", "index.html">> :> 1),
    (<<"www", "f">> :> 0 @@ <<"www", "a", "a", "f">> :> 1) }

SomeDirs == {<<"www">>, <<"www", "a">>}
=============================================================================
