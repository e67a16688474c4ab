---------------------------- MODULE ServersProofs ----------------------------
(***************************************************************************)
(* Theorems about Servers, for any configurations, any services and any    *)
(* order in which build_servers visits the hosts.                          *)
(***************************************************************************)
EXTENDS Servers, Recursion, SequenceTheorems, TLAPS

LEMMA EmptyHasNoDomain == DOMAIN Empty = {}
BY DEF Empty

\* The port of a host is one that occurs.
LEMMA PortOfType ==
  ASSUME NEW h
  PROVE  PortOf(h) \in PortNumbers
BY ServersAssumption DEF PortOf

\* A host string without its port is one.
LEMMA StrippedFacts ==
  ASSUME NEW h \in Host
  PROVE  /\ Stripped(h) \in Host /\ Stripped(h).name = h.name
         /\ h.port = NoPort => Stripped(h) = h
BY DEF Host, Stripped

-----------------------------------------------------------------------------
(***************************************************************************)
(* Types                                                                   *)
(***************************************************************************)

LEMMA EntryType ==
  ASSUME NEW s \in Services, NEW proxy \in {s.proxy, s.idle_proxy}, NEW h \in Host
  PROVE  Entry(s, proxy, h) \in [host : Host, directives : Seq(Directives)]
<1>1. proxy \in Directives /\ (h \in DOMAIN s.secrets => s.secrets[h] \in Directives)
  BY ServersAssumption DEF IsService
<1>2. h \in DOMAIN s.secrets => <<proxy, s.secrets[h]>> \in Seq(Directives)
  BY <1>1
<1>3. <<proxy>> \in Seq(Directives)
  BY <1>1
<1> QED
  BY <1>2, <1>3 DEF Entry

LEMMA HostExtendedType ==
  ASSUME NEW c, IsConfig(c), NEW h \in Host, NEW ds \in Seq(Directives)
  PROVE  IsConfig(HostExtended(c, h, ds))
<1> DEFINE v == IF h \in DOMAIN c THEN c[h] \o ds ELSE ds
<1>1. v \in Seq(Directives)
  BY ConcatProperties DEF IsConfig
<1>2. HostExtended(c, h, ds) = Put(c, h, v)
  BY DEF HostExtended
<1> HIDE DEF v
<1>3. DOMAIN Put(c, h, v) \subseteq Host
  BY DEF IsConfig, Put
<1>4. \A x \in DOMAIN Put(c, h, v) : Put(c, h, v)[x] \in Seq(Directives)
  BY <1>1 DEF IsConfig, Put
<1> QED
  BY <1>2, <1>3, <1>4 DEF IsConfig

LEMMA ServersTypeInit ==
  ASSUME ServersInit
  PROVE  ServersTypeOK
<1>1. /\ phase = "labels" /\ entries = << >> /\ unbuilt = {} /\ servers = Empty
      /\ origin = services
      /\ \/ config \in Cbltfiles /\ services = << >>
         \/ config = Empty /\ services \in Labels
  BY DEF ServersInit
<1>2. IsConfig(config)
  <2>1. IsConfig(Empty)
    BY EmptyHasNoDomain DEF IsConfig
  <2>2. \A c \in Cbltfiles : IsConfig(c)
    BY ServersAssumption
  <2> QED
    BY <1>1, <2>1, <2>2
<1>3. services \in Seq(Services) /\ origin \in Labels \cup {<< >>}
  <2>1. << >> \in Seq(Services) /\ Labels \subseteq Seq(Services)
    BY ServersAssumption, EmptySeq
  <2> QED
    BY <1>1, <2>1
<1>4. DOMAIN servers = {}
  BY <1>1, EmptyHasNoDomain
<1> QED
  BY <1>1, <1>2, <1>3, <1>4 DEF ServersTypeOK

LEMMA ReadLabelsType ==
  ASSUME ServersTypeOK, ReadLabels
  PROVE  ServersTypeOK'
<1> DEFINE s == Head(services)
<1>1. /\ phase = "labels" /\ services # << >> /\ services' = Tail(services)
      /\ config' = config /\ unbuilt' = unbuilt /\ servers' = servers /\ origin' = origin
      /\ \/ entries' = entries /\ phase' = phase
         \/ phase' = "failed" /\ entries' = << >>
         \/ /\ phase' = phase
            /\ \E proxy \in {s.proxy, s.idle_proxy} :
                 entries' = [i \in 1 .. Len(s.hosts) |-> Entry(s, proxy, s.hosts[i])]
  BY DEF ReadLabels
<1>2. services \in Seq(Services) /\ services' \in Seq(Services) /\ s \in Services
  BY <1>1, HeadTailProperties DEF ServersTypeOK
<1> HIDE DEF s
<1>3. s.hosts \in Seq(Host)
  BY <1>2, ServersAssumption DEF IsService
<1>4. /\ entries' \in Seq([host : Host, directives : Seq(Directives)])
      /\ entries' # << >> => phase' = "labels"
  <2>1. CASE entries' = entries /\ phase' = phase
    BY <2>1, <1>1 DEF ServersTypeOK
  <2>2. CASE phase' = "failed" /\ entries' = << >>
    BY <2>2
  <2>3. ASSUME phase' = phase, NEW proxy \in {s.proxy, s.idle_proxy},
               entries' = [i \in 1 .. Len(s.hosts) |-> Entry(s, proxy, s.hosts[i])]
        PROVE  /\ entries' \in Seq([host : Host, directives : Seq(Directives)])
               /\ entries' # << >> => phase' = "labels"
    <3>1. Len(s.hosts) \in Nat /\ \A i \in 1 .. Len(s.hosts) : s.hosts[i] \in Host
      BY <1>3, LenProperties, ElementOfSeq
    <3>2. \A i \in 1 .. Len(s.hosts) :
            Entry(s, proxy, s.hosts[i]) \in [host : Host, directives : Seq(Directives)]
      BY <3>1, <1>2, EntryType
    <3>3. entries' \in [1 .. Len(s.hosts) -> [host : Host, directives : Seq(Directives)]]
      BY <2>3, <3>2
    <3> QED
      BY <2>3, <3>1, <3>3, <1>1, SeqDef
  <2> QED
    BY <1>1, <2>1, <2>2, <2>3
<1>5. phase' \in {"labels", "build", "built", "failed"}
  BY <1>1 DEF ServersTypeOK
<1> QED
  BY <1>1, <1>2, <1>4, <1>5 DEF ServersTypeOK

LEMMA EnterHostType ==
  ASSUME ServersTypeOK, EnterHost
  PROVE  ServersTypeOK'
<1>1. /\ entries # << >> /\ entries' = Tail(entries)
      /\ config' = HostExtended(config, Head(entries).host, Head(entries).directives)
      /\ phase' = phase /\ services' = services /\ unbuilt' = unbuilt /\ servers' = servers
      /\ origin' = origin
  BY DEF EnterHost
<1>2. /\ Head(entries) \in [host : Host, directives : Seq(Directives)]
      /\ entries' \in Seq([host : Host, directives : Seq(Directives)])
      /\ phase = "labels"
  BY <1>1, HeadTailProperties DEF ServersTypeOK
<1>3. Head(entries).host \in Host /\ Head(entries).directives \in Seq(Directives)
  BY <1>2
<1>4. IsConfig(config')
  BY <1>1, <1>3, HostExtendedType DEF ServersTypeOK
<1>5. unbuilt' \subseteq DOMAIN config'
  BY <1>1 DEF ServersTypeOK, HostExtended, Put
<1> QED
  BY <1>1, <1>2, <1>4, <1>5 DEF ServersTypeOK

LEMMA VisitType ==
  ASSUME ServersTypeOK, NEW h \in Host, Visit(h)
  PROVE  ServersTypeOK'
<1> DEFINE p == PortOf(h)
<1>1. /\ phase = "build" /\ h \in unbuilt /\ unbuilt' = unbuilt \ {h}
      /\ servers' = Put(servers, p, [hosts |-> HostsWith(h), cert |-> CertOf(config[h])])
      /\ phase' = phase /\ services' = services /\ entries' = entries /\ config' = config
      /\ origin' = origin
  BY DEF Visit
<1>2. p \in PortNumbers /\ Stripped(h) \in Host /\ config[h] \in Seq(Directives)
  BY <1>1, PortOfType, StrippedFacts DEF ServersTypeOK, IsConfig
<1>3. /\ DOMAIN HostsWith(h) \subseteq Host
      /\ \A k \in DOMAIN HostsWith(h) : HostsWith(h)[k] \in Seq(Directives)
  <2>1. CASE p \notin DOMAIN servers
    <3>1. HostsWith(h) = Put(Empty, Stripped(h), config[h])
      BY <2>1 DEF HostsWith
    <3> QED
      BY <3>1, <1>2, EmptyHasNoDomain DEF Put
  <2>2. CASE p \in DOMAIN servers
    <3>1. HostsWith(h) = Put(servers[p].hosts, h, config[h])
      BY <2>2 DEF HostsWith
    <3>2. /\ DOMAIN servers[p].hosts \subseteq Host
          /\ \A k \in DOMAIN servers[p].hosts : servers[p].hosts[k] \in Seq(Directives)
      BY <2>2 DEF ServersTypeOK
    <3> QED
      BY <3>1, <3>2, <1>2 DEF Put
  <2> QED
    BY <2>1, <2>2
<1> HIDE DEF p
<1>4. /\ DOMAIN servers' = DOMAIN servers \cup {p}
      /\ servers'[p] = [hosts |-> HostsWith(h), cert |-> CertOf(config[h])]
      /\ \A q \in DOMAIN servers \ {p} : servers'[q] = servers[q]
  BY <1>1 DEF Put
<1>5. ASSUME NEW q \in DOMAIN servers'
      PROVE  /\ DOMAIN servers'[q].hosts \subseteq Host
             /\ \A k \in DOMAIN servers'[q].hosts : servers'[q].hosts[k] \in Seq(Directives)
  <2>1. CASE q = p
    BY <2>1, <1>3, <1>4
  <2>2. CASE q # p
    BY <2>2, <1>4 DEF ServersTypeOK
  <2> QED
    BY <2>1, <2>2
<1>6. DOMAIN servers' \subseteq PortNumbers
  BY <1>2, <1>4 DEF ServersTypeOK
<1> QED
  BY <1>1, <1>5, <1>6 DEF ServersTypeOK

LEMMA ServersTypeStep ==
  ASSUME ServersTypeOK, [ServersNext]_server_vars
  PROVE  ServersTypeOK'
<1>1. CASE ReadLabels
  BY <1>1, ReadLabelsType
<1>2. CASE EnterHost
  BY <1>2, EnterHostType
<1>3. CASE BeginBuild
  BY <1>3 DEF BeginBuild, ServersTypeOK
<1>4. ASSUME NEW h \in Host, Visit(h) PROVE ServersTypeOK'
  BY <1>4, VisitType
<1>5. CASE Built
  BY <1>5 DEF Built, ServersTypeOK
<1>6. CASE UNCHANGED server_vars
  BY <1>6 DEF server_vars, ServersTypeOK
<1> QED
  BY <1>1, <1>2, <1>3, <1>4, <1>5, <1>6 DEF ServersNext

-----------------------------------------------------------------------------
(***************************************************************************)
(* What is built                                                           *)
(***************************************************************************)

LEMMA BuildInvInit ==
  ASSUME ServersInit
  PROVE  BuildInv
<1>1. phase = "labels" /\ unbuilt = {} /\ servers = Empty
  BY DEF ServersInit
<1>2. SitesBelong
  BY <1>1, EmptyHasNoDomain DEF SitesBelong
<1> QED
  BY <1>1, <1>2 DEF BuildInv

\* Before anything is built there is nothing to keep.
LEMMA NothingBuilt ==
  ASSUME BuildInv, phase = "labels", phase' \in {"labels", "failed"},
         servers' = servers, unbuilt' = unbuilt
  PROVE  BuildInv'
<1>1. servers' = Empty /\ unbuilt' = {}
  BY DEF BuildInv
<1>2. SitesBelong'
  BY <1>1, EmptyHasNoDomain DEF SitesBelong
<1> QED
  BY <1>1, <1>2 DEF BuildInv

LEMMA BeginBuildKeeps ==
  ASSUME BuildInv, BeginBuild
  PROVE  BuildInv'
<1>1. /\ phase' = "build" /\ servers' = Empty /\ Visited' = {}
  BY DEF BuildInv, BeginBuild, Visited
<1>2. SitesBelong' /\ BuiltSoFar'
  BY <1>1, EmptyHasNoDomain DEF SitesBelong, BuiltSoFar
<1> QED
  BY <1>1, <1>2 DEF BuildInv

\* One visit: the host goes to its port under its own string, or without its port,
\* and nothing that was entered before is lost.
LEMMA VisitKeeps ==
  ASSUME ServersTypeOK, BuildInv, NEW h \in Host, Visit(h)
  PROVE  BuildInv'
<1> DEFINE p == PortOf(h)
<1>1. /\ phase = "build" /\ phase' = "build" /\ h \in unbuilt /\ unbuilt' = unbuilt \ {h}
      /\ servers' = Put(servers, p, [hosts |-> HostsWith(h), cert |-> CertOf(config[h])])
      /\ config' = config
  BY DEF Visit
<1>2. h \in DOMAIN config /\ unbuilt \subseteq DOMAIN config /\ DOMAIN config \subseteq Host
  BY <1>1 DEF ServersTypeOK, IsConfig
<1>3. Visited' = Visited \cup {h} /\ h \notin Visited
  BY <1>1, <1>2 DEF Visited
<1>4. /\ \A g : PortOf(g)' = PortOf(g)
      /\ \A g : Stripped(g)' = Stripped(g)
      /\ \A q : On(q)' = On(q)
      /\ Unambiguous' = Unambiguous
  BY <1>1 DEF PortOf, Stripped, On, Unambiguous
<1>5. SitesBelong /\ BuiltSoFar
  BY <1>1 DEF BuildInv
<1> HIDE DEF p
<1>6. /\ DOMAIN servers' = DOMAIN servers \cup {p}
      /\ servers'[p] = [hosts |-> HostsWith(h), cert |-> CertOf(config[h])]
      /\ \A q \in DOMAIN servers \ {p} : servers'[q] = servers[q]
  BY <1>1 DEF Put
<1>7. servers'[p].hosts = HostsWith(h) /\ servers'[p].cert = CertOf(config[h])
  BY <1>6
<1>8. \/ p \notin DOMAIN servers /\ HostsWith(h) = Put(Empty, Stripped(h), config[h])
      \/ p \in DOMAIN servers /\ HostsWith(h) = Put(servers[p].hosts, h, config[h])
  BY DEF HostsWith, p
<1>9. SitesBelong'
  <2>1. ASSUME NEW q \in DOMAIN servers', NEW k \in DOMAIN servers'[q].hosts
        PROVE  \E g \in Visited' :
                 /\ PortOf(g) = q /\ servers'[q].hosts[k] = config[g] /\ k \in {g, Stripped(g)}
    <3>1. CASE q # p
      <4>1. q \in DOMAIN servers /\ servers'[q] = servers[q]
        BY <3>1, <1>6
      <4>2. PICK g \in Visited :
              PortOf(g) = q /\ servers[q].hosts[k] = config[g] /\ k \in {g, Stripped(g)}
        BY <4>1, <1>5 DEF SitesBelong, Keys
      <4> QED
        BY <4>1, <4>2, <1>3
    <3>2. CASE q = p /\ k \in {h, Stripped(h)} /\ HostsWith(h)[k] = config[h]
      BY <3>2, <1>3, <1>7 DEF p
    <3>3. CASE q = p /\ p \in DOMAIN servers /\ k \in DOMAIN servers[p].hosts
                 /\ HostsWith(h)[k] = servers[p].hosts[k]
      <4>1. PICK g \in Visited :
              PortOf(g) = p /\ servers[p].hosts[k] = config[g] /\ k \in {g, Stripped(g)}
        BY <3>3, <1>5 DEF SitesBelong, Keys
      <4> QED
        BY <3>3, <4>1, <1>3, <1>7
    <3>4. q = p => \/ k \in {h, Stripped(h)} /\ HostsWith(h)[k] = config[h]
                   \/ /\ p \in DOMAIN servers /\ k \in DOMAIN servers[p].hosts
                      /\ HostsWith(h)[k] = servers[p].hosts[k]
      <4>1. CASE q = p /\ p \notin DOMAIN servers
        BY <4>1, <1>7, <1>8, EmptyHasNoDomain DEF Put
      <4>2. CASE q = p /\ p \in DOMAIN servers
        BY <4>2, <1>7, <1>8 DEF Put
      <4> QED
        BY <4>1, <4>2
    <3> QED
      BY <3>1, <3>2, <3>3, <3>4
  <2> QED
    BY <2>1, <1>1, <1>4 DEF SitesBelong, Keys
<1>10. DOMAIN servers' = {PortOf(g) : g \in Visited'}
  BY <1>3, <1>5, <1>6 DEF BuiltSoFar, p
<1>11. ASSUME Unambiguous, NEW q \in DOMAIN servers'
       PROVE  /\ servers'[q].hosts = [g \in On(q) \cap Visited' |-> config[g]]
              /\ \A g \in On(q) \cap Visited' : servers'[q].cert = CertOf(config[g])
  <2>1. /\ h.port = NoPort /\ Stripped(h) = h
        /\ \A g \in On(p) : CertOf(config[g]) = CertOf(config[h])
    BY <1>2, <1>11, StrippedFacts DEF Unambiguous, On, p
  <2>2. CASE q # p
    <3>1. q \in DOMAIN servers /\ servers'[q] = servers[q]
      BY <2>2, <1>6
    <3>2. On(q) \cap Visited' = On(q) \cap Visited
      BY <2>2, <1>3 DEF On, p
    <3> QED
      BY <3>1, <3>2, <1>5, <1>11 DEF BuiltSoFar
  <2>3. CASE q = p /\ p \notin DOMAIN servers
    <3>1. On(p) \cap Visited = {}
      BY <2>3, <1>5 DEF BuiltSoFar, On
    <3>2. On(p) \cap Visited' = {h}
      BY <3>1, <1>2, <1>3 DEF On, p
    <3>3. HostsWith(h) = [g \in {h} |-> config[g]]
      BY <2>1, <2>3, <1>8, EmptyHasNoDomain DEF Put
    <3> QED
      BY <2>3, <3>2, <3>3, <1>7
  <2>4. CASE q = p /\ p \in DOMAIN servers
    <3>1. servers[p].hosts = [g \in On(p) \cap Visited |-> config[g]]
      BY <2>4, <1>5, <1>11 DEF BuiltSoFar
    <3>2. On(p) \cap Visited' = (On(p) \cap Visited) \cup {h}
      BY <1>2, <1>3 DEF On, p
    <3>3. HostsWith(h) = [g \in On(p) \cap Visited' |-> config[g]]
      BY <2>4, <3>1, <3>2, <1>8 DEF Put
    <3> QED
      BY <2>1, <2>4, <3>3, <1>7
  <2> QED
    BY <2>2, <2>3, <2>4
<1>12. BuiltSoFar'
  BY <1>1, <1>4, <1>10, <1>11 DEF BuiltSoFar
<1> QED
  BY <1>1, <1>9, <1>12 DEF BuildInv

LEMMA BuildInvStep ==
  ASSUME ServersTypeOK, BuildInv, [ServersNext]_server_vars
  PROVE  BuildInv'
<1>1. CASE ReadLabels
  <2>1. phase = "labels" /\ phase' \in {"labels", "failed"} /\ servers' = servers /\ unbuilt' = unbuilt
    BY <1>1 DEF ReadLabels
  <2> QED
    BY <2>1, NothingBuilt
<1>2. CASE EnterHost
  <2>1. phase = "labels" /\ phase' = "labels" /\ servers' = servers /\ unbuilt' = unbuilt
    BY <1>2 DEF EnterHost, ServersTypeOK
  <2> QED
    BY <2>1, NothingBuilt
<1>3. CASE BeginBuild
  BY <1>3, BeginBuildKeeps
<1>4. ASSUME NEW h \in Host, Visit(h) PROVE BuildInv'
  BY <1>4, VisitKeeps
<1>5. ASSUME config' = config, servers' = servers, unbuilt' = unbuilt
      PROVE  (SitesBelong => SitesBelong') /\ (BuiltSoFar => BuiltSoFar')
  <2>1. /\ Visited' = Visited /\ Unambiguous' = Unambiguous
        /\ \A h : PortOf(h)' = PortOf(h)
        /\ \A h : Stripped(h)' = Stripped(h)
        /\ \A q : On(q)' = On(q)
        /\ \A q : Keys(q)' = Keys(q)
    BY <1>5 DEF Visited, Unambiguous, PortOf, Stripped, On, Keys
  <2>2. SitesBelong => SitesBelong'
    BY <1>5, <2>1 DEF SitesBelong
  <2>3. BuiltSoFar => BuiltSoFar'
    BY <1>5, <2>1 DEF BuiltSoFar
  <2> QED
    BY <2>2, <2>3
<1>6. CASE Built
  BY <1>5, <1>6 DEF Built, BuildInv
<1>7. CASE UNCHANGED server_vars
  BY <1>5, <1>7 DEF server_vars, BuildInv
<1> QED
  BY <1>1, <1>2, <1>3, <1>4, <1>6, <1>7 DEF ServersNext

-----------------------------------------------------------------------------
(***************************************************************************)
(* Lists of parts, one behind the other                                    *)
(***************************************************************************)

IsJoin(f, parts) ==
  f[0] = << >> /\ \A n \in 1 .. Len(parts) : f[n] = f[n - 1] \o parts[n]

LEMMA JoinedIn ==
  ASSUME NEW D, NEW parts, Len(parts) \in Nat, \A n \in 1 .. Len(parts) : parts[n] \in Seq(D)
  PROVE  /\ Joined(parts) \in [0 .. Len(parts) -> Seq(D)]
         /\ IsJoin(Joined(parts), parts)
<1> DEFINE L == Len(parts)
           A == Seq(D)
           step == [n \in 1 .. L |-> [x \in A |-> x \o parts[n]]]
           Goes(w) == w = [n \in 0 .. L |-> IF n = 0 THEN << >> ELSE w[n - 1] \o parts[n]]
           join == Joined(parts)
<1>1. L \in Nat /\ << >> \in A
  OBVIOUS
<1>2. \A n \in 1 .. L, x \in A : x \o parts[n] \in A
  BY ConcatProperties
<1>3. join = CHOOSE w : Goes(w)
  BY Zenon DEF Joined
<1> HIDE DEF A, L, join
<1>4. step \in [1 .. L -> [A -> A]] /\ \A n \in 1 .. L, x \in A : step[n][x] = x \o parts[n]
  BY <1>2
<1> HIDE DEF step
<1>5. PICK f \in [0 .. L -> A] : IsRecursion(f, L, << >>, step)
  <2> HIDE DEF Goes
  <2> QED
    BY <1>1, <1>4, RecursionExists, Zenon
<1>6. Goes(f)
  <2>1. \A n \in 0 .. L : n # 0 => n \in 1 .. L /\ f[n - 1] \in A
    BY <1>1
  <2>2. \A n \in 0 .. L : f[n] = IF n = 0 THEN << >> ELSE f[n - 1] \o parts[n]
    BY <1>4, <1>5, <2>1, Zenon DEF IsRecursion
  <2> QED
    BY <2>2
<1>7. Goes(join)
  BY <1>3, <1>6, Zenon
<1>8. join[0] = << >> /\ \A n \in 1 .. L : join[n] = join[n - 1] \o parts[n]
  <2>1. 0 \in 0 .. L /\ \A n \in 1 .. L : n \in 0 .. L /\ n # 0
    BY <1>1
  <2> QED
    BY <1>7, <2>1
<1>9. \A n \in 0 .. L : join[n] \in A
  <2>1. \A n \in 1 .. L : join[n - 1] \in A => join[n] \in A
    BY <1>2, <1>8
  <2> HIDE DEF Goes
  <2> QED
    BY <1>1, <1>8, <2>1, RecursionKeeps
<1> QED
  BY <1>7, <1>8, <1>9 DEF IsJoin, A, L, join

\* Lists that agree on their first parts agree on what these join to.
LEMMA JoinsAgree ==
  ASSUME NEW f, NEW ps, NEW g, NEW qs, IsJoin(f, ps), IsJoin(g, qs),
         NEW k \in Nat, k <= Len(ps), k <= Len(qs), Len(ps) \in Nat, Len(qs) \in Nat,
         \A n \in 1 .. k : ps[n] = qs[n]
  PROVE  f[k] = g[k]
<1> DEFINE T == {n \in 0 .. k : f[n] = g[n]}
<1>1. 0 \in T
  BY DEF IsJoin
<1>2. ASSUME NEW n \in 0 .. k - 1, n \in T PROVE n + 1 \in T
  <2>1. n + 1 \in 1 .. Len(ps) /\ n + 1 \in 1 .. Len(qs) /\ n + 1 \in 0 .. k /\ (n + 1) - 1 = n
        /\ n + 1 \in 1 .. k /\ f[n] = g[n]
    BY <1>2
  <2> DEFINE m == n + 1
  <2> HIDE DEF m
  <2>2. f[m] = f[m - 1] \o ps[m] /\ g[m] = g[m - 1] \o qs[m] /\ m - 1 = n /\ ps[m] = qs[m]
    BY <2>1 DEF IsJoin, m
  <2> QED
    BY <2>1, <2>2 DEF m
<1> HIDE DEF T
<1>3. 0 .. k \subseteq T
  BY <1>1, <1>2, BoundedInduction
<1> QED
  BY <1>3 DEF T

-----------------------------------------------------------------------------
(***************************************************************************)
(* What the services give                                                  *)
(***************************************************************************)

LEMMA HostPartsType ==
  ASSUME NEW s \in Services, NEW gone \in BOOLEAN, NEW h
  PROVE  /\ Len(s.hosts) \in Nat
         /\ Len(HostParts(s, gone, h)) = Len(s.hosts)
         /\ \A n \in 1 .. Len(s.hosts) :
              /\ s.hosts[n] \in Host
              /\ HostParts(s, gone, h)[n] \in Seq(Directives)
<1>1. /\ s.hosts \in Seq(Host) /\ ProxyOf(s, gone) \in Directives
      /\ \A g \in DOMAIN s.secrets : s.secrets[g] \in Directives
  BY ServersAssumption DEF IsService, ProxyOf
<1>2. Len(s.hosts) \in Nat /\ \A n \in 1 .. Len(s.hosts) : s.hosts[n] \in Host
  BY <1>1, LenProperties, ElementOfSeq
<1> DEFINE d == ProxyOf(s, gone)
<1> HIDE DEF d
<1>3. /\ << >> \in Seq(Directives) /\ <<d>> \in Seq(Directives)
      /\ h \in DOMAIN s.secrets => <<d, s.secrets[h]>> \in Seq(Directives)
  <2>1. d \in Directives
    BY <1>1 DEF d
  <2> QED
    BY <1>1, <2>1
<1>4. \A n \in 1 .. Len(s.hosts) : HostParts(s, gone, h)[n] \in Seq(Directives)
  BY <1>3 DEF HostParts, d
<1>5. Len(HostParts(s, gone, h)) = Len(s.hosts)
  BY <1>2 DEF HostParts
<1> QED
  BY <1>2, <1>4, <1>5

\* The joined list of the hosts of a service.
LEMMA OfService ==
  ASSUME NEW s \in Services, NEW gone \in BOOLEAN, NEW h
  PROVE  /\ Joined(HostParts(s, gone, h)) \in [0 .. Len(s.hosts) -> Seq(Directives)]
         /\ IsJoin(Joined(HostParts(s, gone, h)), HostParts(s, gone, h))
<1> DEFINE parts == HostParts(s, gone, h)
<1>1. /\ Len(s.hosts) \in Nat /\ Len(parts) = Len(s.hosts)
      /\ \A n \in 1 .. Len(parts) : parts[n] \in Seq(Directives)
  BY HostPartsType, Zenon
<1> HIDE DEF parts
<1>2. /\ Joined(parts) \in [0 .. Len(parts) -> Seq(Directives)]
      /\ IsJoin(Joined(parts), parts)
  BY <1>1, JoinedIn, Zenon
<1> QED
  BY <1>1, <1>2 DEF parts

\* The joined list of the services.
LEMMA OfServices ==
  ASSUME origin \in Seq(Services), NEW idle, NEW h
  PROVE  /\ Len(origin) \in Nat /\ Len(ServiceParts(idle, h)) = Len(origin)
         /\ \A n \in 1 .. Len(origin) : ServiceParts(idle, h)[n] \in Seq(Directives)
         /\ Shared(idle, h) \in [0 .. Len(origin) -> Seq(Directives)]
         /\ IsJoin(Shared(idle, h), ServiceParts(idle, h))
<1> DEFINE parts == ServiceParts(idle, h)
<1>1. Len(origin) \in Nat /\ \A n \in 1 .. Len(origin) : origin[n] \in Services
  BY LenProperties, ElementOfSeq
<1>2. Len(parts) = Len(origin)
  BY <1>1 DEF ServiceParts
<1>3. ASSUME NEW n \in 1 .. Len(origin) PROVE parts[n] \in Seq(Directives)
  <2> DEFINE s == origin[n]
             join == Joined(HostParts(s, n \in idle, h))
  <2>1. parts[n] = IF ~s.labelled THEN << >> ELSE join[Len(s.hosts)]
    BY DEF ServiceParts
  <2>2. s \in Services /\ (n \in idle) \in BOOLEAN
    BY <1>1
  <2> HIDE DEF s
  <2>3. join \in [0 .. Len(s.hosts) -> Seq(Directives)]
    BY <2>2, OfService, Zenon
  <2>4. Len(s.hosts) \in Nat
    BY <2>2, HostPartsType, Zenon
  <2> HIDE DEF join, parts
  <2>5. join[Len(s.hosts)] \in Seq(Directives) /\ << >> \in Seq(Directives)
    BY <2>3, <2>4
  <2> QED
    BY <2>1, <2>5
<1> HIDE DEF parts
<1>4. /\ Joined(parts) \in [0 .. Len(parts) -> Seq(Directives)]
      /\ IsJoin(Joined(parts), parts)
  BY <1>1, <1>2, <1>3, JoinedIn, Zenon
<1> QED
  BY <1>1, <1>2, <1>3, <1>4 DEF parts, Shared

\* One service more: an unlabelled one gives nothing, and another one what it has
\* for the host.
LEMMA OneServiceMore ==
  ASSUME origin \in Seq(Services), NEW idle, NEW h, NEW n \in 1 .. Len(origin)
  PROVE  /\ Shared(idle, h)[n - 1] \in Seq(Directives)
         /\ ~origin[n].labelled => Shared(idle, h)[n] = Shared(idle, h)[n - 1]
         /\ origin[n].labelled =>
              Shared(idle, h)[n] =
                Shared(idle, h)[n - 1]
                  \o Joined(HostParts(origin[n], n \in idle, h))[Len(origin[n].hosts)]
<1> DEFINE f == Shared(idle, h)
           parts == ServiceParts(idle, h)
           last == Joined(HostParts(origin[n], n \in idle, h))[Len(origin[n].hosts)]
<1>1. parts[n] = IF ~origin[n].labelled THEN << >> ELSE last
  BY DEF ServiceParts
<1>2. /\ Len(origin) \in Nat /\ Len(parts) = Len(origin)
      /\ f \in [0 .. Len(origin) -> Seq(Directives)] /\ IsJoin(f, parts)
  BY OfServices, Zenon
<1> HIDE DEF f, parts, last
<1>3. f[n - 1] \in Seq(Directives) /\ f[n] = f[n - 1] \o parts[n]
  <2>1. n - 1 \in 0 .. Len(origin)
    BY <1>2
  <2>2. n \in 1 .. Len(parts)
    BY <1>2
  <2>3. f[n] = f[n - 1] \o parts[n]
    BY <1>2, <2>2, Zenon DEF IsJoin
  <2> QED
    BY <1>2, <2>1, <2>3
<1>4. ~origin[n].labelled => f[n] = f[n - 1]
  BY <1>1, <1>3, ConcatEmptySeq
<1>5. origin[n].labelled => f[n] = f[n - 1] \o last
  BY <1>1, <1>3
<1> QED
  BY <1>3, <1>4, <1>5 DEF f, last

SameUpTo(k, a, b) == \A n \in 1 .. k : (n \in a) = (n \in b)

\* What was given does not depend on the containers of the services that follow.
LEMMA LaterServices ==
  ASSUME origin \in Seq(Services), NEW idle, NEW other, NEW h, NEW k \in 0 .. Len(origin),
         SameUpTo(k, idle, other)
  PROVE  Shared(idle, h)[k] = Shared(other, h)[k]
<1>1. /\ Len(origin) \in Nat
      /\ Len(ServiceParts(idle, h)) = Len(origin) /\ Len(ServiceParts(other, h)) = Len(origin)
      /\ IsJoin(Shared(idle, h), ServiceParts(idle, h))
      /\ IsJoin(Shared(other, h), ServiceParts(other, h))
  BY OfServices, Zenon
<1>2. ASSUME NEW n \in 1 .. k
      PROVE  ServiceParts(idle, h)[n] = ServiceParts(other, h)[n]
  <2>1. n \in 1 .. Len(origin) /\ (n \in idle) = (n \in other)
    BY <1>1 DEF SameUpTo
  <2> QED
    BY <2>1 DEF ServiceParts
<1>3. /\ k \in Nat /\ k <= Len(ServiceParts(idle, h)) /\ k <= Len(ServiceParts(other, h))
      /\ Len(ServiceParts(idle, h)) \in Nat /\ Len(ServiceParts(other, h)) \in Nat
  BY <1>1
<1> DEFINE f == Shared(idle, h)
           g == Shared(other, h)
           ps == ServiceParts(idle, h)
           qs == ServiceParts(other, h)
<1>4. /\ IsJoin(f, ps) /\ IsJoin(g, qs) /\ \A n \in 1 .. k : ps[n] = qs[n]
      /\ k \in Nat /\ k <= Len(ps) /\ k <= Len(qs) /\ Len(ps) \in Nat /\ Len(qs) \in Nat
  BY <1>1, <1>2, <1>3
<1> HIDE DEF f, g, ps, qs
<1>5. f[k] = g[k]
  BY <1>4, JoinsAgree
<1> QED
  BY <1>5 DEF f, g

-----------------------------------------------------------------------------
(***************************************************************************)
(* The labels                                                              *)
(***************************************************************************)

LEMMA OriginType ==
  ASSUME ServersTypeOK
  PROVE  /\ origin \in Seq(Services) /\ Len(origin) \in Nat
         /\ \A n \in 1 .. Len(origin) : origin[n] \in Services
<1>1. Labels \subseteq Seq(Services) /\ << >> \in Seq(Services)
  BY ServersAssumption, EmptySeq
<1>2. origin \in Seq(Services)
  BY <1>1 DEF ServersTypeOK
<1> QED
  BY <1>2, LenProperties, ElementOfSeq

LEMMA HeldType ==
  ASSUME ServersTypeOK, NEW h
  PROVE  Held(h) \in Seq(Directives)
BY EmptySeq DEF Held, ServersTypeOK, IsConfig

LEMMA LabelsInvInit ==
  ASSUME ServersInit
  PROVE  LabelsInv
<1>1. /\ phase = "labels" /\ entries = << >> /\ origin = services
      /\ origin # << >> => config = Empty /\ services \in Labels
  BY DEF ServersInit
<1> SUFFICES ASSUME origin # << >>
             PROVE  /\ \A h \in DOMAIN config : config[h] # << >>
                    /\ ServicesRead >= 0
                    /\ \A i \in 1 .. Len(services) : services[i] = origin[ServicesRead + i]
                    /\ \E idle \in SUBSET (1 .. ServicesRead) : ReadSoFar(idle)
  BY <1>1, Zenon DEF LabelsInv
<1>2. config = Empty /\ DOMAIN config = {}
  BY <1>1, EmptyHasNoDomain
<1>3. origin \in Seq(Services) /\ Len(origin) \in Nat
  BY <1>1, ServersAssumption
<1>4. ServicesRead = 0
  BY <1>1, <1>3 DEF ServicesRead
<1>5. ReadSoFar({})
  <2> SUFFICES ASSUME NEW h \in Host PROVE Held(h) = Shared({}, h)[0]
    BY <1>4 DEF ReadSoFar
  <2>1. Shared({}, h)[0] = << >>
    BY <1>3, OfServices DEF IsJoin
  <2> QED
    BY <1>2, <2>1 DEF Held
<1>6. /\ \A i \in 1 .. Len(services) : services[i] = origin[ServicesRead + i]
      /\ ServicesRead >= 0 /\ {} \in SUBSET (1 .. ServicesRead)
  BY <1>1, <1>3, <1>4
<1>7. \A h \in DOMAIN config : config[h] # << >>
  BY <1>2
<1> QED
  BY <1>5, <1>6, <1>7, Zenon

\* When the hosts of a service are entered there is nothing left of it.
LEMMA ServiceIsEntered ==
  ASSUME origin \in Seq(Services), NEW idle, NEW h, NEW n \in 1 .. Len(origin),
         origin[n].labelled, NEW held, NEW m, m = Len(origin[n].hosts),
         held = Shared(idle, h)[n - 1] \o Joined(HostParts(origin[n], n \in idle, h))[m]
  PROVE  held = Shared(idle, h)[n]
BY OneServiceMore, Zenon

\* One service is read: its entries are those of its hosts, with its containers or
\* without them.
LEMMA ReadLabelsKeepsLabels ==
  ASSUME ServersTypeOK, LabelsInv, ReadLabels
  PROVE  LabelsInv'
<1> DEFINE s == Head(services)
           n == ServicesRead + 1
<1>1. /\ phase = "labels" /\ entries = << >> /\ services # << >> /\ services' = Tail(services)
      /\ config' = config /\ origin' = origin
      /\ \/ ~s.labelled /\ entries' = << >> /\ phase' = "labels"
         \/ phase' = "failed"
         \/ /\ s.labelled /\ phase' = "labels"
            /\ \E proxy \in {s.proxy, s.idle_proxy} :
                 entries' = [i \in 1 .. Len(s.hosts) |-> Entry(s, proxy, s.hosts[i])]
  BY DEF ReadLabels
<1>2. CASE phase' = "failed"
  BY <1>2, Zenon DEF LabelsInv
<1>3. CASE origin = << >> /\ phase' = "labels"
  BY <1>1, <1>3, Zenon DEF LabelsInv
<1> SUFFICES ASSUME origin # << >>, phase' = "labels"
             PROVE  /\ \A h \in DOMAIN config' : config'[h] # << >>
                    /\ ServicesRead' >= 0
                    /\ \A i \in 1 .. Len(services') : services'[i] = origin'[ServicesRead' + i]
                    /\ \E idle \in SUBSET (1 .. ServicesRead') :
                         IF entries' = << >> THEN ReadSoFar(idle)' ELSE EnteredSoFar(idle)'
  BY <1>1, <1>2, <1>3, Zenon DEF LabelsInv
<1>4. /\ \A h \in DOMAIN config : config[h] # << >>
      /\ ServicesRead >= 0
      /\ \A i \in 1 .. Len(services) : services[i] = origin[ServicesRead + i]
      /\ \E idle \in SUBSET (1 .. ServicesRead) : ReadSoFar(idle)
  BY <1>1, Zenon DEF LabelsInv
<1>5. /\ services \in Seq(Services) /\ Len(services) \in Nat \ {0}
      /\ Len(services') = Len(services) - 1
      /\ \A i \in 1 .. Len(services') : services'[i] = services[i + 1]
      /\ services[1] = s
  BY <1>1, HeadTailProperties, LenProperties DEF ServersTypeOK
<1>6. /\ origin \in Seq(Services) /\ Len(origin) \in Nat
      /\ \A i \in 1 .. Len(origin) : origin[i] \in Services
  BY OriginType
<1>7. /\ ServicesRead = Len(origin) - Len(services) /\ ServicesRead \in Nat
      /\ ServicesRead' = n /\ n \in 1 .. Len(origin) /\ n - 1 = ServicesRead
      /\ ServicesRead \in 0 .. Len(origin)
  BY <1>1, <1>4, <1>5, <1>6 DEF ServicesRead
<1>8. \A i \in 1 .. Len(services') : services'[i] = origin'[ServicesRead' + i]
  <2> SUFFICES ASSUME NEW i \in 1 .. Len(services') PROVE services'[i] = origin[n + i]
    BY <1>1, <1>7
  <2>1. i + 1 \in 1 .. Len(services) /\ n + i = ServicesRead + (i + 1)
    BY <1>5, <1>7
  <2> QED
    BY <1>4, <1>5, <2>1
<1>9. origin[n] = s /\ s \in Services
  <2>1. 1 \in 1 .. Len(services)
    BY <1>5
  <2> QED
    BY <1>4, <1>5, <1>6, <1>7, <2>1
<1>10. PICK idle \in SUBSET (1 .. ServicesRead) : ReadSoFar(idle)
  BY <1>4
<1>11. \A h : Held(h)' = Held(h)
  BY <1>1 DEF Held
<1>12. /\ \A set, h : Shared(set, h)' = Shared(set, h)
       /\ \A x, gone, h : HostParts(x, gone, h)' = HostParts(x, gone, h)
  BY <1>1 DEF Shared, ServiceParts, HostParts, ProxyOf
<1> HIDE DEF s, n
<1>13. CASE ~s.labelled /\ entries' = << >>
  <2>1. ReadSoFar(idle)'
    <3> SUFFICES ASSUME NEW h \in Host PROVE Held(h) = Shared(idle, h)[n]
      BY <1>7, <1>11, <1>12 DEF ReadSoFar
    <3>1. Held(h) = Shared(idle, h)[n - 1]
      BY <1>7, <1>10 DEF ReadSoFar
    <3>2. Shared(idle, h)[n] = Shared(idle, h)[n - 1]
      BY <1>6, <1>7, <1>9, <1>13, OneServiceMore, Zenon
    <3> QED
      BY <3>1, <3>2
  <2>2. idle \in SUBSET (1 .. ServicesRead')
    BY <1>7
  <2> QED
    BY <1>1, <1>4, <1>7, <1>8, <1>13, <2>1, <2>2
<1>14. ASSUME s.labelled, NEW proxy \in {s.proxy, s.idle_proxy},
              entries' = [i \in 1 .. Len(s.hosts) |-> Entry(s, proxy, s.hosts[i])]
       PROVE  \E set \in SUBSET (1 .. ServicesRead') :
                IF entries' = << >> THEN ReadSoFar(set)' ELSE EnteredSoFar(set)'
  <2>1. PICK set \in SUBSET (1 .. n) :
          /\ \A i \in 1 .. n - 1 : i \in idle <=> i \in set
          /\ ProxyOf(s, n \in set) = proxy
    <3>1. n \notin idle /\ idle \in SUBSET (1 .. n)
      BY <1>7
    <3>2. CASE proxy = s.proxy
      BY <3>1, <3>2 DEF ProxyOf
    <3>3. CASE proxy # s.proxy
      <4> DEFINE more == idle \cup {n}
      <4>1. more \in SUBSET (1 .. n) /\ \A i \in 1 .. n - 1 : i \in idle <=> i \in more
        BY <1>7, <3>1
      <4>2. ProxyOf(s, n \in more) = proxy
        BY <1>14, <3>3 DEF ProxyOf
      <4> HIDE DEF more
      <4> QED
        BY <4>1, <4>2
    <3> QED
      BY <3>2, <3>3
  <2> DEFINE gone == n \in set
  <2>2. ProxyOf(s, gone) = proxy /\ gone \in BOOLEAN
    BY <2>1
  <2>3. ASSUME NEW h \in Host PROVE Held(h) = Shared(set, h)[n - 1]
    <3>1. Held(h) = Shared(idle, h)[n - 1]
      BY <1>7, <1>10 DEF ReadSoFar
    <3> DEFINE k == n - 1
    <3>2. k \in 0 .. Len(origin) /\ SameUpTo(k, idle, set)
      BY <1>7, <2>1 DEF SameUpTo
    <3> HIDE DEF k
    <3>3. Shared(idle, h)[k] = Shared(set, h)[k]
      BY <1>6, <3>2, LaterServices, SMTT(30)
    <3> USE DEF k
    <3> QED
      BY <3>1, <3>3
  <2>4. Len(s.hosts) \in Nat /\ Len(entries') = Len(s.hosts)
    <3>1. Len(s.hosts) \in Nat
      BY <1>9, ServersAssumption, LenProperties DEF IsService
    <3> QED
      BY <1>14, <3>1
  <2>5. ASSUME NEW h \in Host
        PROVE  Held(h) = Shared(set, h)[n - 1] \o Joined(HostParts(s, gone, h))[0]
    <3>1. Joined(HostParts(s, gone, h))[0] = << >>
      BY <1>9, <2>2, OfService, Zenon DEF IsJoin
    <3>2. Shared(set, h)[n - 1] \in Seq(Directives)
      BY <1>6, <1>7, OneServiceMore, Zenon
    <3> QED
      BY <2>3, <3>1, <3>2, ConcatEmptySeq
  <2>6. CASE entries' = << >>
    <3>1. Len(s.hosts) = 0
      BY <2>4, <2>6
    <3>2. ReadSoFar(set)'
      <4> SUFFICES ASSUME NEW h \in Host PROVE Held(h) = Shared(set, h)[n]
        BY <1>7, <1>11, <1>12 DEF ReadSoFar
      <4> DEFINE m == Len(s.hosts)
      <4>1. Held(h) = Shared(set, h)[n - 1] \o Joined(HostParts(s, gone, h))[m]
        BY <2>5, <3>1
      <4> HIDE DEF m, gone
      <4>2. Held(h) = Shared(set, h)[n - 1] \o Joined(HostParts(origin[n], n \in set, h))[m]
        BY <1>9, <4>1 DEF gone
      <4>3. m = Len(origin[n].hosts) /\ origin[n].labelled
        BY <1>9, <1>14 DEF m
      <4> QED
        BY <1>6, <1>7, <4>2, <4>3, ServiceIsEntered, Zenon
    <3> QED
      BY <1>7, <2>1, <2>6, <3>2
  <2>7. CASE entries' # << >>
    <3>1. EnteredSoFar(set)'
      <4>1. /\ ServicesRead' = n /\ n > 0 /\ origin' = origin /\ origin'[n] = s
            /\ Len(s.hosts) - Len(entries') = 0
        BY <1>1, <1>7, <1>9, <2>4
      <4>2. \A i \in 1 .. Len(entries') :
              entries'[i] = Entry(s, ProxyOf(s, gone), s.hosts[0 + i])
        BY <1>14, <2>2, <2>4
      <4>3. \A h \in Host :
              Held(h)' = Shared(set, h)'[n - 1] \o Joined(HostParts(s, gone, h))[0]
        BY <1>11, <1>12, <2>5
      <4> DEFINE m == Len(s.hosts) - Len(entries')
      <4>4. /\ m = 0 /\ m >= 0 /\ s.labelled
            /\ \A i \in 1 .. Len(entries') :
                 entries'[i] = Entry(s, ProxyOf(s, gone), s.hosts[m + i])
            /\ \A h \in Host :
                 Held(h)' = Shared(set, h)'[n - 1] \o Joined(HostParts(s, gone, h))[m]
        <5>1. m = 0
          BY <4>1
        <5> HIDE DEF m, gone
        <5>2. s.labelled /\ m >= 0
          BY <1>14, <5>1
        <5>3. \A i \in 1 .. Len(entries') :
                 entries'[i] = Entry(s, ProxyOf(s, gone), s.hosts[m + i])
          BY <4>2, <5>1
        <5>4. \A h \in Host :
                 Held(h)' = Shared(set, h)'[n - 1] \o Joined(HostParts(s, gone, h))[m]
          BY <4>3, <5>1
        <5> QED
          BY <5>1, <5>2, <5>3, <5>4, Zenon
      <4> HIDE DEF gone, m
      <4>5. ServicesRead' = n /\ n > 0 /\ origin'[n] = s /\ Len(s.hosts) - Len(entries') = m
        BY <4>1 DEF m
      <4> QED
        BY <4>4, <4>5 DEF EnteredSoFar, gone
    <3> QED
      BY <1>7, <2>1, <2>7, <3>1
  <2> QED
    BY <2>6, <2>7
<1>15. \E set \in SUBSET (1 .. ServicesRead') :
         IF entries' = << >> THEN ReadSoFar(set)' ELSE EnteredSoFar(set)'
  BY <1>1, <1>13, <1>14
<1>16. /\ \A h \in DOMAIN config' : config'[h] # << >>
       /\ ServicesRead' >= 0
  BY <1>1, <1>4, <1>7
<1> QED
  BY <1>8, <1>15, <1>16, Zenon

\* One host is entered: it holds what it held, and behind it what the service has for
\* it; the others hold what they held.
LEMMA EnterHostKeepsLabels ==
  ASSUME ServersTypeOK, LabelsInv, EnterHost
  PROVE  LabelsInv'
<1> DEFINE n == ServicesRead
           s == origin[n]
           e == Head(entries)
           g == e.host
           m == Len(s.hosts) - Len(entries)
<1>1. /\ entries # << >> /\ entries' = Tail(entries)
      /\ config' = HostExtended(config, e.host, e.directives)
      /\ phase' = phase /\ services' = services /\ origin' = origin /\ phase = "labels"
  BY DEF EnterHost, ServersTypeOK
<1>2. CASE origin = << >>
  BY <1>1, <1>2, Zenon DEF LabelsInv
<1> SUFFICES ASSUME origin # << >>
             PROVE  /\ \A h \in DOMAIN config' : config'[h] # << >>
                    /\ ServicesRead' >= 0
                    /\ \A i \in 1 .. Len(services') : services'[i] = origin'[ServicesRead' + i]
                    /\ \E idle \in SUBSET (1 .. ServicesRead') :
                         IF entries' = << >> THEN ReadSoFar(idle)' ELSE EnteredSoFar(idle)'
  BY <1>1, <1>2, Zenon DEF LabelsInv
<1>3. /\ ServicesRead' = n /\ n >= 0
      /\ \A i \in 1 .. Len(services') : services'[i] = origin'[ServicesRead' + i]
  <2>1. /\ ServicesRead >= 0
        /\ \A i \in 1 .. Len(services) : services[i] = origin[ServicesRead + i]
    BY <1>1, Zenon DEF LabelsInv
  <2>2. ServicesRead' = ServicesRead
    BY <1>1 DEF ServicesRead
  <2> QED
    BY <1>1, <2>1, <2>2
<1>4. /\ \A h \in DOMAIN config : config[h] # << >>
      /\ \E idle \in SUBSET (1 .. n) : EnteredSoFar(idle)
  BY <1>1, Zenon DEF LabelsInv
<1>5. PICK idle \in SUBSET (1 .. n) : EnteredSoFar(idle)
  BY <1>4
<1> DEFINE gone == n \in idle
<1>6. /\ n > 0 /\ m >= 0 /\ s.labelled
      /\ \A i \in 1 .. Len(entries) : entries[i] = Entry(s, ProxyOf(s, gone), s.hosts[m + i])
      /\ \A h \in Host : Held(h) = Shared(idle, h)[n - 1] \o Joined(HostParts(s, gone, h))[m]
  BY <1>5 DEF EnteredSoFar
<1>7. /\ origin \in Seq(Services) /\ Len(origin) \in Nat
      /\ \A i \in 1 .. Len(origin) : origin[i] \in Services
  BY OriginType
<1>8. n \in 1 .. Len(origin) /\ s \in Services
  <2>1. Len(services) \in Nat
    BY LenProperties DEF ServersTypeOK
  <2>2. n \in 1 .. Len(origin)
    BY <1>6, <1>7, <2>1 DEF ServicesRead
  <2> QED
    BY <1>7, <2>2
<1>9. /\ entries \in Seq([host : Host, directives : Seq(Directives)])
      /\ Len(entries) \in Nat \ {0} /\ e = entries[1] /\ e \in [host : Host, directives : Seq(Directives)]
      /\ Len(entries') = Len(entries) - 1
      /\ \A i \in 1 .. Len(entries') : entries'[i] = entries[i + 1]
      /\ entries' = << >> <=> Len(entries) = 1
  <2>1. entries \in Seq([host : Host, directives : Seq(Directives)])
    BY DEF ServersTypeOK
  <2>2. /\ Len(entries) \in Nat \ {0} /\ e = entries[1]
        /\ e \in [host : Host, directives : Seq(Directives)]
    <3>1. entries # << >>
      BY <1>1
    <3> DEFINE R == [host : Host, directives : Seq(Directives)]
    <3> HIDE DEF R
    <3>2. entries \in Seq(R)
      BY <2>1 DEF R
    <3>3. Len(entries) \in Nat \ {0} /\ Head(entries) = entries[1] /\ Head(entries) \in R
      BY <3>1, <3>2, HeadTailProperties, LenProperties, EmptySeq
    <3> QED
      BY <3>3 DEF R
  <2>3. /\ entries' \in Seq([host : Host, directives : Seq(Directives)])
        /\ Len(entries') = Len(entries) - 1
        /\ \A i \in 1 .. Len(entries') : entries'[i] = entries[i + 1]
    <3>1. entries # << >> /\ entries' = Tail(entries)
      BY <1>1
    <3> QED
      BY <2>1, <3>1
  <2>4. entries' = << >> <=> Len(entries') = 0
    BY <2>3, EmptySeq
  <2> QED
    BY <2>1, <2>2, <2>3, <2>4
<1>10. Len(s.hosts) \in Nat /\ \A i \in 1 .. Len(s.hosts) : s.hosts[i] \in Host
  BY <1>8, HostPartsType, Zenon
<1> HIDE DEF n, s, e
<1>11. m \in Nat /\ m + 1 \in 1 .. Len(s.hosts) /\ Len(s.hosts) - Len(entries') = m + 1
  BY <1>6, <1>9, <1>10
<1> HIDE DEF m
<1>12. e = Entry(s, ProxyOf(s, gone), s.hosts[m + 1])
  BY <1>6, <1>9
<1>13. g = s.hosts[m + 1] /\ g \in Host /\ e.directives \in Seq(Directives)
  BY <1>9, <1>12 DEF Entry
<1>14. HostParts(s, gone, g)[m + 1] = e.directives /\ e.directives # << >>
  <2>1. e.directives = IF g \in DOMAIN s.secrets THEN <<ProxyOf(s, gone), s.secrets[g]>>
                       ELSE <<ProxyOf(s, gone)>>
    BY <1>12, <1>13 DEF Entry
  <2>2. e.directives # << >>
    BY <2>1
  <2>3. HostParts(s, gone, g)[m + 1] = e.directives
    BY <1>11, <1>13, <2>1 DEF HostParts
  <2> QED
    BY <2>2, <2>3
<1>15. \A h : h # g => HostParts(s, gone, h)[m + 1] = << >>
  BY <1>11, <1>13 DEF HostParts
<1>16. ASSUME NEW h \in Host
       PROVE  Held(h)' = Held(h) \o HostParts(s, gone, h)[m + 1]
  <2>1. Held(h) \in Seq(Directives)
    BY HeldType
  <2>2. config' = Put(config, g, IF g \in DOMAIN config THEN config[g] \o e.directives ELSE e.directives)
    BY <1>1 DEF HostExtended
  <2>3. CASE h = g
    <3>1. h \in DOMAIN config' /\ Held(h)' = config'[h]
      BY <2>2, <2>3 DEF Put, Held
    <3>2. config'[h] = IF g \in DOMAIN config THEN config[g] \o e.directives ELSE e.directives
      BY <2>2, <2>3 DEF Put
    <3>3. CASE g \in DOMAIN config
      BY <1>14, <2>3, <3>1, <3>2, <3>3 DEF Held
    <3>4. CASE g \notin DOMAIN config
      <4>1. Held(h) = << >> /\ Held(h)' = e.directives
        BY <2>3, <3>1, <3>2, <3>4 DEF Held
      <4> QED
        BY <1>13, <1>14, <2>3, <4>1, ConcatEmptySeq
    <3> QED
      BY <3>3, <3>4
  <2>4. CASE h # g
    <3>1. (h \in DOMAIN config' <=> h \in DOMAIN config) /\ (h \in DOMAIN config => config'[h] = config[h])
      BY <2>2, <2>4 DEF Put
    <3>2. Held(h)' = Held(h)
      BY <3>1 DEF Held
    <3> QED
      BY <1>15, <2>1, <2>4, <3>2, ConcatEmptySeq
  <2> QED
    BY <2>3, <2>4
<1>17. \A h \in DOMAIN config' : config'[h] # << >>
  <2> SUFFICES ASSUME NEW h \in DOMAIN config' PROVE config'[h] # << >>
    OBVIOUS
  <2>1. config' = Put(config, g, IF g \in DOMAIN config THEN config[g] \o e.directives ELSE e.directives)
    BY <1>1 DEF HostExtended
  <2>2. CASE h # g
    BY <1>4, <2>1, <2>2 DEF Put
  <2>3. CASE h = g /\ g \notin DOMAIN config
    BY <1>14, <2>1, <2>3 DEF Put
  <2>4. CASE h = g /\ g \in DOMAIN config
    <3>1. config'[h] = config[g] \o e.directives
      BY <2>1, <2>4 DEF Put
    <3>2. config[g] \in Seq(Directives) /\ Len(e.directives) # 0
      BY <1>13, <1>14, <2>4, EmptySeq DEF ServersTypeOK, IsConfig
    <3> DEFINE x == config[g]
               y == e.directives
    <3> HIDE DEF x, y
    <3>3. x \in Seq(Directives) /\ y \in Seq(Directives) /\ y # << >>
      BY <1>13, <1>14, <3>2 DEF x, y
    <3>4. x \o y # << >>
      BY <3>3
    <3> QED
      BY <3>1, <3>4 DEF x, y
  <2> QED
    BY <2>2, <2>3, <2>4
<1>18. /\ \A set, h : Shared(set, h)' = Shared(set, h)
       /\ \A x, y, h : HostParts(x, y, h)' = HostParts(x, y, h)
  BY <1>1 DEF Shared, ServiceParts, HostParts, ProxyOf
<1> HIDE DEF gone, g
<1>19. ASSUME NEW h \in Host
       PROVE  Held(h)' = Shared(idle, h)[n - 1] \o Joined(HostParts(s, gone, h))[m + 1]
  <2> DEFINE a == Shared(idle, h)[n - 1]
             j == Joined(HostParts(s, gone, h))
             p == HostParts(s, gone, h)[m + 1]
  <2>1. a \in Seq(Directives)
    BY <1>7, <1>8, OneServiceMore, Zenon DEF s, n
  <2>2. /\ j \in [0 .. Len(s.hosts) -> Seq(Directives)]
        /\ IsJoin(j, HostParts(s, gone, h))
        /\ p \in Seq(Directives)
        /\ Len(HostParts(s, gone, h)) = Len(s.hosts)
    <3>1. gone \in BOOLEAN
      BY DEF gone
    <3> QED
      BY <1>8, <1>11, <3>1, OfService, HostPartsType, Zenon
  <2>3. Held(h) = a \o j[m]
    BY <1>6
  <2>4. Held(h)' = Held(h) \o p
    BY <1>16
  <2> HIDE DEF a, j
  <2>5. j[m + 1] = j[m] \o p /\ j[m] \in Seq(Directives)
    <3> DEFINE k == m + 1
    <3>1. k \in 1 .. Len(s.hosts) /\ k - 1 = m /\ m \in 0 .. Len(s.hosts)
      BY <1>10, <1>11
    <3> HIDE DEF k
    <3>2. j[k] = j[k - 1] \o HostParts(s, gone, h)[k]
      BY <2>2, <3>1 DEF IsJoin
    <3> QED
      BY <2>2, <3>1, <3>2 DEF k
  <2> HIDE DEF p
  <2>6. (a \o j[m]) \o p = a \o (j[m] \o p)
    <3> DEFINE b == j[m]
    <3>1. b \in Seq(Directives) /\ p \in Seq(Directives)
      BY <2>2, <2>5
    <3> HIDE DEF b
    <3>2. (a \o b) \o p = a \o (b \o p)
      BY <2>1, <3>1, ConcatAssociative
    <3> QED
      BY <3>2 DEF b
  <2>7. Held(h)' = a \o j[m + 1]
    BY <2>3, <2>4, <2>5, <2>6, Zenon
  <2> QED
    BY <2>7 DEF a, j
<1> SUFFICES \E set \in SUBSET (1 .. ServicesRead') :
               IF entries' = << >> THEN ReadSoFar(set)' ELSE EnteredSoFar(set)'
  <2>1. ServicesRead' >= 0
    BY <1>3
  <2>2. \A i \in 1 .. Len(services') : services'[i] = origin'[ServicesRead' + i]
    BY <1>3
  <2> QED
    BY <1>17, <2>1, <2>2, Zenon
<1>20. CASE entries' = << >>
  <2>1. m + 1 = Len(s.hosts)
    <3>1. Len(entries') = 0
      BY <1>20
    <3> QED
      BY <1>10, <1>11, <3>1
  <2>2. ReadSoFar(idle)'
    <3> SUFFICES ASSUME NEW h \in Host PROVE Held(h)' = Shared(idle, h)[n]
      BY <1>3, <1>18 DEF ReadSoFar, n
    <3> DEFINE held == Held(h)'
               k == m + 1
    <3>1. held = Shared(idle, h)[n - 1] \o Joined(HostParts(origin[n], n \in idle, h))[k]
      BY <1>19 DEF s, gone
    <3>2. k = Len(origin[n].hosts) /\ origin[n].labelled
      BY <1>6, <2>1 DEF s
    <3> HIDE DEF held, k
    <3>3. held = Shared(idle, h)[n]
      BY <1>7, <1>8, <3>1, <3>2, ServiceIsEntered, Zenon
    <3> QED
      BY <3>3 DEF held
  <2> QED
    BY <1>3, <1>20, <2>2
<1>21. CASE entries' # << >>
  <2>1. EnteredSoFar(idle)'
    <3>1. /\ ServicesRead' = n /\ n > 0 /\ origin' = origin /\ origin'[n] = s
          /\ Len(s.hosts) - Len(entries') = m + 1
      BY <1>1, <1>3, <1>6, <1>11 DEF n, s
    <3>2. \A i \in 1 .. Len(entries') :
            entries'[i] = Entry(s, ProxyOf(s, gone), s.hosts[(m + 1) + i])
      <4> SUFFICES ASSUME NEW i \in 1 .. Len(entries')
                   PROVE  entries'[i] = Entry(s, ProxyOf(s, gone), s.hosts[(m + 1) + i])
        OBVIOUS
      <4>1. i + 1 \in 1 .. Len(entries) /\ m + (i + 1) = (m + 1) + i
        BY <1>9, <1>11
      <4> QED
        BY <1>6, <1>9, <4>1
    <3>3. \A h \in Host :
            Held(h)' = Shared(idle, h)'[n - 1] \o Joined(HostParts(s, gone, h))[m + 1]
      BY <1>18, <1>19
    <3>4. m + 1 >= 0 /\ s.labelled
      BY <1>6, <1>11
    <3> QED
      BY <3>1, <3>2, <3>3, <3>4 DEF EnteredSoFar, gone
  <2> QED
    BY <1>3, <1>21, <2>1
<1> QED
  BY <1>20, <1>21

\* What build_servers does leaves the configuration as it was read.
LEMMA OthersKeepLabels ==
  ASSUME LabelsInv, phase # "failed", services' = services, entries' = entries,
         config' = config, origin' = origin,
         phase' = phase \/ (services = << >> /\ entries = << >>)
  PROVE  LabelsInv'
<1>1. /\ phase' \in {"build", "built"} => services' = << >> /\ entries' = << >>
      /\ ServicesRead' = ServicesRead
      /\ \A idle : ReadSoFar(idle)' = ReadSoFar(idle)
      /\ \A idle : EnteredSoFar(idle)' = EnteredSoFar(idle)
  <2>1. /\ ServicesRead' = ServicesRead
        /\ \A h : Held(h)' = Held(h)
        /\ \A idle, h : Shared(idle, h)' = Shared(idle, h)
        /\ \A x, y, h : HostParts(x, y, h)' = HostParts(x, y, h)
        /\ \A x, y, h : Entry(x, y, h)' = Entry(x, y, h)
    BY DEF ServicesRead, Held, Shared, ServiceParts, HostParts, ProxyOf, Entry
  <2>2. \A idle : ReadSoFar(idle)' = ReadSoFar(idle)
    BY <2>1 DEF ReadSoFar
  <2>3. \A idle : EnteredSoFar(idle)' = EnteredSoFar(idle)
    BY <2>1 DEF EnteredSoFar
  <2>4. phase' \in {"build", "built"} => services' = << >> /\ entries' = << >>
    BY DEF LabelsInv
  <2> QED
    BY <2>1, <2>2, <2>3, <2>4
<1>2. CASE origin = << >>
  BY <1>1, <1>2, Zenon DEF LabelsInv
<1>3. CASE origin # << >>
  <2>1. /\ \A h \in DOMAIN config : config[h] # << >>
        /\ ServicesRead >= 0
        /\ \A i \in 1 .. Len(services) : services[i] = origin[ServicesRead + i]
        /\ \E idle \in SUBSET (1 .. ServicesRead) :
             IF entries = << >> THEN ReadSoFar(idle) ELSE EnteredSoFar(idle)
    BY <1>3, Zenon DEF LabelsInv
  <2>2. /\ \A h \in DOMAIN config' : config'[h] # << >>
        /\ ServicesRead' >= 0
        /\ \A i \in 1 .. Len(services') : services'[i] = origin'[ServicesRead' + i]
    BY <1>1, <2>1
  <2>3. \E idle \in SUBSET (1 .. ServicesRead') :
          IF entries' = << >> THEN ReadSoFar(idle)' ELSE EnteredSoFar(idle)'
    BY <1>1, <2>1
  <2> QED
    BY <1>1, <2>2, <2>3, Zenon DEF LabelsInv
<1> QED
  BY <1>2, <1>3

LEMMA LabelsInvStep ==
  ASSUME ServersTypeOK, LabelsInv, [ServersNext]_server_vars
  PROVE  LabelsInv'
<1>1. CASE ReadLabels
  BY <1>1, ReadLabelsKeepsLabels
<1>2. CASE EnterHost
  BY <1>2, EnterHostKeepsLabels
<1>3. CASE BeginBuild
  BY <1>3, OthersKeepLabels DEF BeginBuild
<1>4. ASSUME NEW h \in Host, Visit(h) PROVE LabelsInv'
  BY <1>4, OthersKeepLabels DEF Visit
<1>5. CASE Built
  <2>1. services = << >> /\ entries = << >>
    BY <1>5 DEF Built, LabelsInv
  <2> QED
    BY <1>5, <2>1, OthersKeepLabels DEF Built
<1>6. CASE UNCHANGED server_vars
  <2>1. CASE phase = "failed"
    BY <1>6, <2>1, Zenon DEF server_vars, LabelsInv
  <2>2. CASE phase # "failed"
    BY <1>6, <2>2, OthersKeepLabels DEF server_vars
  <2> QED
    BY <2>1, <2>2
<1> QED
  BY <1>1, <1>2, <1>3, <1>4, <1>5, <1>6 DEF ServersNext

LEMMA ServersInvInit ==
  ASSUME ServersInit
  PROVE  ServersInv
BY BuildInvInit, LabelsInvInit DEF ServersInv

LEMMA ServersInvStep ==
  ASSUME ServersTypeOK, ServersInv, [ServersNext]_server_vars
  PROVE  ServersInv'
BY BuildInvStep, LabelsInvStep DEF ServersInv

-----------------------------------------------------------------------------
(***************************************************************************)
(* The theorems                                                            *)
(***************************************************************************)

\* The inductive invariant of load_servers_from_docker and build_servers, for every
\* order of the HashMap.
THEOREM ServersInvariant == ServersSpec => [](ServersTypeOK /\ ServersInv)
<1>1. ServersInit => ServersTypeOK /\ ServersInv
  BY ServersTypeInit, ServersInvInit
<1>2. ServersTypeOK /\ ServersInv /\ [ServersNext]_server_vars => (ServersTypeOK /\ ServersInv)'
  BY ServersTypeStep, ServersInvStep
<1> QED
  BY <1>1, <1>2, PTL DEF ServersSpec

\* The servers of an unambiguous configuration do not depend on the order in which
\* build_servers (main.rs:217) visits its hosts.
THEOREM OrderNeverMatters == ServersSpec => []OrderDoesNotMatter
<1>1. ServersTypeOK /\ ServersInv => OrderDoesNotMatter
  <2> SUFFICES ASSUME ServersInv, phase = "built", Unambiguous
               PROVE  /\ DOMAIN servers = {PortOf(h) : h \in DOMAIN config}
                      /\ \A p \in DOMAIN servers :
                           /\ servers[p].hosts = [h \in On(p) |-> config[h]]
                           /\ \A h \in On(p) : servers[p].cert = CertOf(config[h])
    BY DEF OrderDoesNotMatter
  <2>1. BuiltSoFar /\ Visited = DOMAIN config
    BY DEF ServersInv, BuildInv, Visited
  <2>2. \A p : On(p) \cap Visited = On(p)
    BY <2>1 DEF On
  <2> QED
    BY <2>1, <2>2 DEF BuiltSoFar
<1> QED
  BY <1>1, ServersInvariant, PTL

\* No host is answered with the directives of another name that does not begin with
\* "*", whatever the order of the visits (main.rs:236, directive.rs:46).
THEOREM NoSiteIsForeign == ServersSpec => []NoForeignSite
<1>1. ServersTypeOK /\ ServersInv => NoForeignSite
  <2> SUFFICES ASSUME ServersTypeOK, ServersInv, phase = "built",
                      NEW p \in DOMAIN servers, NEW header \in Host, NEW site \in Sites(p, header)
               PROVE  \E h \in DOMAIN config :
                        /\ config[h] = site /\ PortOf(h) = p
                        /\ h.name = header.name \/ h.name \in StarNames
    BY DEF NoForeignSite
  <2>1. PICK k \in KeysFor(p, header) : site = servers[p].hosts[k]
    BY DEF Sites
  <2>2. k \in Keys(p) /\ (k.name \in StarNames \/ k = header)
    BY <2>1 DEF KeysFor, StarKeys
  <2>3. PICK h \in Visited :
          PortOf(h) = p /\ servers[p].hosts[k] = config[h] /\ k \in {h, Stripped(h)}
    BY <2>2 DEF ServersInv, BuildInv, SitesBelong
  <2>4. h \in DOMAIN config /\ h \in Host
    BY <2>3 DEF Visited, ServersTypeOK, IsConfig
  <2>5. k.name = h.name
    BY <2>3, <2>4, StrippedFacts
  <2> QED
    BY <2>1, <2>2, <2>3, <2>4, <2>5
<1> QED
  BY <1>1, ServersInvariant, PTL

\* A host that several docker services name holds what each of them has for it, in the
\* order of the services, and a host that none names is not there (config.rs:326).
THEOREM SharedHostsHoldAll == ServersSpec => []HostsShareServices
<1>1. ServersTypeOK /\ ServersInv => HostsShareServices
  <2> SUFFICES ASSUME ServersTypeOK, ServersInv, phase = "built", origin # << >>
               PROVE  /\ \A h \in DOMAIN config : config[h] # << >>
                      /\ \E idle \in SUBSET (1 .. Len(origin)) : \A h \in Host :
                           Held(h) = Shared(idle, h)[Len(origin)]
    BY DEF HostsShareServices
  <2>1. /\ services = << >> /\ entries = << >>
        /\ \A h \in DOMAIN config : config[h] # << >>
        /\ \E idle \in SUBSET (1 .. ServicesRead) : ReadSoFar(idle)
    BY Zenon DEF ServersInv, LabelsInv
  <2>2. ServicesRead = Len(origin)
    BY <2>1, OriginType DEF ServicesRead
  <2> QED
    BY <2>1, <2>2 DEF ReadSoFar
<1> QED
  BY <1>1, ServersInvariant, PTL
=============================================================================
