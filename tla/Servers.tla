------------------------------ MODULE Servers ------------------------------
(***************************************************************************)
(* From a configuration to the servers of its ports: the labels of docker  *)
(* services, read one service after the other (load_servers_from_docker,   *)
(* src/src/config.rs), or a Cbltfile, and build_servers (src/src/main.rs), *)
(* which visits the hosts in the order of a HashMap, that is in any order. *)
(*                                                                         *)
(* A host string is a record of its two parts, "name" or "name:port"; the  *)
(* key of a server's map is such a string again.                           *)
(***************************************************************************)
EXTENDS Naturals, Sequences, SequencesExt

CONSTANTS
  Names,       \* the names before the ":" of a host string
  StarNames,   \* those that begin with "*"
  PortNumbers, \* the port numbers that occur
  NoPort,      \* a host string without ":"
  BadPort,     \* what follows the ":" is not a u16
  NoCert,      \* no tls directive
  Directives,  \* the directives that occur, records with a kind
  Cbltfiles,   \* what build_config may return: host -> its directives
  Services,    \* the docker services that occur
  Labels       \* the lists of services docker may report

Host == [name : Names, port : PortNumbers \cup {NoPort, BadPort}]

(***************************************************************************)
(* A service is what its labels say: labelled (one begins with "cblt."),   *)
(* valid (none is missing or malformed, and it has a name), the list of    *)
(* hosts, secrets (host -> its tls directive), and the directive it is     *)
(* proxied by, proxy with its containers and idle_proxy without any.       *)
(***************************************************************************)
IsService(s) ==
  /\ {s.labelled, s.valid} \subseteq BOOLEAN
  /\ s.hosts \in Seq(Host) /\ {s.proxy, s.idle_proxy} \subseteq Directives
  /\ \A h \in DOMAIN s.secrets : s.secrets[h] \in Directives

IsConfig(c) == DOMAIN c \subseteq Host /\ \A h \in DOMAIN c : c[h] \in Seq(Directives)

ASSUME ServersAssumption ==
  /\ StarNames \subseteq Names
  /\ {80, 443} \subseteq PortNumbers /\ PortNumbers \subseteq Nat
  /\ NoPort \notin PortNumbers /\ BadPort \notin PortNumbers
  /\ \A c \in Cbltfiles : IsConfig(c)
  /\ \A s \in Services : IsService(s)
  /\ Labels \subseteq Seq(Services)

VARIABLES
  phase,     \* "labels", "build", "built" or "failed"
  services,  \* the services whose labels have not been read yet
  entries,   \* what the service that is read has still to enter into config
  config,    \* host -> its directives
  unbuilt,   \* the hosts build_servers has not visited yet
  servers,   \* port -> [hosts: key -> directives, cert]
  origin     \* history: the list of services the configuration comes from

server_vars == <<phase, services, entries, config, unbuilt, servers, origin>>

Empty == << >>

ServersInit ==
  /\ phase = "labels" /\ entries = << >> /\ unbuilt = {} /\ servers = Empty
  /\ \/ config \in Cbltfiles /\ services = << >>
     \/ config = Empty /\ services \in Labels
  /\ origin = services

-----------------------------------------------------------------------------
(***************************************************************************)
(* load_servers_from_docker                                                *)
(***************************************************************************)

Put(f, k, v) == [x \in DOMAIN f \cup {k} |-> IF x = k THEN v ELSE f[x]]

HostReplaced(c, h, ds) == Put(c, h, ds)   \* a variant the runs must reject

\* hosts.entry(host).or_default(), then push.
HostExtended(c, h, ds) ==
  Put(c, h, IF h \in DOMAIN c THEN c[h] \o ds ELSE ds)

\* What a service pushes for each of its hosts.
Entry(s, proxy, h) ==
  [host |-> h,
   directives |-> IF h \in DOMAIN s.secrets THEN <<proxy, s.secrets[h]>> ELSE <<proxy>>]

\* The containers are listed anew for each service that is labelled: it may have
\* none by then, and the directive is made all the same, without destinations.  A
\* missing label, a container without a name or an error of docker ends the load.
ReadLabels ==
  /\ phase = "labels" /\ entries = << >> /\ services # << >>
  /\ services' = Tail(services)
  /\ LET s == Head(services) IN
       \/ /\ ~s.labelled
          /\ UNCHANGED <<entries, phase>>
       \/ /\ s.labelled
          /\ phase' = "failed"
          /\ UNCHANGED entries
       \/ /\ s.labelled /\ s.valid
          /\ \E proxy \in {s.proxy, s.idle_proxy} :
               entries' = [i \in 1 .. Len(s.hosts) |-> Entry(s, proxy, s.hosts[i])]
          /\ UNCHANGED phase
  /\ UNCHANGED <<config, unbuilt, servers, origin>>

\* One turn of the loop over hosts_list.
EnterHost ==
  /\ entries # << >>
  /\ entries' = Tail(entries)
  /\ config' = HostExtended(config, Head(entries).host, Head(entries).directives)
  /\ UNCHANGED <<phase, services, unbuilt, servers, origin>>

BeginBuild ==
  /\ phase = "labels" /\ entries = << >> /\ services = << >>
  /\ phase' = "build"
  /\ unbuilt' = DOMAIN config
  /\ UNCHANGED <<services, entries, config, servers, origin>>

-----------------------------------------------------------------------------
(***************************************************************************)
(* build_servers                                                           *)
(***************************************************************************)

Certs(ds) == SelectSeq(ds, LAMBDA d : d.kind = "tls")

\* The last tls directive counts.
CertOf(ds) == IF Certs(ds) = << >> THEN NoCert ELSE Last(Certs(ds)).cert

PortOf(h) ==
  IF h.port \in PortNumbers THEN h.port
  ELSE IF Certs(config[h]) = << >> THEN 80 ELSE 443

\* ParsedHost::host.
Stripped(h) == [h EXCEPT !.port = NoPort]

HostsAfresh(h) == Put(Empty, Stripped(h), config[h])   \* a variant

\* The first host of a port is entered without its port, every further one
\* under its full string.
HostsWith(h) ==
  IF PortOf(h) \notin DOMAIN servers
  THEN Put(Empty, Stripped(h), config[h])
  ELSE Put(servers[PortOf(h)].hosts, h, config[h])

\* The certificate of a port is that of the host visited last.
Visit(h) ==
  /\ phase = "build" /\ h \in unbuilt
  /\ unbuilt' = unbuilt \ {h}
  /\ servers' = Put(servers, PortOf(h), [hosts |-> HostsWith(h), cert |-> CertOf(config[h])])
  /\ UNCHANGED <<phase, services, entries, config, origin>>

Built ==
  /\ phase = "build" /\ unbuilt = {}
  /\ phase' = "built"
  /\ UNCHANGED <<services, entries, config, unbuilt, servers, origin>>

ServersTypeOK ==
  /\ phase \in {"labels", "build", "built", "failed"}
  /\ services \in Seq(Services) /\ origin \in Labels \cup {<< >>}
  /\ entries \in Seq([host : Host, directives : Seq(Directives)])
  /\ entries # << >> => phase = "labels"
  /\ IsConfig(config) /\ unbuilt \subseteq DOMAIN config
  /\ DOMAIN servers \subseteq PortNumbers
  /\ \A p \in DOMAIN servers :
       /\ DOMAIN servers[p].hosts \subseteq Host
       /\ \A k \in DOMAIN servers[p].hosts : servers[p].hosts[k] \in Seq(Directives)

ServersNext ==
  ReadLabels \/ EnterHost \/ BeginBuild \/ (\E h \in Host : Visit(h)) \/ Built

ServersSpec == ServersInit /\ [][ServersNext]_server_vars

(***************************************************************************)
(* directive_process, how it finds the directives of a request: any host   *)
(* that begins with "*" goes before the one that was asked for, and the    *)
(* Host header is compared as it is.                                       *)
(***************************************************************************)
Keys(p) == DOMAIN servers[p].hosts
StarKeys(p) == {k \in Keys(p) : k.name \in StarNames}

\* A variant: who asks for an unknown host gets any.
KeysOrAny(p, header) == IF header \in Keys(p) THEN {header} ELSE Keys(p)

KeysFor(p, header) == IF StarKeys(p) # {} THEN StarKeys(p) ELSE Keys(p) \cap {header}

Sites(p, header) == {servers[p].hosts[k] : k \in KeysFor(p, header)}

-----------------------------------------------------------------------------
(***************************************************************************)
(* Properties                                                              *)
(***************************************************************************)

\* No host string with a port, and one certificate (or none) for each port.
Unambiguous ==
  \A h, g \in DOMAIN config :
    /\ h.port = NoPort
    /\ PortOf(h) = PortOf(g) => CertOf(config[h]) = CertOf(config[g])

(***************************************************************************)
(* What build_servers makes of an unambiguous configuration does not       *)
(* depend on the order of the HashMap: every host under its name at the    *)
(* port its tls directive decides, with the port's certificate.  Otherwise *)
(* it may: which of two certificates port 443 serves, whether a port with  *)
(* a TLS and a plain host speaks TLS, and under which string a host with a *)
(* port is found (main.rs:236) differ from one load to the next.           *)
(***************************************************************************)
On(p) == {h \in DOMAIN config : PortOf(h) = p}

OrderDoesNotMatter ==
  (phase = "built" /\ Unambiguous) =>
    /\ DOMAIN servers = {PortOf(h) : h \in DOMAIN config}
    /\ \A p \in DOMAIN servers :
         /\ servers[p].hosts = [h \in On(p) |-> config[h]]
         /\ \A h \in On(p) : servers[p].cert = CertOf(config[h])

(***************************************************************************)
(* No host is answered with the directives of another name, in any order   *)
(* of visits and with ports given or not: what is found for a Host header  *)
(* belongs to a host of the configuration with that name and this port, or *)
(* to one that begins with "*".                                            *)
(***************************************************************************)
NoForeignSite ==
  phase = "built" =>
    \A p \in DOMAIN servers, header \in Host : \A site \in Sites(p, header) :
      \E h \in DOMAIN config :
        /\ config[h] = site /\ PortOf(h) = p
        /\ h.name = header.name \/ h.name \in StarNames

(***************************************************************************)
(* The strengthening: what build_servers has made after some of its        *)
(* visits.  Every key of a port leads to a host that was visited and is    *)
(* its string, with the port or without it.                                *)
(***************************************************************************)
Visited == DOMAIN config \ unbuilt

SitesBelong ==
  \A p \in DOMAIN servers : \A k \in Keys(p) :
    \E h \in Visited :
      PortOf(h) = p /\ servers[p].hosts[k] = config[h] /\ k \in {h, Stripped(h)}

BuiltSoFar ==
  /\ DOMAIN servers = {PortOf(h) : h \in Visited}
  /\ Unambiguous =>
       \A p \in DOMAIN servers :
         /\ servers[p].hosts = [h \in On(p) \cap Visited |-> config[h]]
         /\ \A h \in On(p) \cap Visited : servers[p].cert = CertOf(config[h])

BuildInv ==
  /\ phase \in {"labels", "failed"} => servers = Empty /\ unbuilt = {}
  /\ phase = "built" => unbuilt = {}
  /\ SitesBelong
  /\ phase \in {"build", "built"} => BuiltSoFar

(***************************************************************************)
(* Docker mode: a host that several services share gets the directives of  *)
(* all of them and nothing else, in the order of the services, with its    *)
(* certificate behind the proxy of the service that names it; and a host   *)
(* that no service names is not there.  Which of the services had lost     *)
(* their containers when their turn came is not known: idle is the set of  *)
(* those that had.                                                         *)
(***************************************************************************)
Joined(parts) ==
  LET join[n \in 0 .. Len(parts)] == IF n = 0 THEN << >> ELSE join[n - 1] \o parts[n]
  IN join

ProxyOf(s, gone) == IF gone THEN s.idle_proxy ELSE s.proxy

\* What s holds for h, host by host.
HostParts(s, gone, h) ==
  [n \in 1 .. Len(s.hosts) |->
     IF s.hosts[n] # h THEN << >>
     ELSE IF h \in DOMAIN s.secrets THEN <<ProxyOf(s, gone), s.secrets[h]>>
     ELSE <<ProxyOf(s, gone)>>]

\* What the services hold for h, service by service.
ServiceParts(idle, h) ==
  [i \in 1 .. Len(origin) |->
     IF ~origin[i].labelled THEN << >>
     ELSE Joined(HostParts(origin[i], i \in idle, h))[Len(origin[i].hosts)]]

Shared(idle, h) == Joined(ServiceParts(idle, h))

Held(h) == IF h \in DOMAIN config THEN config[h] ELSE << >>

HostsShareServices ==
  (phase = "built" /\ origin # << >>) =>
    /\ \A h \in DOMAIN config : config[h] # << >>
    /\ \E idle \in SUBSET (1 .. Len(origin)) : \A h \in Host :
         Held(h) = Shared(idle, h)[Len(origin)]

(***************************************************************************)
(* The strengthening: the services are read one after the other, and while *)
(* the hosts of one of them are entered, each host of the configuration    *)
(* holds what the services before gave it and what this one gave so far.   *)
(***************************************************************************)
ServicesRead == Len(origin) - Len(services)

ReadSoFar(idle) ==
  \A h \in Host : Held(h) = Shared(idle, h)[ServicesRead]

EnteredSoFar(idle) ==
  LET s == origin[ServicesRead]
      gone == ServicesRead \in idle
      entered == Len(s.hosts) - Len(entries)
  IN /\ ServicesRead > 0 /\ entered >= 0 /\ s.labelled
     /\ \A i \in 1 .. Len(entries) :
          entries[i] = Entry(s, ProxyOf(s, gone), s.hosts[entered + i])
     /\ \A h \in Host :
          Held(h) = Shared(idle, h)[ServicesRead - 1] \o Joined(HostParts(s, gone, h))[entered]

LabelsInv ==
  /\ phase \in {"build", "built"} => services = << >> /\ entries = << >>
  /\ (origin # << >> /\ phase # "failed") =>
       /\ \A h \in DOMAIN config : config[h] # << >>
       /\ ServicesRead >= 0
       /\ \A i \in 1 .. Len(services) : services[i] = origin[ServicesRead + i]
       /\ \E idle \in SUBSET (1 .. ServicesRead) :
            IF entries = << >> THEN ReadSoFar(idle) ELSE EnteredSoFar(idle)

ServersInv == BuildInv /\ LabelsInv

(***************************************************************************)
(* README.md:74 configures the host "127.0.0.1:8080": a host is found when *)
(* it is asked for at its own address, the way clients write it into the   *)
(* Host header, with the port unless it is the default of the protocol.    *)
(***************************************************************************)
Address(h) ==
  LET default == IF Certs(config[h]) = << >> THEN 80 ELSE 443 IN
  [name |-> h.name, port |-> IF PortOf(h) = default THEN NoPort ELSE PortOf(h)]

Alone(h) ==
  /\ h.name \notin StarNames /\ h.port # BadPort
  /\ \A g \in DOMAIN config \ {h} :
       PortOf(g) = PortOf(h) => g.name # h.name /\ g.name \notin StarNames

HostsAnswerAtTheirAddress ==
  phase = "built" =>
    \A h \in DOMAIN config : Alone(h) => config[h] \in Sites(PortOf(h), Address(h))
=============================================================================
