------------------------------ MODULE Dispatch ------------------------------
(***************************************************************************)
(* From a configuration to the answer of a request: the servers that are   *)
(* built (Servers), and directive_process (src/src/directive.rs) for one   *)
(* connection at a time, with file_directive (src/src/file_server.rs) and  *)
(* the choice that proxy_directive (src/src/reverse_proxy.rs) makes among  *)
(* the proxies of a host.  How the request is read and what happens once a *)
(* backend is connected is in Tunnel, which backend it is in LoadBalancer. *)
(***************************************************************************)
EXTENDS Servers, FileServer

CONSTANTS
  Requests,     \* what clients send
  NoRange,      \* there is no Range header
  Tunnelled,    \* the status is the one of a backend
  FileSystems,  \* the files that can be opened, path -> size
  Dirs,         \* the paths that are directories
  Lengths       \* the sizes a file may have by the time it is copied

(***************************************************************************)
(* A request is [port, header, path, cookie, range, valid, long]: the port *)
(* it came to, its Host header, its path, whether a cookie with the name   *)
(* redirifnotcookie looks for is there, its Range header, whether          *)
(* socket_to_request accepted it, and whether its path is too long for the *)
(* heapless string a proxy builds.                                         *)
(*                                                                         *)
(* Directives are records, [kind |-> "root", pattern, path, fallback],     *)
(* "file_server", [kind |-> "reverse_proxy", pattern, backends, policy],   *)
(* [kind |-> "redir", sendable], [kind |-> "redirifnotcookie", sendable]   *)
(* and [kind |-> "tls", cert].  A redirect is sendable if its destination  *)
(* can be the value of a header: nobody looks before a request is there.   *)
(***************************************************************************)

ASSUME DispatchAssumption ==
  /\ Tunnelled \notin Nat \cup {None}
  /\ None \notin Requests \cup Directives \cup Seq(STRING)
  /\ \A r \in Requests :
       /\ r.path \in Seq(STRING)
       /\ r.range \in {NoRange, Malformed} \cup [start : {None} \cup u64, end : {None} \cup u64]
  /\ \A fs \in FileSystems : \A path \in DOMAIN fs : path \in Seq(STRING) /\ fs[path] \in u64
  /\ Dirs \subseteq Seq(STRING) /\ Lengths \subseteq u64
  /\ \A d \in Directives : d.kind = "root" =>
       d.path \in Seq(STRING) /\ d.fallback \in {None} \cup Seq(STRING)
  /\ \A d \in Directives : d.kind \in {"redir", "redirifnotcookie"} => d.sendable \in BOOLEAN

VARIABLES
  pc,       \* "idle", "directives", "body" or "closed"
  request,  \* the request of the connection
  site,     \* host_config.directives
  next,     \* the directive that is looked at
  root,     \* root_path and fallback_file: the root directive they are from
  files,    \* the file system, fixed but for the file that is being sent
  answer    \* what the client was sent, see NoAnswer

conn_vars == <<pc, request, site, next, root, files, answer>>
vars == <<server_vars, conn_vars>>

\* lost: an error of the connection or of the open file ended it.  size: the size
\* the head was made from, eof: the size when the body was copied.
NoAnswer == [status |-> None, lost |-> FALSE, proxy |-> None, path |-> None,
             first |-> 0, final |-> 0, length |-> 0, size |-> 0, eof |-> 0, sent |-> 0]

Init ==
  /\ ServersInit
  /\ pc = "idle" /\ request = None
  /\ site = << >> /\ next = 1 /\ root = None
  /\ files \in FileSystems
  /\ answer = NoAnswer

-----------------------------------------------------------------------------
Close(a) ==
  /\ pc' = "closed" /\ answer' = a
  /\ UNCHANGED <<request, site, next, root, files>>

Reply(status) == Close([answer EXCEPT !.status = status])

Advance ==
  /\ next' = next + 1
  /\ UNCHANGED <<pc, request, site, files, answer>>

\* The connection task ends without an answer: an error other than a
\* ResponseError, or a panic.
EndSilently == Close(answer)

Receive(r) ==
  /\ pc = "idle" /\ phase = "built"
  /\ r.port \in DOMAIN servers
  /\ request' = r
  /\ answer' = [answer EXCEPT !.status = IF ~r.valid THEN 400
                                         ELSE IF Sites(r.port, r.header) = {} THEN 403 ELSE None]
  /\ IF answer'.status = None
     THEN pc' = "directives" /\ site' \in Sites(r.port, r.header)
     ELSE pc' = "closed" /\ UNCHANGED site
  /\ UNCHANGED <<next, root, files>>

At(kind) == pc = "directives" /\ next \in DOMAIN site /\ site[next].kind = kind

FirstRoot ==   \* a variant: a later root does not replace an earlier one
  IF root = None /\ MatchesPattern(site[next].pattern, request.path) THEN site[next] ELSE root

LatestRoot ==
  IF MatchesPattern(site[next].pattern, request.path) THEN site[next] ELSE root

Root ==
  /\ At("root")
  /\ root' = LatestRoot
  /\ Advance

-----------------------------------------------------------------------------
(***************************************************************************)
(* file_directive                                                          *)
(***************************************************************************)
Indexed(path) == IF path \in Dirs THEN Append(path, "index.html") ELSE path

\* The file that is opened, or None.
Found ==
  LET full == SanitizePath(root.path, request.path) IN
  IF full = None THEN None
  ELSE IF Indexed(full) \in DOMAIN files THEN Indexed(full)
  ELSE IF root.fallback # None /\ root.path \o root.fallback \in DOMAIN files
  THEN root.path \o root.fallback
  ELSE None

\* Without a matching root before it.
FileWithoutRoot ==
  /\ At("file_server") /\ root = None
  /\ Reply(500)

\* No such file, or a path that leaves the root: then the dispatcher breaks out
\* of its loop, and the answer is the same.
FileNotFound ==
  /\ At("file_server") /\ root # None
  /\ Found = None
  /\ Reply(404)

Opened == At("file_server") /\ root # None /\ Found # None

SendHead(status, first, final, length) ==
  /\ pc' = "body"
  /\ answer' = [answer EXCEPT !.status = status, !.path = Found, !.size = files[Found],
                              !.first = first, !.final = final, !.length = length]
  /\ UNCHANGED <<request, site, next, root, files>>

SendWhole ==
  /\ Opened /\ request.range = NoRange
  /\ SendHead(200, 0, 0, files[Found])

RangeRefused ==
  /\ Opened /\ request.range # NoRange
  /\ RangeStatus(request.range, files[Found]) # 206
  /\ Reply(RangeStatus(request.range, files[Found]))

SendRange ==
  LET size == files[Found] IN
  /\ Opened /\ request.range # NoRange
  /\ RangeStatus(request.range, size) = 206
  /\ Seekable(First(request.range, size))
  /\ SendHead(206, First(request.range, size), Final(request.range, size),
          ContentLength(request.range, size))

\* A panic of the subtraction, or an error of the seek.
RangeBreaks ==
  /\ Opened /\ request.range # NoRange
  /\ RangeStatus(request.range, files[Found]) = 206
  /\ Underflows(request.range, files[Found])
  /\ EndSilently

\* The copy ends where the file ends by then, for a range too.
SendBody ==
  /\ pc = "body"
  /\ \E size \in Lengths \cup {answer.size} :
       Close([answer EXCEPT !.eof = size, !.sent = Rest(answer.first, size)])

-----------------------------------------------------------------------------
(***************************************************************************)
(* proxy_directive.  It looks at the states of every reverse_proxy of the  *)
(* host, in the order of a HashMap, whichever directive it is called for;  *)
(* of two with the same pattern only the last one has a state.             *)
(***************************************************************************)
Proxies == {i \in DOMAIN site : site[i].kind = "reverse_proxy"}

ProxyStates ==
  {i \in Proxies : \A j \in Proxies : site[j].pattern = site[i].pattern => j <= i}

AllStates == ProxyStates   \* a variant: the pattern is not looked at

Usable == {i \in ProxyStates : MatchesPattern(site[i].pattern, request.path)}

ProxyNotMatched ==
  /\ At("reverse_proxy") /\ Usable = {}
  /\ Advance /\ UNCHANGED root

HasBackends(i) == site[i].backends > 0

\* Some backend answered; what the client gets is up to the tunnel.
Proxied ==
  /\ At("reverse_proxy")
  /\ \E i \in Usable : /\ HasBackends(i) /\ ~request.long
                       /\ Close([answer EXCEPT !.status = Tunnelled, !.proxy = i])

\* No healthy backend, or none that can be written as a url.
BadGateway ==
  /\ At("reverse_proxy")
  /\ \E i \in Usable : HasBackends(i) \/ site[i].policy = "RoundRobin"
  /\ Reply(502)

\* The url does not fit (HeaplessError), or hash % 0 panics.
ProxyBreaks ==
  /\ At("reverse_proxy")
  /\ \E i \in Usable : IF HasBackends(i) THEN request.long ELSE site[i].policy = "IPHash"
  /\ EndSilently

-----------------------------------------------------------------------------
Redir ==
  /\ At("redir")
  /\ IF site[next].sendable THEN Reply(302) ELSE EndSilently

\* The redirect is built before the cookie is looked for.
RedirIfNotCookie ==
  /\ At("redirifnotcookie")
  /\ \/ ~site[next].sendable /\ EndSilently
     \/ site[next].sendable /\ ~request.cookie /\ Reply(302)
     \/ site[next].sendable /\ request.cookie /\ Advance /\ UNCHANGED root

Tls ==
  /\ At("tls")
  /\ Advance /\ UNCHANGED root

FallsSilent == EndSilently   \* a variant: nothing follows the loop

AnswerNotFound == Reply(404)

NoDirective ==
  /\ pc = "directives" /\ next > Len(site)
  /\ AnswerNotFound

\* The client goes away: a write fails, or what was written is lost.
ClientLeaves ==
  /\ pc \in {"directives", "body"}
  /\ Close([answer EXCEPT !.lost = TRUE])

\* The size of the open file cannot be had, or its seek or its copy fails.
FileFails ==
  /\ Opened \/ pc = "body"
  /\ Close([answer EXCEPT !.lost = TRUE])

Connection ==
  \/ \E r \in Requests : Receive(r)
  \/ Root \/ Redir \/ RedirIfNotCookie \/ Tls \/ NoDirective
  \/ FileWithoutRoot \/ FileNotFound \/ SendWhole \/ RangeRefused \/ SendRange
  \/ RangeBreaks \/ SendBody
  \/ ProxyNotMatched \/ Proxied \/ BadGateway \/ ProxyBreaks
  \/ ClientLeaves \/ FileFails

Next ==
  \/ ServersNext /\ UNCHANGED conn_vars
  \/ Connection /\ UNCHANGED server_vars

Spec == Init /\ [][Next]_vars

-----------------------------------------------------------------------------
(***************************************************************************)
(* Properties                                                              *)
(***************************************************************************)

Answers ==
  [status : {None, 200, 206, 302, 400, 403, 404, 416, 500, 502, Tunnelled},
   lost : BOOLEAN, proxy : {None} \cup DOMAIN site, path : {None} \cup DOMAIN files,
   first : u64, final : u64, length : u64, size : u64, eof : u64, sent : u64]

\* Types.  Sizes and positions are u64.
TypeOK ==
  /\ ServersTypeOK
  /\ pc \in {"idle", "directives", "body", "closed"}
  /\ request \in {None} \cup Requests /\ files \in FileSystems
  /\ site \in Seq(Directives) /\ next \in 1 .. Len(site) + 1
  /\ root \in {None} \cup Directives
  /\ answer \in Answers

(***************************************************************************)
(* The first directive that applies decides, with two exceptions.          *)
(* file_server and redir apply always, redirifnotcookie without the cookie,*)
(* a proxy if its pattern matches.  The first exception is                 *)
(* reverse_proxy.rs:32: a proxy that does not match answers for a later one*)
(* that does, and so passes by what stands between them, a redirifnotcookie*)
(* for instance.  The second is directive.rs:207: a redirifnotcookie whose *)
(* redirect cannot be built ends the connection, unanswered, even with the *)
(* cookie.  Nothing else is passed by, and who is proxied to matches.      *)
(***************************************************************************)
Applies(d) ==
  CASE d.kind \in {"file_server", "redir"} -> TRUE
    [] d.kind = "redirifnotcookie"         -> ~request.cookie
    [] d.kind = "reverse_proxy"            -> MatchesPattern(d.pattern, request.path)
    [] OTHER                               -> FALSE

Decided == pc \in {"body", "closed"} /\ ~answer.lost /\ site # << >>

DecidedBy(kind) == Decided /\ next \in DOMAIN site /\ site[next].kind = kind

DecidedInOrder ==
  Decided =>
    /\ \A i \in 1 .. next - 1 : ~Applies(site[i])
    /\ next \in DOMAIN site /\ ~Applies(site[next]) =>
         \/ /\ next \in Proxies
            /\ \E i \in Proxies : i > next /\ Applies(site[i])
         \/ /\ site[next].kind = "redirifnotcookie" /\ ~site[next].sendable
            /\ answer.status = None
    /\ answer.proxy # None => Applies(site[answer.proxy])
    /\ next \notin DOMAIN site => answer.status \in {None, 404}

(***************************************************************************)
(* What is sent is a file below the root that is in force, the last one    *)
(* before the file_server whose pattern matches: nothing in its path leads *)
(* up again behind the root.  The one file whose path is not looked at is  *)
(* the fallback.                                                           *)
(***************************************************************************)
RootsBefore ==
  {i \in 1 .. next - 1 : site[i].kind = "root" /\ MatchesPattern(site[i].pattern, request.path)}

IsBelow(base, path) ==
  IsPrefix(base, path) /\ \A i \in Len(base) + 1 .. Len(path) : path[i] \notin {".", ".."}

FromRoot(r, path) ==
  \/ IsBelow(r.path, path)
  \/ r.fallback # None /\ path = r.path \o r.fallback

FilesComeFromRoot ==
  DecidedBy("file_server") =>
    IF RootsBefore = {} THEN answer.status = 500
    ELSE answer.path # None => FromRoot(site[Max(RootsBefore)], answer.path)

(***************************************************************************)
(* A file that is there under an ordinary path is what its url gets, never *)
(* a 404 or the fallback.                                                  *)
(***************************************************************************)
Ordinary(path) == {".", ".."} \cap Range(path) = {}

OrdinaryFilesAreFound ==
  (DecidedBy("file_server") /\ RootsBefore # {} /\ Ordinary(request.path)) =>
    LET asked == Indexed(site[Max(RootsBefore)].path \o Components(request.path)) IN
    asked \in DOMAIN files =>
      /\ answer.path \in {None, asked}
      /\ answer.path = None => answer.status \in {None, 400, 416}

(***************************************************************************)
(* The head of a file keeps its word: unless the file shrinks while it is  *)
(* copied, at least as much follows as Content-Length says; for the whole  *)
(* file no more either; and the range named is one of the file, with that  *)
(* length.  A suffix longer than the file is excepted (request.rs:176).    *)
(***************************************************************************)
HeadIsHonest ==
  LET a == answer IN
  (pc = "closed" /\ a.status \in {200, 206} /\ ~a.lost) =>
    \/ a.status = 206 /\ Underflows(request.range, a.size)
    \/ /\ a.eof >= a.size => a.sent >= a.length
       /\ a.status = 200 /\ a.eof = a.size => a.sent = a.length
       /\ a.status = 206 =>
            /\ a.first <= a.final /\ a.final < a.size
            /\ a.length = a.final - a.first + 1

(***************************************************************************)
(* A client that stays is answered, whatever it asks for and whatever the  *)
(* host is configured to, unless the open file fails and with four         *)
(* exceptions: a suffix range longer than the file, a url too long for a   *)
(* proxy, ip_hash without a destination, which docker mode can configure,  *)
(* and a redirect to what cannot be the value of a header.                 *)
(***************************************************************************)
NoSilentEnd ==
  (pc = "closed" /\ answer.status = None /\ ~answer.lost) =>
    \/ DecidedBy("file_server") /\ Underflows(request.range, files[Found])
    \/ DecidedBy("reverse_proxy") /\ request.long
    \/ DecidedBy("reverse_proxy") /\ \E i \in Usable : ~HasBackends(i) /\ site[i].policy = "IPHash"
    \/ (DecidedBy("redir") \/ DecidedBy("redirifnotcookie")) /\ ~site[next].sendable

(***************************************************************************)
(* The strengthening: what the loop over the directives has passed by, the *)
(* root it has in force, the head that is out before the body, and which   *)
(* file it is the head of.                                                 *)
(***************************************************************************)
NothingYet ==
  /\ pc \in {"idle", "directives"} => answer = NoAnswer
  /\ pc = "idle" => site = << >> /\ next = 1 /\ root = None
  /\ pc # "idle" => request \in Requests

PassedBy == \A i \in 1 .. next - 1 : ~Applies(site[i])

RootInForce ==
  \/ root = None /\ RootsBefore = {}
  \/ \E i \in RootsBefore : root = site[i] /\ \A j \in RootsBefore : j <= i

HeadIsMade ==
  LET a == answer IN
  pc = "body" =>
    /\ ~a.lost
    /\ \/ a.status = 200 /\ a.first = 0 /\ a.length = a.size
       \/ a.status = 206 /\ Underflows(request.range, a.size)
       \/ /\ a.status = 206 /\ a.first <= a.final /\ a.final < a.size
          /\ a.length = a.final - a.first + 1

\* The answer to a file_server is about the file that is found.
FoundIsSent ==
  (DecidedBy("file_server") /\ root # None /\ Found # None) =>
    /\ answer.path \in {None, Found}
    /\ answer.path = None => answer.status \in {None, 400, 416}

DispatchInv ==
  /\ ServersInv /\ NothingYet /\ PassedBy /\ RootInForce /\ HeadIsMade
  /\ FoundIsSent /\ DecidedInOrder /\ FilesComeFromRoot /\ OrdinaryFilesAreFound
  /\ HeadIsHonest /\ NoSilentEnd

(***************************************************************************)
(* README.md:15 promises "Range requests for static files", README.md:59   *)
(* asks for "Range: bytes=0-499": a part of a file that does not change is *)
(* sent as long as it says it is.  (A suffix longer than the file is again *)
(* excepted: what is wrong here is wrong for the README's own request.)    *)
(***************************************************************************)
RangeIsExact ==
  (pc = "closed" /\ answer.status = 206 /\ ~answer.lost /\ answer.eof = answer.size) =>
    \/ Underflows(request.range, answer.size)
    \/ answer.sent = answer.length
=============================================================================
