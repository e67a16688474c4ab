--------------------------- MODULE DispatchProofs ---------------------------
(***************************************************************************)
(* Theorems about Dispatch, for any directives of a host, any requests and *)
(* any file system.  What the walk of SanitizePath computes is in          *)
(* FileServerProofs: nothing but paths below the root, and for a path      *)
(* without "." and ".." the one it names.                                  *)
(***************************************************************************)
EXTENDS Dispatch, ServersProofs, FileServerProofs

\* The greatest of some positions of a sequence.
LEMMA LastOf ==
  ASSUME NEW n \in Nat, NEW T \in SUBSET (1 .. n), T # {}
  PROVE  \E i \in T : \A j \in T : j <= i
<1> DEFINE D == {n - j : j \in T}
<1>1. D \subseteq Nat /\ D # {}
  <2>1. \A j \in T : j \in 1 .. n
    OBVIOUS
  <2>2. \A j \in 1 .. n : n - j \in Nat
    OBVIOUS
  <2> QED
    BY <2>1, <2>2
<1> HIDE DEF D
<1>2. PICK d \in D : \A e \in D : <<e, d>> \notin OpToRel(<, Nat)
  BY <1>1, NatLessThanWellFounded, WFMin, Zenon
<1>3. ASSUME NEW e \in D PROVE ~(e < d)
  <2>1. ~(<<e, d>> \in Nat \X Nat /\ e < d)
    BY <1>2, Zenon DEF OpToRel
  <2> QED
    BY <1>1, <2>1
<1> USE DEF D
<1>4. PICK i \in T : d = n - i
  OBVIOUS
<1>5. ASSUME NEW j \in T PROVE j <= i
  <2>1. ~(n - j < n - i) /\ j \in 1 .. n /\ i \in 1 .. n
    BY <1>3, <1>4
  <2> QED
    BY <2>1
<1> QED
  BY <1>5

-----------------------------------------------------------------------------
(***************************************************************************)
(* The root in force and the file that is found below it                   *)
(***************************************************************************)

\* The greatest element of a set of numbers that has one.
LEMMA MaxIs ==
  ASSUME NEW S \in SUBSET Nat, NEW i \in S, \A j \in S : j <= i
  PROVE  Max(S) = i
<1>1. \A x \in S : (\A y \in S : x >= y) => x = i
  BY SMT
<1>2. \A y \in S : i >= y
  BY SMT
<1> QED
  BY <1>1, <1>2 DEF Max

\* A root directive is all that root ever holds.
LEMMA RootIsRoot ==
  ASSUME TypeOK, RootInForce, root # None
  PROVE  /\ root.path \in Seq(STRING)
         /\ root.fallback \in {None} \cup Seq(STRING)
<1>1. PICK i \in RootsBefore : root = site[i]
  BY DEF RootInForce
<1>2. site[i].kind = "root" /\ root \in Directives
  BY <1>1 DEF RootsBefore, TypeOK
<1> QED
  BY <1>1, <1>2, DispatchAssumption

\* What is opened is a file, and one below the root or the fallback.
LEMMA FoundIsBelow ==
  ASSUME TypeOK, RootInForce, root # None, Found # None, request \in Requests
  PROVE  /\ Found \in DOMAIN files /\ files[Found] \in u64
         /\ FromRoot(root, Found)
<1> DEFINE full == SanitizePath(root.path, request.path)
           fallback == root.path \o root.fallback
<1>1. root.path \in Seq(STRING) /\ request.path \in Seq(STRING)
  BY RootIsRoot, DispatchAssumption
<1>2. full # None
  BY DEF Found
<1>3. full \in Seq(STRING) /\ IsPrefix(root.path, full) /\ IsClean(root.path, full)
  BY <1>1, <1>2, SanitizedIsBelow
<1> HIDE DEF full
<1>4. \/ Found = Indexed(full) /\ Indexed(full) \in DOMAIN files
      \/ Found = fallback /\ root.fallback # None /\ fallback \in DOMAIN files
  BY <1>2 DEF Found, full
<1>5. IsBelow(root.path, Indexed(full))
  <2>1. CASE full \in Dirs
    <3> DEFINE S == STRING \cup {"index.html"}
    <3>1. root.path \in Seq(S) /\ full \in Seq(S) /\ "index.html" \in S
      BY <1>1, <1>3, SeqOfMore
    <3> HIDE DEF S
    <3>2. IsPrefix(root.path, Append(full, "index.html"))
      BY <1>3, <3>1, PrefixOfAppend
    <3>3. IsClean(root.path, Append(full, "index.html"))
      BY <1>3, <3>1, AppendIsClean
    <3> QED
      BY <2>1, <3>2, <3>3 DEF Indexed, IsBelow, IsClean
  <2>2. CASE full \notin Dirs
    BY <1>3, <2>2 DEF Indexed, IsBelow, IsClean
  <2> QED
    BY <2>1, <2>2
<1>6. files \in FileSystems
  BY DEF TypeOK
<1>7. \A path \in DOMAIN files : files[path] \in u64
  BY <1>6, DispatchAssumption
<1>8. FromRoot(root, Found)
  BY <1>4, <1>5, Zenon DEF FromRoot
<1> HIDE DEF fallback
<1> QED
  BY <1>4, <1>7, <1>8

\* What an ordinary path names is found when it is there.
LEMMA OrdinaryIsFound ==
  ASSUME TypeOK, RootInForce, root # None, request \in Requests, Ordinary(request.path),
         Indexed(root.path \o Components(request.path)) \in DOMAIN files
  PROVE  Found # None /\ Found = Indexed(root.path \o Components(request.path))
<1> DEFINE full == root.path \o Components(request.path)
<1>1. root.path \in Seq(STRING) /\ request.path \in Seq(STRING) /\ None \notin Seq(STRING)
  BY RootIsRoot, DispatchAssumption
<1>2. \A n \in 1 .. Len(request.path) : request.path[n] \notin {".", ".."}
  <2>1. \A n \in 1 .. Len(request.path) : request.path[n] \in Range(request.path)
    BY <1>1 DEF Range
  <2> QED
    BY <2>1, Zenon DEF Ordinary
<1>3. SanitizePath(root.path, request.path) = full
  BY <1>1, <1>2, OrdinaryWalk
<1>4. Components(request.path) \in Seq(STRING)
  <2>1. Len(request.path) \in 0 .. Len(request.path)
    BY <1>1
  <2> QED
    BY <1>1, <2>1, NamedIn DEF Components
<1>5. full \in Seq(STRING)
  BY <1>1, <1>4
<1> HIDE DEF full
<1>6. full # None
  BY <1>1, <1>5
<1>7. files \in FileSystems /\ Indexed(full) \in DOMAIN files
  BY DEF TypeOK, full
<1>8. Indexed(full) # None
  BY <1>1, <1>7, DispatchAssumption
<1>9. Found = Indexed(full)
  BY <1>3, <1>6, <1>7 DEF Found
<1> QED
  BY <1>8, <1>9 DEF full

-----------------------------------------------------------------------------
(***************************************************************************)
(* The directives and the proxies of a host                                *)
(***************************************************************************)

LEMMA AppliesTo ==
  ASSUME NEW d
  PROVE  /\ d.kind \in {"file_server", "redir"} => Applies(d)
         /\ d.kind = "redirifnotcookie" => (Applies(d) <=> ~request.cookie)
         /\ d.kind = "reverse_proxy" => (Applies(d) <=> MatchesPattern(d.pattern, request.path))
         /\ d.kind \in {"root", "tls"} => ~Applies(d)
BY DEF Applies

\* A pattern that some proxy has is the one of a proxy with a state: when no
\* state matches, the directive that is looked at does not.
LEMMA NoUsableProxy ==
  ASSUME TypeOK, At("reverse_proxy"), Usable = {}
  PROVE  ~Applies(site[next])
<1> DEFINE T == {j \in Proxies : site[j].pattern = site[next].pattern}
<1>1. site \in Seq(Directives) /\ DOMAIN site = 1 .. Len(site) /\ Len(site) \in Nat
  BY LenProperties DEF TypeOK
<1>2. next \in Proxies
  BY DEF At, Proxies
<1>3. T \in SUBSET (1 .. Len(site)) /\ T # {}
  BY <1>1, <1>2 DEF Proxies
<1>4. PICK i \in T : \A j \in T : j <= i
  BY <1>1, <1>3, LastOf
<1>5. i \in ProxyStates
  BY <1>4 DEF ProxyStates
<1>6. ~MatchesPattern(site[next].pattern, request.path)
  BY <1>4, <1>5 DEF Usable
<1> QED
  BY <1>6, AppliesTo DEF At

\* A proxy that is used applies; when the directive that is looked at does not,
\* it is a later one.
LEMMA UsableProxy ==
  ASSUME TypeOK, PassedBy, At("reverse_proxy"), NEW i \in Usable
  PROVE  /\ i \in DOMAIN site /\ i \in Proxies /\ Applies(site[i])
         /\ ~Applies(site[next]) => i > next
<1>1. i \in DOMAIN site /\ i \in Proxies /\ Applies(site[i])
  BY AppliesTo DEF Usable, ProxyStates, Proxies
<1>2. i \in Nat /\ next \in Nat /\ i >= 1
  BY <1>1, LenProperties DEF TypeOK
<1>3. ASSUME ~Applies(site[next]) PROVE i > next
  <2>1. i # next
    BY <1>1, <1>3
  <2>2. ~(i \in 1 .. next - 1)
    BY <1>1 DEF PassedBy
  <2> QED
    BY <1>2, <2>1, <2>2
<1> QED
  BY <1>1, <1>3

-----------------------------------------------------------------------------
(***************************************************************************)
(* Types                                                                   *)
(***************************************************************************)

LEMMA Zero == 0 \in u64
BY FileServerAssumption DEF u64

\* One field of an answer changes.
LEMMA AnswerWith ==
  ASSUME NEW a \in Answers, NEW v
  PROVE  /\ v \in {None, 200, 206, 302, 400, 403, 404, 416, 500, 502, Tunnelled} =>
              [a EXCEPT !.status = v] \in Answers
         /\ [a EXCEPT !.lost = TRUE] \in Answers
         /\ v \in DOMAIN site => [a EXCEPT !.proxy = v] \in Answers
         /\ v \in DOMAIN files => [a EXCEPT !.path = v] \in Answers
         /\ v \in u64 =>
              /\ [a EXCEPT !.first = v] \in Answers /\ [a EXCEPT !.final = v] \in Answers
              /\ [a EXCEPT !.length = v] \in Answers /\ [a EXCEPT !.size = v] \in Answers
              /\ [a EXCEPT !.eof = v] \in Answers /\ [a EXCEPT !.sent = v] \in Answers
<1>1. v \in {None, 200, 206, 302, 400, 403, 404, 416, 500, 502, Tunnelled} =>
        [a EXCEPT !.status = v] \in Answers
  BY DEF Answers
<1>2. [a EXCEPT !.lost = TRUE] \in Answers
  BY ZenonT(60) DEF Answers
<1>3. v \in DOMAIN site => [a EXCEPT !.proxy = v] \in Answers
  BY DEF Answers
<1>4. v \in DOMAIN files => [a EXCEPT !.path = v] \in Answers
  BY DEF Answers
<1>5. v \in u64 => [a EXCEPT !.first = v] \in Answers /\ [a EXCEPT !.final = v] \in Answers
  BY DEF Answers
<1>6. v \in u64 => [a EXCEPT !.length = v] \in Answers /\ [a EXCEPT !.size = v] \in Answers
  BY DEF Answers
<1>7. v \in u64 => [a EXCEPT !.eof = v] \in Answers /\ [a EXCEPT !.sent = v] \in Answers
  BY DEF Answers
<1> QED
  BY <1>1, <1>2, <1>3, <1>4, <1>5, <1>6, <1>7

LEMMA SameStatus ==
  ASSUME NEW A, NEW B, NEW C, NEW D, NEW N,
         NEW a \in [status : A, lost : B, proxy : C, path : D, first : N, final : N, length : N,
                    size : N, eof : N, sent : N]
  PROVE  [a EXCEPT !.status = a.status] = a
OBVIOUS

LEMMA NothingIsAnAnswer == NoAnswer \in Answers
BY Zero DEF NoAnswer, Answers

LEMMA TypeInit ==
  ASSUME Init
  PROVE  TypeOK
<1>1. ServersTypeOK
  BY ServersTypeInit DEF Init
<1>2. /\ pc = "idle" /\ request = None /\ site = << >> /\ next = 1 /\ root = None
      /\ files \in FileSystems /\ answer \in Answers
  BY NothingIsAnAnswer DEF Init
<1>3. site \in Seq(Directives) /\ next \in 1 .. Len(site) + 1
  BY <1>2, EmptySeq
<1> QED
  BY <1>1, <1>2, <1>3 DEF TypeOK

LEMMA CloseType ==
  ASSUME TypeOK, UNCHANGED server_vars, NEW a \in Answers, Close(a)
  PROVE  TypeOK'
<1>1. ServersTypeOK'
  BY ServersTypeStep DEF TypeOK
<1>2. /\ pc' = "closed" /\ answer' = a /\ request' = request /\ site' = site
      /\ next' = next /\ root' = root /\ files' = files
  BY DEF Close
<1>3. answer' \in Answers'
  BY <1>2 DEF Answers
<1> QED
  BY <1>1, <1>2, <1>3 DEF TypeOK

LEMMA ReplyType ==
  ASSUME TypeOK, UNCHANGED server_vars,
         NEW status \in {200, 206, 302, 400, 403, 404, 416, 500, 502}, Reply(status)
  PROVE  TypeOK'
<1>1. [answer EXCEPT !.status = status] \in Answers
  BY DEF TypeOK, Answers
<1> QED
  BY <1>1, CloseType DEF Reply

LEMMA EndSilentlyType ==
  ASSUME TypeOK, UNCHANGED server_vars, EndSilently
  PROVE  TypeOK'
BY CloseType DEF EndSilently, TypeOK

LEMMA AdvanceType ==
  ASSUME TypeOK, UNCHANGED server_vars, next \in DOMAIN site, Advance,
         root' \in {None} \cup Directives
  PROVE  TypeOK'
<1>1. ServersTypeOK'
  BY ServersTypeStep DEF TypeOK
<1>2. /\ pc' = pc /\ answer' = answer /\ request' = request /\ site' = site
      /\ next' = next + 1 /\ files' = files
  BY DEF Advance
<1>3. next \in 1 .. Len(site) /\ Len(site) \in Nat
  BY LenProperties DEF TypeOK
<1>4. next' \in 1 .. Len(site') + 1
  BY <1>2, <1>3
<1>5. answer' \in Answers'
  BY <1>2 DEF Answers, TypeOK
<1> QED
  BY <1>1, <1>2, <1>4, <1>5 DEF TypeOK

\* The directives of a host are a list of directives.
LEMMA SitesType ==
  ASSUME ServersTypeOK, NEW p \in DOMAIN servers, NEW header, NEW s \in Sites(p, header)
  PROVE  s \in Seq(Directives)
<1>1. PICK k \in KeysFor(p, header) : s = servers[p].hosts[k]
  BY DEF Sites
<1>2. k \in DOMAIN servers[p].hosts
  BY DEF KeysFor, StarKeys, Keys
<1> QED
  BY <1>1, <1>2 DEF ServersTypeOK

LEMMA ReceiveFacts ==
  ASSUME TypeOK, NothingYet, NEW r \in Requests, Receive(r)
  PROVE  /\ pc = "idle" /\ request' = r /\ next = 1 /\ next' = 1 /\ root = None /\ root' = None
         /\ files' = files /\ site = << >> /\ answer = NoAnswer
         /\ answer' = [NoAnswer EXCEPT !.status = answer'.status]
         /\ \/ answer'.status = None /\ pc' = "directives" /\ site' \in Seq(Directives)
            \/ answer'.status \in {400, 403} /\ pc' = "closed" /\ site' = << >>
<1>1. /\ pc = "idle" /\ request' = r /\ next' = next /\ root' = root /\ files' = files
      /\ r.port \in DOMAIN servers
  BY DEF Receive
<1>2. next = 1 /\ root = None /\ site = << >> /\ answer = NoAnswer
  BY <1>1 DEF NothingYet
<1> DEFINE s == IF ~r.valid THEN 400 ELSE IF Sites(r.port, r.header) = {} THEN 403 ELSE None
<1>3. answer' = [NoAnswer EXCEPT !.status = s] /\ s \in {None, 400, 403}
  BY <1>2 DEF Receive
<1> HIDE DEF s
<1>4. answer'.status = s
  BY <1>3 DEF NoAnswer
<1>5. None # 400 /\ None # 403
  BY FileServerAssumption
<1>6. CASE s = None
  <2>1. pc' = "directives" /\ site' \in Sites(r.port, r.header)
    BY <1>4, <1>6 DEF Receive
  <2>2. site' \in Seq(Directives)
    BY <1>1, <2>1, SitesType DEF TypeOK
  <2> QED
    BY <1>1, <1>2, <1>3, <1>4, <1>6, <2>1, <2>2
<1>7. CASE s # None
  <2>1. pc' = "closed" /\ site' = << >>
    BY <1>2, <1>4, <1>7 DEF Receive
  <2> QED
    BY <1>1, <1>2, <1>3, <1>4, <1>7, <2>1
<1> QED
  BY <1>6, <1>7

LEMMA ReceiveType ==
  ASSUME TypeOK, NothingYet, UNCHANGED server_vars, NEW r \in Requests, Receive(r)
  PROVE  TypeOK'
<1>1. ServersTypeOK'
  BY ServersTypeStep DEF TypeOK
<1>2. /\ request' = r /\ next' = 1 /\ root' = None /\ files' = files
      /\ pc' \in {"directives", "closed"} /\ answer'.status \in {None, 400, 403}
      /\ answer' = [NoAnswer EXCEPT !.status = answer'.status]
      /\ site' \in Seq(Directives)
  <2>1. /\ request' = r /\ next' = 1 /\ root' = None /\ files' = files
        /\ answer' = [NoAnswer EXCEPT !.status = answer'.status]
        /\ \/ answer'.status = None /\ pc' = "directives" /\ site' \in Seq(Directives)
           \/ answer'.status \in {400, 403} /\ pc' = "closed" /\ site' = << >>
    BY ReceiveFacts, Zenon
  <2>2. << >> \in Seq(Directives)
    BY EmptySeq
  <2>3. CASE answer'.status = None /\ pc' = "directives" /\ site' \in Seq(Directives)
    BY <2>1, <2>3, Zenon
  <2>4. CASE answer'.status \in {400, 403} /\ pc' = "closed" /\ site' = << >>
    BY <2>1, <2>2, <2>4, Zenon
  <2> QED
    BY <2>1, <2>3, <2>4, Zenon
<1>3. next' \in 1 .. Len(site') + 1
  BY <1>2, LenProperties
<1>4. answer' \in Answers'
  <2>1. PICK s \in {None, 400, 403} : answer' = [NoAnswer EXCEPT !.status = s]
    BY <1>2
  <2>2. NoAnswer \in Answers'
    BY Zero DEF Answers, NoAnswer
  <2>3. \A a \in Answers' : [a EXCEPT !.status = s] \in Answers'
    BY DEF Answers
  <2> QED
    BY <2>1, <2>2, <2>3
<1> QED
  BY <1>1, <1>2, <1>3, <1>4 DEF TypeOK

LEMMA OpenedFacts ==
  ASSUME TypeOK, NothingYet, RootInForce, Opened
  PROVE  /\ pc = "directives" /\ next \in DOMAIN site /\ site[next].kind = "file_server"
         /\ answer = NoAnswer /\ Found \in DOMAIN files /\ files[Found] \in u64
         /\ FromRoot(root, Found)
         /\ root # None /\ request \in Requests
BY FoundIsBelow DEF Opened, At, NothingYet

LEMMA RangeOfRequest ==
  ASSUME TypeOK, NothingYet, RootInForce, Opened, request.range # NoRange
  PROVE  request.range \in {Malformed} \cup [start : {None} \cup u64, end : {None} \cup u64]
<1>1. request \in Requests
  BY OpenedFacts
<1> QED
  BY <1>1, DispatchAssumption

LEMMA SendHeadType ==
  ASSUME TypeOK, NothingYet, RootInForce, UNCHANGED server_vars, Opened, NEW status \in {200, 206},
         NEW first \in u64, NEW final \in u64, NEW length \in u64,
         SendHead(status, first, final, length)
  PROVE  TypeOK'
<1>1. ServersTypeOK'
  BY ServersTypeStep DEF TypeOK
<1>2. /\ pc' = "body" /\ request' = request /\ site' = site /\ next' = next
      /\ root' = root /\ files' = files
  BY DEF SendHead
<1>3. Found \in DOMAIN files /\ files[Found] \in u64 /\ answer \in Answers
  BY OpenedFacts DEF TypeOK
<1>4. answer' = [answer EXCEPT !.status = status, !.path = Found, !.size = files[Found],
                               !.first = first, !.final = final, !.length = length]
  BY DEF SendHead
<1> DEFINE a1 == [answer EXCEPT !.status = status]
           a2 == [a1 EXCEPT !.path = Found]
           a3 == [a2 EXCEPT !.size = files[Found]]
           a4 == [a3 EXCEPT !.first = first]
           a5 == [a4 EXCEPT !.final = final]
           a6 == [a5 EXCEPT !.length = length]
<1>5. answer' \in Answers
  <2>1. answer' = a6
    BY <1>4
  <2> HIDE DEF a1, a2, a3, a4, a5, a6
  <2>2. a1 \in Answers
    BY <1>3 DEF a1, Answers
  <2>3. a2 \in Answers
    BY <1>3, <2>2, AnswerWith DEF a2
  <2>4. a3 \in Answers
    BY <1>3, <2>3 DEF a3, Answers
  <2>5. a4 \in Answers
    BY <1>3, <2>4, AnswerWith DEF a4
  <2>6. a5 \in Answers
    BY <1>3, <2>5, AnswerWith DEF a5
  <2>7. a6 \in Answers
    BY <1>3, <2>6, AnswerWith DEF a6
  <2> QED
    BY <2>1, <2>7
<1>6. answer' \in Answers'
  BY <1>2, <1>5 DEF Answers
<1> QED
  BY <1>1, <1>2, <1>6 DEF TypeOK

LEMMA TypeStep ==
  ASSUME TypeOK, NothingYet, RootInForce, [Next]_vars
  PROVE  TypeOK'
<1>1. CASE ServersNext /\ UNCHANGED conn_vars
  <2>1. ServersTypeOK'
    BY <1>1, ServersTypeStep DEF TypeOK
  <2> QED
    BY <1>1, <2>1 DEF TypeOK, Answers, conn_vars
<1>2. CASE UNCHANGED vars
  <2>1. ServersTypeOK'
    BY <1>2, ServersTypeStep DEF TypeOK, vars
  <2> QED
    BY <1>2, <2>1 DEF TypeOK, Answers, vars, conn_vars
<1>3. CASE Connection /\ UNCHANGED server_vars
  <2>1. ASSUME NEW r \in Requests, Receive(r) PROVE TypeOK'
    BY <1>3, <2>1, ReceiveType
  <2>2. CASE Root
    <3>1. root' \in {None} \cup Directives
      BY <2>2 DEF Root, LatestRoot, At, TypeOK
    <3> QED
      BY <1>3, <2>2, <3>1, AdvanceType DEF Root, At
  <2>3. CASE (RedirIfNotCookie /\ UNCHANGED root /\ Advance) \/ Tls \/ ProxyNotMatched
    <3>1. next \in DOMAIN site /\ root' = root /\ Advance
      BY <2>3 DEF RedirIfNotCookie, Tls, ProxyNotMatched, At
    <3>2. root' \in {None} \cup Directives
      BY <3>1 DEF TypeOK
    <3> QED
      BY <1>3, <3>1, <3>2, AdvanceType
  <2>4. CASE \E status \in {302, 404, 500, 502} : Reply(status)
    BY <1>3, <2>4, ReplyType
  <2>12. Redir => Reply(302) \/ EndSilently
    BY DEF Redir
  <2>13. RedirIfNotCookie =>
           \/ Reply(302) \/ EndSilently
           \/ RedirIfNotCookie /\ UNCHANGED root /\ Advance
    BY DEF RedirIfNotCookie
  <2>5. CASE RangeRefused
    <3>1. files[Found] \in u64
      BY <2>5, OpenedFacts DEF RangeRefused
    <3>2. RangeStatus(request.range, files[Found]) \in {206, 400, 416}
      BY <2>5, <3>1, RangeOfRequest, RangeFacts DEF RangeRefused
    <3> QED
      BY <1>3, <2>5, <3>2, ReplyType DEF RangeRefused
  <2>6. CASE EndSilently
    BY <1>3, <2>6, EndSilentlyType
  <2>7. CASE SendWhole
    <3>1. Opened /\ SendHead(200, 0, 0, files[Found]) /\ files[Found] \in u64
      BY <2>7, OpenedFacts DEF SendWhole
    <3> QED
      BY <1>3, <3>1, Zero, SendHeadType
  <2>8. CASE SendRange
    <3> DEFINE size == files[Found]
    <3>1. Opened /\ size \in u64 /\ RangeStatus(request.range, size) = 206
      BY <2>8, OpenedFacts DEF SendRange
    <3>2. /\ First(request.range, size) \in u64 /\ Final(request.range, size) \in u64
          /\ ContentLength(request.range, size) \in u64
      BY <2>8, <3>1, RangeOfRequest, RangeFacts DEF SendRange
    <3>3. SendHead(206, First(request.range, size), Final(request.range, size),
                   ContentLength(request.range, size))
      BY <2>8 DEF SendRange
    <3> HIDE DEF size
    <3> QED
      BY <1>3, <3>1, <3>2, <3>3, SendHeadType
  <2>9. CASE SendBody
    <3>1. PICK size \in Lengths \cup {answer.size} :
            Close([answer EXCEPT !.eof = size, !.sent = Rest(answer.first, size)])
      BY <2>9 DEF SendBody
    <3>2. size \in u64 /\ Rest(answer.first, size) \in u64
      BY DispatchAssumption, RestType DEF TypeOK, Answers
    <3> DEFINE b == [answer EXCEPT !.eof = size]
    <3>3. [answer EXCEPT !.eof = size, !.sent = Rest(answer.first, size)] \in Answers
      <4>1. b \in Answers
        BY <3>2, AnswerWith DEF TypeOK
      <4>2. [b EXCEPT !.sent = Rest(answer.first, size)] \in Answers
        BY <3>2, <4>1, AnswerWith
      <4> QED
        BY <4>2
    <3> QED
      BY <1>3, <3>1, <3>3, CloseType
  <2>10. CASE Proxied
    <3>1. PICK i \in Usable : Close([answer EXCEPT !.status = Tunnelled, !.proxy = i])
      BY <2>10 DEF Proxied
    <3> DEFINE b == [answer EXCEPT !.status = Tunnelled]
    <3>2. [answer EXCEPT !.status = Tunnelled, !.proxy = i] \in Answers
      <4>1. b \in Answers
        BY AnswerWith DEF TypeOK
      <4>2. i \in DOMAIN site
        BY <3>1 DEF Usable, ProxyStates, Proxies
      <4>3. [b EXCEPT !.proxy = i] \in Answers
        BY <4>1, <4>2, AnswerWith
      <4> QED
        BY <4>3
    <3> QED
      BY <1>3, <3>1, <3>2, CloseType
  <2>11. CASE ClientLeaves \/ FileFails
    <3>1. [answer EXCEPT !.lost = TRUE] \in Answers
      BY AnswerWith DEF TypeOK
    <3> QED
      BY <1>3, <2>11, <3>1, CloseType DEF ClientLeaves, FileFails
  <2> QED
    BY <1>3, <2>1, <2>2, <2>3, <2>4, <2>5, <2>6, <2>7, <2>8, <2>9, <2>10, <2>11, <2>12, <2>13
       DEF Connection, NoDirective, AnswerNotFound, FileWithoutRoot,
           FileNotFound, RangeBreaks, BadGateway, ProxyBreaks
<1> QED
  BY <1>1, <1>2, <1>3 DEF Next

-----------------------------------------------------------------------------
(***************************************************************************)
(* The inductive invariant.  First what does not change as long as the     *)
(* loop over the directives does not move on.                              *)
(***************************************************************************)

LoopStays ==
  request' = request /\ site' = site /\ next' = next /\ root' = root /\ files' = files

LEMMA SameView ==
  ASSUME LoopStays
  PROVE  /\ RootsBefore' = RootsBefore /\ Found' = Found /\ Proxies' = Proxies
         /\ Usable' = Usable
         /\ \A d : Applies(d)' <=> Applies(d)
<1>1. RootsBefore' = RootsBefore
  BY Zenon DEF LoopStays, RootsBefore
<1>2. Found' = Found
  BY Zenon DEF LoopStays, Found
<1>3. Proxies' = Proxies
  BY Zenon DEF LoopStays, Proxies
<1>4. ProxyStates' = ProxyStates
  BY <1>3, Zenon DEF LoopStays, ProxyStates
<1>5. Usable' = Usable
  BY <1>4, Zenon DEF LoopStays, Usable
<1>6. \A d : Applies(d)' <=> Applies(d)
  BY DEF LoopStays, Applies
<1> QED
  BY <1>1, <1>2, <1>3, <1>5, <1>6

LEMMA LoopKeeps ==
  ASSUME LoopStays, PassedBy, RootInForce
  PROVE  PassedBy' /\ RootInForce'
<1>1. PassedBy'
  BY SameView DEF LoopStays, PassedBy
<1>2. RootInForce'
  BY SameView DEF LoopStays, RootInForce
<1> QED
  BY <1>1, <1>2

\* The conjuncts of the invariant that are about the connection.
ConnectionInv ==
  /\ NothingYet /\ PassedBy /\ RootInForce /\ HeadIsMade
  /\ DecidedInOrder /\ FilesComeFromRoot /\ HeadIsHonest /\ NoSilentEnd

LEMMA ConnectionInvInit ==
  ASSUME Init
  PROVE  ConnectionInv
<1>1. pc = "idle" /\ site = << >> /\ next = 1 /\ root = None /\ answer = NoAnswer
  BY DEF Init
<1>2. NothingYet /\ HeadIsMade /\ HeadIsHonest /\ NoSilentEnd
  BY <1>1 DEF NothingYet, HeadIsMade, HeadIsHonest, NoSilentEnd
<1>3. DecidedInOrder /\ FilesComeFromRoot
  BY <1>1 DEF DecidedInOrder, FilesComeFromRoot, DecidedBy, Decided
<1>4. PassedBy /\ RootsBefore = {}
  BY <1>1 DEF PassedBy, RootsBefore
<1> QED
  BY <1>1, <1>2, <1>3, <1>4 DEF ConnectionInv, RootInForce

LEMMA StutterKeeps ==
  ASSUME ConnectionInv, UNCHANGED conn_vars
  PROVE  ConnectionInv'
<1>1. LoopStays /\ pc' = pc /\ answer' = answer
  BY DEF conn_vars, LoopStays
<1>2. /\ Decided' <=> Decided
      /\ \A kind : DecidedBy(kind)' <=> DecidedBy(kind)
  BY <1>1 DEF Decided, DecidedBy, LoopStays
<1>3. NothingYet' /\ HeadIsMade' /\ HeadIsHonest'
  BY <1>1 DEF ConnectionInv, NothingYet, HeadIsMade, HeadIsHonest, LoopStays
<1>4. DecidedInOrder'
  BY <1>1, <1>2, SameView DEF ConnectionInv, DecidedInOrder, LoopStays
<1>5. FilesComeFromRoot'
  BY <1>1, <1>2, SameView DEF ConnectionInv, FilesComeFromRoot, LoopStays
<1>6. NoSilentEnd'
  BY <1>1, <1>2, SameView DEF ConnectionInv, NoSilentEnd, LoopStays, HasBackends
<1> QED
  BY <1>1, <1>3, <1>4, <1>5, <1>6, LoopKeeps DEF ConnectionInv

\* A connection that is not decided yet.
LEMMA Undecided ==
  ASSUME pc' = "directives"
  PROVE  (HeadIsMade /\ DecidedInOrder /\ FilesComeFromRoot /\ HeadIsHonest /\ NoSilentEnd)'
BY DEF HeadIsMade, DecidedInOrder, FilesComeFromRoot, HeadIsHonest, NoSilentEnd, DecidedBy, Decided

\* One more directive is passed by, and a root that matches replaces the last.
LEMMA AdvanceKeeps ==
  ASSUME TypeOK, ConnectionInv, pc = "directives", next \in DOMAIN site, Advance,
         ~Applies(site[next]),
         root' = IF site[next].kind = "root" THEN LatestRoot ELSE root
  PROVE  ConnectionInv'
<1>1. /\ pc' = "directives" /\ answer' = answer /\ request' = request /\ site' = site
      /\ next' = next + 1 /\ files' = files
  BY DEF Advance
<1>2. next \in Nat /\ next >= 1
  BY LenProperties DEF TypeOK
<1>3. NothingYet'
  BY <1>1 DEF ConnectionInv, NothingYet
<1>4. PassedBy'
  <2> SUFFICES ASSUME NEW i \in 1 .. next' - 1 PROVE (~Applies(site[i]))'
    BY DEF PassedBy
  <2>1. ~Applies(site[i])
    <3>1. i \in 1 .. next - 1 \/ i = next
      BY <1>1, <1>2
    <3> QED
      BY <3>1 DEF ConnectionInv, PassedBy
  <2> QED
    BY <1>1, <2>1 DEF Applies
<1>5. RootInForce'
  <2> DEFINE matches == site[next].kind = "root"
                          /\ MatchesPattern(site[next].pattern, request.path)
  <2>1. RootsBefore' = {i \in 1 .. next : /\ site[i].kind = "root"
                                          /\ MatchesPattern(site[i].pattern, request.path)}
    <3>1. next' - 1 = next
      BY <1>1, <1>2
    <3> QED
      BY <1>1, <3>1, Zenon DEF RootsBefore
  <2>2. \A i : i \in 1 .. next <=> (i \in 1 .. next - 1 \/ i = next)
    BY <1>2
  <2>3. CASE matches
    <3>1. next \in RootsBefore'
      BY <2>1, <2>2, <2>3
    <3>2. \A j \in RootsBefore' : j <= next
      <4>1. \A j \in RootsBefore' : j \in 1 .. next
        BY <2>1
      <4> QED
        BY <1>2, <4>1
    <3>3. root' = site'[next]
      BY <1>1, <2>3 DEF LatestRoot
    <3> QED
      BY <3>1, <3>2, <3>3 DEF RootInForce
  <2>4. CASE ~matches
    <3>1. RootsBefore' = RootsBefore
      BY <2>1, <2>2, <2>4 DEF RootsBefore
    <3>2. root' = root
      BY <2>4 DEF LatestRoot
    <3> QED
      BY <1>1, <3>1, <3>2 DEF ConnectionInv, RootInForce
  <2> QED
    BY <2>3, <2>4
<1> QED
  BY <1>1, <1>3, <1>4, <1>5, Undecided DEF ConnectionInv

\* What the loop was at when the connection was closed, as Close leaves it.
LEMMA CloseKeeps ==
  ASSUME ConnectionInv, pc \in {"directives", "body"}, NEW a, Close(a)
  PROVE  /\ LoopStays /\ pc' = "closed" /\ answer' = a
         /\ NothingYet' /\ PassedBy' /\ RootInForce' /\ HeadIsMade'
         /\ Decided' <=> ~a.lost /\ site # << >>
         /\ \A kind : DecidedBy(kind)' <=>
              /\ ~a.lost /\ site # << >>
              /\ next \in DOMAIN site /\ site[next].kind = kind
<1>1. LoopStays /\ pc' = "closed" /\ answer' = a
  BY DEF Close, LoopStays
<1>2. NothingYet'
  BY <1>1 DEF ConnectionInv, NothingYet, LoopStays
<1>3. PassedBy' /\ RootInForce'
  BY <1>1, LoopKeeps DEF ConnectionInv
<1>4. HeadIsMade'
  BY <1>1 DEF HeadIsMade
<1>5. Decided' <=> ~a.lost /\ site # << >>
  BY <1>1 DEF Decided, LoopStays
<1>6. \A kind : DecidedBy(kind)' <=>
        /\ ~a.lost /\ site # << >>
        /\ next \in DOMAIN site /\ site[next].kind = kind
  BY <1>1, <1>5 DEF DecidedBy, LoopStays
<1> QED
  BY <1>1, <1>2, <1>3, <1>4, <1>5, <1>6

\* The client has left: nothing is said of what it got.
LEMMA LeaveKeeps ==
  ASSUME ConnectionInv, pc \in {"directives", "body"}, NEW a, a.lost, Close(a)
  PROVE  ConnectionInv'
<1>1. /\ pc' = "closed" /\ answer' = a /\ ~Decided' /\ \A kind : ~DecidedBy(kind)'
      /\ NothingYet' /\ PassedBy' /\ RootInForce' /\ HeadIsMade'
  BY CloseKeeps
<1>2. DecidedInOrder' /\ FilesComeFromRoot' /\ HeadIsHonest' /\ NoSilentEnd'
  BY <1>1 DEF DecidedInOrder, FilesComeFromRoot, HeadIsHonest, NoSilentEnd
<1> QED
  BY <1>1, <1>2 DEF ConnectionInv

\* The redirect that is looked at cannot be built.
Unsendable ==
  /\ next \in DOMAIN site /\ site[next].kind \in {"redir", "redirifnotcookie"}
  /\ ~site[next].sendable

\* An end with nothing but a status, or without one: what it must show.
LEMMA EndKeeps ==
  ASSUME ConnectionInv, pc = "directives", NEW a, Close(a),
         a.status \notin {200, 206}, a.proxy = None, a.path = None, ~a.lost,
         next \in DOMAIN site =>
           \/ Applies(site[next])
           \/ next \in Proxies /\ \E i \in Proxies : i > next /\ Applies(site[i])
           \/ Unsendable /\ a.status = None,
         next \notin DOMAIN site => a.status = 404,
         (next \in DOMAIN site /\ site[next].kind = "file_server" /\ RootsBefore = {}) =>
           a.status = 500,
         a.status = None =>
           /\ next \in DOMAIN site
           /\ \/ site[next].kind = "file_server" /\ Underflows(request.range, files[Found])
              \/ site[next].kind = "reverse_proxy" /\ request.long
              \/ site[next].kind = "reverse_proxy"
                   /\ \E i \in Usable : ~HasBackends(i) /\ site[i].policy = "IPHash"
              \/ Unsendable
  PROVE  ConnectionInv'
<1>1. /\ LoopStays /\ pc' = "closed" /\ answer' = a
      /\ NothingYet' /\ PassedBy' /\ RootInForce' /\ HeadIsMade'
      /\ \A kind : DecidedBy(kind)' <=>
           site # << >> /\ next \in DOMAIN site /\ site[next].kind = kind
  BY CloseKeeps
<1>2. /\ site' = site /\ next' = next /\ request' = request /\ files' = files
      /\ Found' = Found /\ Usable' = Usable /\ RootsBefore' = RootsBefore /\ Proxies' = Proxies
      /\ \A d : Applies(d)' <=> Applies(d)
  BY <1>1, SameView DEF LoopStays
<1>3. DecidedInOrder'
  <2>1. \A i \in 1 .. next - 1 : ~Applies(site[i])
    BY DEF ConnectionInv, PassedBy
  <2>2. \A i \in Proxies : i \in DOMAIN site
    BY DEF Proxies
  <2>3. next \in DOMAIN site /\ ~Applies(site[next]) =>
          \/ next \in Proxies /\ \E i \in Proxies : i > next /\ Applies(site[i])
          \/ /\ site[next].kind = "redirifnotcookie" /\ ~site[next].sendable
             /\ a.status = None
    BY AppliesTo DEF Unsendable
  <2> QED
    BY <1>1, <1>2, <2>1, <2>3 DEF DecidedInOrder
<1>4. FilesComeFromRoot'
  BY <1>1, <1>2 DEF FilesComeFromRoot
<1>5. HeadIsHonest'
  BY <1>1 DEF HeadIsHonest
<1>6. NoSilentEnd'
  <2>1. next \in DOMAIN site => site # << >>
    OBVIOUS
  <2> QED
    BY <1>1, <1>2, <2>1 DEF NoSilentEnd, HasBackends, Unsendable
<1> QED
  BY <1>1, <1>3, <1>4, <1>5, <1>6 DEF ConnectionInv

\* The same for an end without an answer.
LEMMA SilenceKeeps ==
  ASSUME ConnectionInv, pc = "directives", EndSilently, next \in DOMAIN site,
         \/ Applies(site[next])
         \/ next \in Proxies /\ \E i \in Proxies : i > next /\ Applies(site[i])
         \/ Unsendable,
         site[next].kind = "file_server" => RootsBefore # {},
         \/ site[next].kind = "file_server" /\ Underflows(request.range, files[Found])
         \/ site[next].kind = "reverse_proxy" /\ request.long
         \/ site[next].kind = "reverse_proxy"
              /\ \E i \in Usable : ~HasBackends(i) /\ site[i].policy = "IPHash"
         \/ Unsendable
  PROVE  ConnectionInv'
<1>1. answer = NoAnswer /\ Close(answer)
  BY DEF ConnectionInv, NothingYet, EndSilently
<1>2. answer.status = None /\ answer.proxy = None /\ answer.path = None /\ ~answer.lost
  BY <1>1 DEF NoAnswer
<1>3. None \notin {200, 206}
  BY FileServerAssumption
<1> QED
  BY <1>1, <1>2, <1>3, EndKeeps

\* And for a reply.
LEMMA ReplyKeeps ==
  ASSUME ConnectionInv, pc = "directives",
         NEW status \in {302, 400, 404, 416, 500, 502}, Reply(status),
         next \in DOMAIN site =>
           \/ Applies(site[next])
           \/ next \in Proxies /\ \E i \in Proxies : i > next /\ Applies(site[i]),
         next \notin DOMAIN site => status = 404,
         (next \in DOMAIN site /\ site[next].kind = "file_server" /\ RootsBefore = {}) =>
           status = 500
  PROVE  ConnectionInv'
<1> DEFINE a == [answer EXCEPT !.status = status]
<1>1. answer = NoAnswer /\ Close(a)
  BY DEF ConnectionInv, NothingYet, Reply
<1>2. a.status = status /\ a.proxy = None /\ a.path = None /\ ~a.lost
  BY <1>1 DEF NoAnswer
<1>3. status # None
  BY FileServerAssumption
<1> HIDE DEF a
<1> QED
  BY <1>1, <1>2, <1>3, EndKeeps

\* A backend has answered.
LEMMA ProxiedKeeps ==
  ASSUME TypeOK, ConnectionInv, Proxied
  PROVE  ConnectionInv'
<1>1. PICK i \in Usable : Close([answer EXCEPT !.status = Tunnelled, !.proxy = i])
  BY DEF Proxied
<1> DEFINE a == [answer EXCEPT !.status = Tunnelled, !.proxy = i]
<1>2. answer = NoAnswer /\ pc = "directives" /\ next \in DOMAIN site
      /\ site[next].kind = "reverse_proxy"
  BY DEF ConnectionInv, NothingYet, Proxied, At
<1>3. /\ a.status = Tunnelled /\ a.proxy = i /\ a.path = None /\ ~a.lost
  BY <1>2 DEF NoAnswer
<1>4. Tunnelled \notin {None, 200, 206}
  BY DispatchAssumption
<1> HIDE DEF a
<1>5. /\ LoopStays /\ pc' = "closed" /\ answer' = a
      /\ NothingYet' /\ PassedBy' /\ RootInForce' /\ HeadIsMade'
      /\ \A kind : DecidedBy(kind)' <=>
           site # << >> /\ next \in DOMAIN site /\ site[next].kind = kind
  BY <1>1, <1>2, <1>3, CloseKeeps DEF a
<1>6. /\ site' = site /\ next' = next /\ request' = request
      /\ Proxies' = Proxies /\ \A d : Applies(d)' <=> Applies(d)
  BY <1>5, SameView DEF LoopStays
<1>7. /\ i \in DOMAIN site /\ i \in Proxies /\ Applies(site[i])
      /\ ~Applies(site[next]) => i > next
  BY <1>1, UsableProxy DEF ConnectionInv, Proxied
<1>8. DecidedInOrder'
  <2>1. \A j \in 1 .. next - 1 : ~Applies(site[j])
    BY DEF ConnectionInv, PassedBy
  <2>2. next \in Proxies
    BY <1>2 DEF Proxies
  <2> QED
    BY <1>2, <1>3, <1>5, <1>6, <1>7, <2>1, <2>2 DEF DecidedInOrder
<1>9. FilesComeFromRoot' /\ HeadIsHonest' /\ NoSilentEnd'
  BY <1>2, <1>3, <1>4, <1>5 DEF FilesComeFromRoot, HeadIsHonest, NoSilentEnd
<1> QED
  BY <1>5, <1>8, <1>9 DEF ConnectionInv

\* The root in force is the last one that matched.
LEMMA RootIsLast ==
  ASSUME TypeOK, RootInForce, root # None
  PROVE  RootsBefore # {} /\ root = site[Max(RootsBefore)]
<1>1. PICK i \in RootsBefore : root = site[i] /\ \A j \in RootsBefore : j <= i
  BY DEF RootInForce
<1>2. RootsBefore \in SUBSET Nat
  BY LenProperties DEF TypeOK, RootsBefore
<1>3. Max(RootsBefore) = i
  BY <1>1, <1>2, MaxIs
<1> QED
  BY <1>1, <1>3

\* There is a root in force as soon as one has matched.
LEMMA RootIsSome ==
  ASSUME TypeOK, RootInForce, RootsBefore # {}
  PROVE  root # None
<1>1. PICK i \in RootsBefore : root = site[i]
  BY DEF RootInForce
<1>2. root \in Directives
  <2>1. i \in DOMAIN site
    BY <1>1, LenProperties DEF RootsBefore, TypeOK
  <2> QED
    BY <1>1, <2>1 DEF TypeOK
<1> QED
  BY <1>2, DispatchAssumption

\* The head of a file is out.
LEMMA SendHeadKeeps ==
  ASSUME TypeOK, ConnectionInv, Opened, NEW status \in {200, 206},
         NEW first, NEW final, NEW length, SendHead(status, first, final, length),
         \/ status = 200 /\ first = 0 /\ length = files[Found]
         \/ status = 206 /\ Underflows(request.range, files[Found])
         \/ /\ status = 206 /\ first <= final /\ final < files[Found]
            /\ length = final - first + 1
  PROVE  ConnectionInv'
<1> DEFINE a == [answer EXCEPT !.status = status, !.path = Found, !.size = files[Found],
                               !.first = first, !.final = final, !.length = length]
<1>1. /\ pc = "directives" /\ next \in DOMAIN site /\ site[next].kind = "file_server"
      /\ answer = NoAnswer /\ root # None /\ request \in Requests
      /\ FromRoot(root, Found)
  BY OpenedFacts DEF ConnectionInv
<1>2. LoopStays /\ pc' = "body" /\ answer' = a
  BY DEF SendHead, LoopStays
<1>3. /\ a.status = status /\ a.path = Found /\ a.size = files[Found]
      /\ a.first = first /\ a.final = final /\ a.length = length
  BY <1>1 DEF NoAnswer
<1>4. a.proxy = None /\ ~a.lost
  BY <1>1 DEF NoAnswer
<1> HIDE DEF a
<1>5. /\ site' = site /\ next' = next /\ request' = request
      /\ RootsBefore' = RootsBefore /\ \A d : Applies(d)' <=> Applies(d)
  BY <1>2, SameView DEF LoopStays
<1>6. NothingYet' /\ HeadIsHonest' /\ NoSilentEnd'
  BY <1>1, <1>2, <1>5 DEF NothingYet, HeadIsHonest, NoSilentEnd
<1>7. PassedBy' /\ RootInForce'
  BY <1>2, LoopKeeps DEF ConnectionInv
<1>8. HeadIsMade'
  BY <1>2, <1>3, <1>4, <1>5 DEF HeadIsMade
<1>9. DecidedInOrder'
  <2>1. Applies(site[next]) /\ \A i \in 1 .. next - 1 : ~Applies(site[i])
    BY <1>1, AppliesTo DEF ConnectionInv, PassedBy
  <2> QED
    BY <1>1, <1>2, <1>4, <1>5, <2>1 DEF DecidedInOrder
<1>10. FilesComeFromRoot'
  <2>1. RootsBefore # {} /\ root = site[Max(RootsBefore)]
    BY <1>1, RootIsLast DEF ConnectionInv
  <2> QED
    BY <1>1, <1>2, <1>3, <1>5, <2>1 DEF FilesComeFromRoot
<1> QED
  BY <1>6, <1>7, <1>8, <1>9, <1>10 DEF ConnectionInv

LEMMA SendRangeKeeps ==
  ASSUME TypeOK, ConnectionInv, SendRange
  PROVE  ConnectionInv'
<1> DEFINE size == files[Found]
           first == First(request.range, size)
           final == Final(request.range, size)
           length == ContentLength(request.range, size)
<1>1. Opened /\ request.range # NoRange /\ RangeStatus(request.range, size) = 206
  BY DEF SendRange
<1>2. size \in u64
  BY <1>1, OpenedFacts DEF ConnectionInv
<1>3. request.range \in {Malformed} \cup [start : {None} \cup u64, end : {None} \cup u64]
  BY <1>1, RangeOfRequest DEF ConnectionInv
<1>4. ~Underflows(request.range, size) =>
        first <= final /\ final < size /\ length = final - first + 1
  BY <1>1, <1>2, <1>3, RangeFacts
<1>5. SendHead(206, first, final, length)
  BY DEF SendRange
<1> HIDE DEF first, final, length
<1> QED
  BY <1>1, <1>4, <1>5, SendHeadKeeps

\* The body follows: never less than the head said, while the file does not
\* shrink.
LEMMA SendBodyKeeps ==
  ASSUME TypeOK, ConnectionInv, SendBody
  PROVE  ConnectionInv'
<1>1. PICK eof \in Lengths \cup {answer.size} :
        Close([answer EXCEPT !.eof = eof, !.sent = Rest(answer.first, eof)])
  BY DEF SendBody
<1> DEFINE a == [answer EXCEPT !.eof = eof, !.sent = Rest(answer.first, eof)]
<1>2. answer \in Answers
  BY DEF TypeOK
<1>3. /\ a.status = answer.status /\ a.path = answer.path /\ a.size = answer.size
      /\ a.first = answer.first /\ a.final = answer.final /\ a.length = answer.length
      /\ a.eof = eof /\ a.sent = Rest(answer.first, eof) /\ a.proxy = answer.proxy
  BY <1>2 DEF Answers
<1>4. a.lost = answer.lost
  BY <1>2, Zenon DEF Answers
<1>5. pc = "body" /\ HeadIsMade
  BY DEF SendBody, ConnectionInv
<1>6. ~answer.lost /\ ~a.lost
  BY <1>4, <1>5 DEF HeadIsMade
<1>7. Close(a)
  BY <1>1
<1> HIDE DEF a
<1>8. /\ LoopStays /\ pc' = "closed" /\ answer' = a
      /\ NothingYet' /\ PassedBy' /\ RootInForce' /\ HeadIsMade'
      /\ Decided' <=> Decided
      /\ \A kind : DecidedBy(kind)' <=> DecidedBy(kind)
  BY <1>5, <1>6, <1>7, CloseKeeps DEF Decided, DecidedBy
<1>9. /\ site' = site /\ next' = next /\ request' = request
      /\ RootsBefore' = RootsBefore /\ Proxies' = Proxies
      /\ \A d : Applies(d)' <=> Applies(d)
  BY <1>8, SameView DEF LoopStays
<1>10. DecidedInOrder'
  BY <1>3, <1>8, <1>9 DEF ConnectionInv, DecidedInOrder
<1>11. FilesComeFromRoot'
  BY <1>3, <1>8, <1>9 DEF ConnectionInv, FilesComeFromRoot
<1>12. a.status \in {200, 206} /\ a.status # None
  BY <1>3, <1>5, FileServerAssumption DEF HeadIsMade
<1>13. NoSilentEnd'
  BY <1>8, <1>12 DEF NoSilentEnd
<1>14. HeadIsHonest'
  <2>1. /\ answer.first \in u64 /\ answer.final \in u64 /\ answer.size \in u64
        /\ eof \in u64 /\ U64 \in Nat
    BY <1>2, DispatchAssumption, FileServerAssumption DEF Answers
  <2>2. a.sent = IF a.first < a.eof THEN a.eof - a.first ELSE 0
    BY <1>3 DEF Rest
  <2>3. CASE a.status = 200 /\ a.first = 0 /\ a.length = a.size
    <3>1. a.size \in Nat /\ a.eof \in Nat
      BY <1>3, <2>1 DEF u64
    <3>2. a.sent = a.eof
      BY <2>2, <2>3, <3>1
    <3>3. a.status # 206
      BY <2>3
    <3> QED
      BY <1>8, <2>3, <3>1, <3>2, <3>3 DEF HeadIsHonest
  <2>4. CASE a.status = 206 /\ Underflows(request.range, a.size)
    BY <1>8, <1>9, <2>4 DEF HeadIsHonest
  <2>5. CASE /\ a.status = 206 /\ a.first <= a.final /\ a.final < a.size
             /\ a.length = a.final - a.first + 1
    <3>1. a.size \in Nat /\ a.eof \in Nat /\ a.first \in Nat /\ a.final \in Nat
      BY <1>3, <2>1 DEF u64
    <3>2. a.eof >= a.size => a.sent >= a.length
      BY <2>2, <2>5, <3>1
    <3>3. a.status # 200
      BY <2>5
    <3> QED
      BY <1>8, <2>5, <3>2, <3>3 DEF HeadIsHonest
  <2> QED
    BY <1>3, <1>5, <2>3, <2>4, <2>5 DEF HeadIsMade
<1> QED
  BY <1>8, <1>10, <1>11, <1>13, <1>14 DEF ConnectionInv

LEMMA ReceiveKeeps ==
  ASSUME TypeOK, ConnectionInv, NEW r \in Requests, Receive(r)
  PROVE  ConnectionInv'
<1>1. /\ request' = r /\ next' = 1 /\ root' = None
      /\ answer' = [NoAnswer EXCEPT !.status = answer'.status]
      /\ \/ answer'.status = None /\ pc' = "directives"
         \/ answer'.status \in {400, 403} /\ pc' = "closed" /\ site' = << >>
  BY ReceiveFacts DEF ConnectionInv
<1>2. PassedBy' /\ RootsBefore' = {}
  BY <1>1 DEF PassedBy, RootsBefore
<1>3. RootInForce'
  BY <1>1, <1>2 DEF RootInForce
<1>4. CASE answer'.status = None /\ pc' = "directives"
  <2>1. NothingYet'
    <3>1. answer' = [NoAnswer EXCEPT !.status = None]
      BY <1>1, <1>4
    <3>2. NoAnswer \in Answers /\ NoAnswer.status = None
      BY NothingIsAnAnswer DEF NoAnswer
    <3>3. [NoAnswer EXCEPT !.status = None] = NoAnswer
      BY <3>2, SameStatus DEF Answers
    <3> QED
      BY <1>1, <1>4, <3>1, <3>3 DEF NothingYet, NoAnswer
  <2> QED
    BY <1>2, <1>3, <1>4, <2>1, Undecided DEF ConnectionInv
<1>5. CASE answer'.status \in {400, 403} /\ pc' = "closed" /\ site' = << >>
  <2>1. NothingYet' /\ HeadIsMade'
    BY <1>1, <1>5 DEF NothingYet, HeadIsMade
  <2>2. ~Decided' /\ \A kind : ~DecidedBy(kind)'
    BY <1>5 DEF Decided, DecidedBy
  <2>3. answer'.status # None
    BY <1>5, FileServerAssumption
  <2>4. DecidedInOrder' /\ FilesComeFromRoot' /\ HeadIsHonest' /\ NoSilentEnd'
    BY <1>5, <2>2, <2>3 DEF DecidedInOrder, FilesComeFromRoot, HeadIsHonest, NoSilentEnd
  <2> QED
    BY <1>2, <1>3, <2>1, <2>4 DEF ConnectionInv
<1> QED
  BY <1>1, <1>4, <1>5

\* The replies of the loop, one by one.
LEMMA FileRepliesKeep ==
  ASSUME TypeOK, ConnectionInv, FileWithoutRoot \/ FileNotFound \/ RangeRefused
  PROVE  ConnectionInv'
<1>1. At("file_server") /\ pc = "directives" /\ next \in DOMAIN site
      /\ site[next].kind = "file_server" /\ Applies(site[next])
  BY AppliesTo DEF FileWithoutRoot, FileNotFound, RangeRefused, Opened, At
<1>2. CASE FileWithoutRoot
  BY <1>1, <1>2, ReplyKeeps DEF FileWithoutRoot
<1>3. CASE FileNotFound
  <2>1. RootsBefore # {}
    BY <1>3, RootIsLast DEF FileNotFound, ConnectionInv
  <2> QED
    BY <1>1, <1>3, <2>1, ReplyKeeps DEF FileNotFound
<1>4. CASE RangeRefused
  <2>1. RootsBefore # {}
    BY <1>4, RootIsLast DEF RangeRefused, Opened, ConnectionInv
  <2>2. files[Found] \in u64
    BY <1>4, OpenedFacts DEF RangeRefused, ConnectionInv
  <2>3. RangeStatus(request.range, files[Found]) \in {400, 416}
    BY <1>4, <2>2, RangeOfRequest, RangeFacts DEF RangeRefused, ConnectionInv
  <2> QED
    BY <1>1, <1>4, <2>1, <2>3, ReplyKeeps DEF RangeRefused
<1> QED
  BY <1>2, <1>3, <1>4

LEMMA RangeBreaksKeeps ==
  ASSUME TypeOK, ConnectionInv, RangeBreaks
  PROVE  ConnectionInv'
<1>1. /\ pc = "directives" /\ next \in DOMAIN site /\ site[next].kind = "file_server"
      /\ Applies(site[next]) /\ root # None /\ EndSilently
      /\ Underflows(request.range, files[Found])
  BY AppliesTo DEF RangeBreaks, Opened, At
<1>2. RootsBefore # {}
  BY <1>1, RootIsLast DEF ConnectionInv
<1> QED
  BY <1>1, <1>2, SilenceKeeps

LEMMA ProxyEndsKeep ==
  ASSUME TypeOK, ConnectionInv, BadGateway \/ ProxyBreaks
  PROVE  ConnectionInv'
<1>1. /\ At("reverse_proxy") /\ pc = "directives" /\ next \in DOMAIN site
      /\ site[next].kind = "reverse_proxy"
  BY DEF BadGateway, ProxyBreaks, At
<1>2. \A i \in Usable : \/ Applies(site[next])
                        \/ next \in Proxies /\ \E j \in Proxies : j > next /\ Applies(site[j])
  <2> SUFFICES ASSUME NEW i \in Usable
               PROVE  \/ Applies(site[next])
                      \/ next \in Proxies /\ \E j \in Proxies : j > next /\ Applies(site[j])
    OBVIOUS
  <2>1. /\ i \in Proxies /\ Applies(site[i])
        /\ ~Applies(site[next]) => i > next
    BY <1>1, UsableProxy DEF ConnectionInv
  <2>2. next \in Proxies
    BY <1>1 DEF Proxies
  <2> QED
    BY <2>1, <2>2
<1>3. CASE BadGateway
  <2>1. Reply(502) /\ \E i \in Usable : TRUE
    BY <1>3 DEF BadGateway
  <2> QED
    BY <1>1, <1>2, <2>1, ReplyKeeps
<1>4. CASE ProxyBreaks
  <2>1. PICK i \in Usable : IF HasBackends(i) THEN request.long ELSE site[i].policy = "IPHash"
    BY <1>4 DEF ProxyBreaks
  <2>2. EndSilently
    BY <1>4 DEF ProxyBreaks
  <2> QED
    BY <1>1, <1>2, <2>1, <2>2, SilenceKeeps
<1> QED
  BY <1>3, <1>4

LEMMA RedirectsKeep ==
  ASSUME TypeOK, ConnectionInv, Redir \/ RedirIfNotCookie
  PROVE  ConnectionInv'
<1>1. /\ pc = "directives" /\ next \in DOMAIN site
      /\ site[next].kind \in {"redir", "redirifnotcookie"}
  BY DEF Redir, RedirIfNotCookie, At
<1>2. CASE Reply(302) /\ Applies(site[next])
  BY <1>1, <1>2, ReplyKeeps
<1>3. CASE Advance /\ UNCHANGED root /\ ~Applies(site[next])
  BY <1>1, <1>3, AdvanceKeeps
<1>4. CASE EndSilently /\ ~site[next].sendable
  <2>1. Unsendable
    BY <1>1, <1>4 DEF Unsendable
  <2> QED
    BY <1>1, <1>4, <2>1, SilenceKeeps
<1> QED
  BY <1>2, <1>3, <1>4, AppliesTo DEF Redir, RedirIfNotCookie, At

LEMMA PassesKeep ==
  ASSUME TypeOK, ConnectionInv, Root \/ Tls \/ ProxyNotMatched
  PROVE  ConnectionInv'
<1>1. /\ pc = "directives" /\ next \in DOMAIN site /\ Advance
      /\ root' = IF site[next].kind = "root" THEN LatestRoot ELSE root
  BY DEF Root, Tls, ProxyNotMatched, At
<1>2. ~Applies(site[next])
  <2>1. CASE Root \/ Tls
    BY <2>1, AppliesTo DEF Root, Tls, At
  <2>2. CASE ProxyNotMatched
    BY <2>2, NoUsableProxy DEF ProxyNotMatched
  <2> QED
    BY <2>1, <2>2
<1> QED
  BY <1>1, <1>2, AdvanceKeeps

LEMMA ConnectionInvStep ==
  ASSUME TypeOK, ConnectionInv, [Next]_vars
  PROVE  ConnectionInv'
<1>1. CASE UNCHANGED conn_vars
  BY <1>1, StutterKeeps
<1>2. CASE Connection
  <2>1. CASE \E r \in Requests : Receive(r)
    BY <2>1, ReceiveKeeps
  <2>2. CASE NoDirective
    <3>1. pc = "directives" /\ Reply(404) /\ next \notin DOMAIN site
      BY <2>2, LenProperties DEF NoDirective, AnswerNotFound, TypeOK
    <3> QED
      BY <3>1, ReplyKeeps
  <2>3. CASE SendWhole
    <3>1. Opened /\ SendHead(200, 0, 0, files[Found])
      BY <2>3 DEF SendWhole
    <3> QED
      BY <3>1, SendHeadKeeps
  <2>4. CASE ClientLeaves \/ FileFails
    <3> DEFINE a == [answer EXCEPT !.lost = TRUE]
    <3>1. a.lost
      BY Zenon DEF TypeOK, Answers
    <3>2. pc \in {"directives", "body"} /\ Close(a)
      BY <2>4 DEF ClientLeaves, FileFails, Opened, At
    <3> HIDE DEF a
    <3> QED
      BY <3>1, <3>2, LeaveKeeps
  <2> QED
    BY <1>2, <2>1, <2>2, <2>3, <2>4, RedirectsKeep, PassesKeep, FileRepliesKeep, SendRangeKeeps,
       RangeBreaksKeeps, SendBodyKeeps, ProxiedKeeps, ProxyEndsKeep DEF Connection
<1> QED
  BY <1>1, <1>2 DEF Next, vars

LEMMA DispatchInductive ==
  Spec => [](TypeOK /\ ServersInv /\ ConnectionInv)
<1>1. Init => TypeOK /\ ServersInv /\ ConnectionInv
  BY TypeInit, ServersInvInit, ConnectionInvInit DEF Init
<1>2. TypeOK /\ ServersInv /\ ConnectionInv /\ [Next]_vars
        => (TypeOK /\ ServersInv /\ ConnectionInv)'
  <2> SUFFICES ASSUME TypeOK, ServersInv, ConnectionInv, [Next]_vars
               PROVE  TypeOK' /\ ServersInv' /\ ConnectionInv'
    OBVIOUS
  <2>1. TypeOK'
    BY TypeStep DEF ConnectionInv
  <2>2. ServersInv'
    <3>1. ServersTypeOK /\ [ServersNext]_server_vars
      BY DEF TypeOK, Next, vars
    <3> QED
      BY <3>1, ServersInvStep
  <2>3. ConnectionInv'
    BY ConnectionInvStep
  <2> QED
    BY <2>1, <2>2, <2>3
<1> QED
  BY <1>1, <1>2, PTL DEF Spec

-----------------------------------------------------------------------------
(***************************************************************************)
(* The answer is about the file that is found                              *)
(***************************************************************************)

\* A file_server that is not decided, or is not what decided.
LEMMA NoFileServer ==
  ASSUME pc' \in {"idle", "directives"} \/ site' = << >> \/ next' \notin DOMAIN site'
           \/ site'[next'].kind # "file_server" \/ answer'.lost
  PROVE  FoundIsSent'
BY DEF FoundIsSent, DecidedBy, Decided

\* The connection is closed by an answer that names no file.
LEMMA FileReplyIsSent ==
  ASSUME TypeOK, ConnectionInv, FileWithoutRoot \/ FileNotFound \/ RangeRefused \/ RangeBreaks
  PROVE  FoundIsSent'
<1>1. pc = "directives" /\ answer = NoAnswer
  BY DEF FileWithoutRoot, FileNotFound, RangeRefused, RangeBreaks, Opened, At, ConnectionInv,
         NothingYet
<1>2. PICK status \in {None, 400, 404, 416, 500} :
        /\ Close([answer EXCEPT !.status = status])
        /\ root = None \/ Found = None \/ status \in {None, 400, 416}
  <2>1. CASE FileWithoutRoot
    BY <2>1 DEF FileWithoutRoot, Reply
  <2>2. CASE FileNotFound
    BY <2>2 DEF FileNotFound, Reply
  <2>3. CASE RangeRefused
    <3>1. files[Found] \in u64
      BY <2>3, OpenedFacts DEF RangeRefused, ConnectionInv
    <3>2. RangeStatus(request.range, files[Found]) \in {400, 416}
      BY <2>3, <3>1, RangeOfRequest, RangeFacts DEF RangeRefused, ConnectionInv
    <3> QED
      BY <2>3, <3>2 DEF RangeRefused, Reply
  <2>4. CASE RangeBreaks
    <3>1. Close(NoAnswer)
      BY <1>1, <2>4 DEF RangeBreaks, EndSilently
    <3>2. NoAnswer \in Answers /\ NoAnswer.status = None
      BY NothingIsAnAnswer DEF NoAnswer
    <3>3. [NoAnswer EXCEPT !.status = None] = NoAnswer
      BY <3>2, SameStatus DEF Answers
    <3> QED
      BY <1>1, <3>1, <3>3
  <2> QED
    BY <2>1, <2>2, <2>3, <2>4
<1> DEFINE a == [answer EXCEPT !.status = status]
<1>3. a.status = status /\ a.path = None
  BY <1>1 DEF NoAnswer
<1>4. LoopStays /\ answer' = a
  BY <1>2 DEF Close, LoopStays
<1> HIDE DEF a
<1>5. root' = root /\ Found' = Found
  BY <1>4, SameView DEF LoopStays
<1> QED
  BY <1>2, <1>3, <1>4, <1>5 DEF FoundIsSent

LEMMA HeadIsSent ==
  ASSUME TypeOK, ConnectionInv, NEW status, NEW first, NEW final, NEW length,
         Opened, SendHead(status, first, final, length)
  PROVE  FoundIsSent'
<1>1. answer = NoAnswer /\ Found # None
  BY OpenedFacts DEF ConnectionInv, Opened
<1>2. answer'.path = Found
  BY <1>1 DEF SendHead, NoAnswer
<1>3. Found' = Found
  BY SameView DEF SendHead, LoopStays
<1> QED
  BY <1>1, <1>2, <1>3 DEF FoundIsSent

LEMMA BodyIsSent ==
  ASSUME TypeOK, ConnectionInv, FoundIsSent, SendBody
  PROVE  FoundIsSent'
<1>1. PICK eof \in Lengths \cup {answer.size} :
        Close([answer EXCEPT !.eof = eof, !.sent = Rest(answer.first, eof)])
  BY DEF SendBody
<1> DEFINE a == [answer EXCEPT !.eof = eof, !.sent = Rest(answer.first, eof)]
<1>2. a.status = answer.status /\ a.path = answer.path
  BY DEF TypeOK, Answers
<1>3. LoopStays /\ answer' = a
  BY <1>1 DEF Close, LoopStays
<1> HIDE DEF a
<1>4. root' = root /\ Found' = Found
  BY <1>3, SameView DEF LoopStays
<1>5. DecidedBy("file_server")' => DecidedBy("file_server")
  BY <1>3 DEF SendBody, ConnectionInv, HeadIsMade, DecidedBy, Decided, LoopStays
<1> QED
  BY <1>2, <1>3, <1>4, <1>5 DEF FoundIsSent

LEMMA FoundIsSentStep ==
  ASSUME TypeOK, ConnectionInv, FoundIsSent, [Next]_vars
  PROVE  FoundIsSent'
<1>1. CASE UNCHANGED conn_vars
  <2>1. LoopStays /\ pc' = pc /\ answer' = answer
    BY <1>1 DEF conn_vars, LoopStays
  <2>2. root' = root /\ Found' = Found /\ (DecidedBy("file_server")' <=> DecidedBy("file_server"))
    BY <2>1, SameView DEF LoopStays, DecidedBy, Decided
  <2> QED
    BY <2>1, <2>2 DEF FoundIsSent
<1>2. CASE Connection
  <2>1. ASSUME NEW r \in Requests, Receive(r) PROVE FoundIsSent'
    <3>1. pc' = "directives" \/ site' = << >>
      BY <2>1, ReceiveFacts DEF ConnectionInv
    <3> QED
      BY <3>1, NoFileServer
  <2>2. CASE Root \/ Tls \/ ProxyNotMatched \/ (RedirIfNotCookie /\ Advance)
    <3>1. pc' = "directives"
      BY <2>2 DEF Root, Tls, ProxyNotMatched, RedirIfNotCookie, At, Advance
    <3> QED
      BY <3>1, NoFileServer
  <2>3. CASE Redir \/ RedirIfNotCookie \/ Proxied \/ BadGateway \/ ProxyBreaks
    <3>1. next \in DOMAIN site /\ site[next].kind # "file_server"
      BY <2>3 DEF Redir, RedirIfNotCookie, Proxied, BadGateway, ProxyBreaks, At
    <3>2. CASE pc' = "directives"
      BY <3>2, NoFileServer
    <3>3. CASE next' = next /\ site' = site
      BY <3>1, <3>3, NoFileServer
    <3> QED
      BY <2>2, <2>3, <3>2, <3>3
         DEF Redir, RedirIfNotCookie, Proxied, BadGateway, ProxyBreaks, Reply, EndSilently, Close
  <2>4. CASE NoDirective
    <3>1. next \notin DOMAIN site /\ next' = next /\ site' = site
      BY <2>4, LenProperties DEF NoDirective, AnswerNotFound, Reply, Close, TypeOK
    <3> QED
      BY <3>1, NoFileServer
  <2>5. CASE ClientLeaves \/ FileFails
    <3>1. answer' = [answer EXCEPT !.lost = TRUE]
      BY <2>5 DEF ClientLeaves, FileFails, Close
    <3>2. answer'.lost
      BY <3>1, Zenon DEF TypeOK, Answers
    <3> QED
      BY <3>2, NoFileServer
  <2>6. CASE SendWhole
    BY <2>6, HeadIsSent DEF SendWhole
  <2>7. CASE SendRange
    BY <2>7, HeadIsSent DEF SendRange
  <2> QED
    BY <1>2, <2>1, <2>2, <2>3, <2>4, <2>5, <2>6, <2>7, FileReplyIsSent, BodyIsSent
       DEF Connection
<1> QED
  BY <1>1, <1>2 DEF Next, vars

\* A file that is there under an ordinary path is the one that is found.
LEMMA FoundIsWhatWasAsked ==
  ASSUME TypeOK, ConnectionInv, FoundIsSent
  PROVE  OrdinaryFilesAreFound
<1> DEFINE asked == Indexed(site[Max(RootsBefore)].path \o Components(request.path))
<1> SUFFICES ASSUME DecidedBy("file_server"), RootsBefore # {}, Ordinary(request.path),
                    asked \in DOMAIN files
             PROVE  /\ answer.path \in {None, asked}
                    /\ answer.path = None => answer.status \in {None, 400, 416}
  BY Zenon DEF OrdinaryFilesAreFound
<1>1. root # None
  BY DispatchAssumption, RootIsSome DEF ConnectionInv
<1>2. root = site[Max(RootsBefore)]
  BY <1>1, RootIsLast DEF ConnectionInv
<1>3. request \in Requests
  BY DEF ConnectionInv, NothingYet, DecidedBy, Decided
<1>4. Found # None /\ Found = asked
  BY <1>1, <1>2, <1>3, OrdinaryIsFound DEF ConnectionInv
<1> HIDE DEF asked
<1> QED
  BY <1>1, <1>4 DEF FoundIsSent

LEMMA FoundIsSentAlways == Spec => []FoundIsSent
<1>1. Init => FoundIsSent
  BY DEF Init, FoundIsSent, DecidedBy, Decided
<1>2. TypeOK /\ ConnectionInv /\ FoundIsSent /\ [Next]_vars => FoundIsSent'
  BY FoundIsSentStep
<1> QED
  BY <1>1, <1>2, DispatchInductive, PTL DEF Spec

-----------------------------------------------------------------------------
(***************************************************************************)
(* Theorems                                                                *)
(***************************************************************************)

\* What a connection does leaves the servers alone: the dispatcher builds its
\* servers the way Servers says.
THEOREM DispatchBuildsServers == Spec => ServersSpec
<1>1. Init => ServersInit
  BY DEF Init
<1>2. [Next]_vars => [ServersNext]_server_vars
  BY DEF Next, vars
<1> QED
  BY <1>1, <1>2, PTL DEF Spec, ServersSpec

\* Sizes, positions and lengths are u64, the directive that is looked at is one
\* of the host's or behind the last, and the file that is sent is one that
\* can be opened (directive_process, file_directive, ranged_file_response).
THEOREM DispatchTypeCorrect == Spec => []TypeOK
BY DispatchInductive, PTL

\* The inductive invariant: the servers are those of the hosts visited, no
\* directive that applies has been passed by, the root in force is the last
\* that matched, and a head that is out names a range of the file that is found.
THEOREM DispatchInvariant == Spec => []DispatchInv
<1>1. TypeOK /\ ServersInv /\ ConnectionInv /\ FoundIsSent => DispatchInv
  BY FoundIsWhatWasAsked DEF DispatchInv, ConnectionInv
<1> QED
  BY <1>1, DispatchInductive, FoundIsSentAlways, PTL

\* A file that is there under a path without "." and ".." is what its url gets,
\* whatever the path is made of (sanitize_path, file_directive).
THEOREM OrdinaryFilesGetThrough == Spec => []OrdinaryFilesAreFound
<1>1. DispatchInv => OrdinaryFilesAreFound
  BY DEF DispatchInv
<1> QED
  BY <1>1, DispatchInvariant, PTL

\* The first directive that applies decides (directive_process), but for the
\* proxy that answers for a later one (reverse_proxy.rs:32) and for the
\* redirifnotcookie whose redirect cannot be built (directive.rs:207).
THEOREM FirstThatAppliesDecides == Spec => []DecidedInOrder
<1>1. DispatchInv => DecidedInOrder
  BY DEF DispatchInv
<1> QED
  BY <1>1, DispatchInvariant, PTL

\* What file_directive sends is below the root that is in force, whatever the
\* path of the request is.
THEOREM FilesStayBelowRoot == Spec => []FilesComeFromRoot
<1>1. DispatchInv => FilesComeFromRoot
  BY DEF DispatchInv
<1> QED
  BY <1>1, DispatchInvariant, PTL

\* The Content-Length and Content-Range of a file are never more than what
\* follows (send_response_file, ranged_file_response).
THEOREM HeadsAreHonest == Spec => []HeadIsHonest
<1>1. DispatchInv => HeadIsHonest
  BY DEF DispatchInv
<1> QED
  BY <1>1, DispatchInvariant, PTL

\* A client that stays is answered, but for the four ends that are listed.
THEOREM ClientsAreAnswered == Spec => []NoSilentEnd
<1>1. DispatchInv => NoSilentEnd
  BY DEF DispatchInv
<1> QED
  BY <1>1, DispatchInvariant, PTL

\* The servers a connection meets do not depend on the order of the HashMap that
\* build_servers iterates over, when the configuration is unambiguous.
THEOREM DispatchOrderNeverMatters == Spec => []OrderDoesNotMatter
BY DispatchBuildsServers, OrderNeverMatters

\* What is found for a Host header is of a host with that name or of a star host
\* (directive_process after build_servers).
THEOREM DispatchNoSiteIsForeign == Spec => []NoForeignSite
BY DispatchBuildsServers, NoSiteIsForeign
=============================================================================
