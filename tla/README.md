# A TLA+ model of cblt

cblt is a small web server, reverse proxy and load balancer written in Rust on
tokio. This directory holds TLA+ modules for its concurrent core, TLC
configurations that check them on small instances, and theorems about them that
TLAPS proves for every value of the constants. Line numbers refer to
`src/src/*.rs`; `PROJECT.json` maps every definition to the lines it stands for.

## 1. Inventory

| Part | Where | State | Operations | Talks to |
|---|---|---|---|---|
| Reload request | `main.rs` `server` 72-81 | the file `reload` | `cblt --reload`: exists?, create | loader, through the file |
| Loader task | `main.rs` 125-157 | none of its own | poll every 5 s, load, send, remove the file | supervisor, through a watch channel |
| Supervisor | `main.rs` 100-121, 172-208 | map port -> `ServerWorker` | stop, update, create workers; exit the process | workers: settings lock, flag, notification |
| Server worker | `server.rs` 80-158, 211-272 | `is_running`, `notify_stop`, `SettingsLock`, semaphore | `new`, `run`, `update`, the accept loop | supervisor; connection tasks |
| Directive dispatch | `directive.rs` | locals of one connection | request -> one directive -> one answer | file server, proxy, response |
| Load balancer | `reverse_proxy.rs` 294-489, 32-120, 196-208 | `alive_state` per backend, `current_backend` | `get_next_backend`, `set_dead_backend`, `set_alive_backend` | all connection tasks of a host |
| Proxy tunnel | `reverse_proxy.rs` 122-195, 217-282 | two sockets, a buffer | forward the request, copy both ways, shut down | client and backend |
| Request reading | `request.rs` | a buffer | read and parse a request, parse `Range` | dispatch, file server |
| File server | `file_server.rs` | none | sanitize the path, fallback, send | response |
| Responses | `response.rs` | none | serialise, gzip, ranges, error pages | the socket |
| Cbltfile | `config.rs` 55-264 | none | KDL -> directives | loader |
| Docker labels | `config.rs` 267-459 | none | services and containers -> directives | loader |
| Host map | `main.rs` 212-258, 289-310 | none | directives per host -> servers per port | loader |
| Errors, logging | `error.rs`, `main.rs` | none | | |

What makes the parts correct, and what is hard about them:

* **Load balancer.** Requests share one state, and every `.await` lets another
  request in. The turn of round robin must neither be lost nor taken twice;
  "No healthy backends" must be true when it is said; the loop that tries one
  backend after the other must end; a backend that recovered must come back,
  although nothing probes it but requests.
* **Server worker.** The accept loop waits in three places (accept, the
  notification, the semaphore) and looks at its stop flag in a fourth. No
  permit may leak, a stop may come at any point, an update may come while a
  connection waits, and no error may end the loop.
* **Loader and supervisor.** A file, a channel that keeps one value, and a
  supervisor that can fail half way. A requested reload must take effect; the
  map must be the configuration; no listener may be forgotten; the process may
  crash between any two steps and start again.
* **Host map.** `build_servers` iterates a `HashMap`; what it builds should not
  depend on the order, no host may answer for another, and a host must be found
  at its address.
* **Dispatch and file server.** The first directive that applies decides, every
  client gets an answer, a file comes from the root that is in force, and the
  head of a response says how much follows. Sizes are `u64` and are read before
  the file is copied.
* **Request reading and tunnel.** Reads return what happens to have arrived; the
  two copies of a tunnel run concurrently; peers half close or go away at any
  time; an error after the response began makes the dispatcher answer again.
  Bytes must arrive in order and none be lost, one response be given, and the
  connection end.

## 2. Plan

Done, in this order: `LoadBalancer` (with `RetryBudget` and
`LoadBalancerProofs`), `Worker`, `Acceptor` (with `AcceptorProofs`), `Reload`
and `Reconfiguration` (with `ReloadProofs`), `Servers`, `FileServer`,
`Dispatch`, `Tunnel`; then `TunnelProofs`, `ServersProofs`, `DispatchProofs`, and
in `ReloadProofs` that the workers of `Reload` are instances of `Worker`; then
`Recursion` and `FileServerProofs`, what recursive functions compute for paths and
lists of any length, the docker labels in `ServersProofs`, and that no direction of a
tunnel is cut off.

What could follow: the safety core of `RequestsEnd` (between two picks of one
request at least one backend is marked dead), so that what is left to TLC is
that time passes.

## 3. The modules

### LoadBalancer

One `ReverseProxyState` and the tasks in `proxy_directive` that use it.

| Variable | Code |
|---|---|
| `config` | `lb_policy`, `lb_retries` and `lb_interval` of the state, which urls exceed 100 bytes, and `callers`: the options of the directives whose requests it gets; fixed for a behavior |
| `current_backend`, `idx_guard` | `*self.current_backend` and the holder of its write lock |
| `dead`, `age`, `retries_left` | `alive_state`: `Alive`, or `Dead { since, retries_left }`, with `age = now - since` |
| `options` | those of the directive a task came from (line 22): its `lb_retries` and `lb_timeout` |
| `pc`, `home`, `cursor`, `scanned`, `backend`, `retries`, `waited` | the locals of one task |
| `status` | the environment: a backend is up, refuses, or hangs |
| `gave_up`, `seen`, `last_pick` | history |

`BeginScan` is the entry of `get_next_backend`; `ScanAlive`, `ScanRevive`,
`ScanKeepDead`, `ScanSkip` and `ScanExhausted` are the outcomes of one pass of
its loop (a pass holds one backend's lock and awaits nothing, so it is one
step); `RejectDestination` is a destination that cannot be built or parsed;
`ConnectOpened`, `ConnectRefused` and `ConnectTimedOut` are the attempts;
`MarkDead` and `MarkAlive` the reports; `Exchange` all that follows. `Tick` lets
a second pass. Time is unbounded: `age` stops at `lb_interval + 1`, beyond which
the code cannot tell ages apart. `ClockStepsBack` sets the wall clock back, at
most `MaxSkew` seconds behind the moment a backend was marked dead.

A `reverse_proxy` directive that is reached and does not match itself hands the
request to the state of another one that does (line 32). Its attempts then go by
`lb_retries` and `lb_timeout` of the directive that was reached (lines 22, 84 and
85), while deaths and revivals go by `self.options` of the state (lines 349 and
389): hence `callers`, and `options` apart from `config`.

Not in the model: the branch "IPv6 not supported" (`init_server` binds
`0.0.0.0`, so no client has such an address), a directive without destinations
(it is in `Dispatch`), and the FNV hash (a client's index is any index).

### RetryBudget

`LoadBalancer` with a history variable that counts how often a scan revived each
backend since a connection to it last succeeded.

### Worker and Acceptor

`Worker` is what the supervisor may assume: a worker opens its port or fails,
keeps an open port until it is told to stop, and then gives it back. `Acceptor`
is `init_server` with its connection tasks, and `ServerWorker::update` and the
stop of `process_workers` as its environment. `W == INSTANCE Worker WITH phase
<- Phase, told <- ~is_running` is the refinement; the properties `SafeWorker` and
`IsWorker` are `W!Safe` and `W!Spec`.

`pc` is `bind`, `check` (the `while`), `enter` (the flag was true, nothing polled
yet), `select`, `deaf` (inside `select!` with the accept branch disabled by an
`Err`), `permit`, `failed`, `closed`. A stop is two steps, the store and the
notification, as in the code. `Finish` is a connection task that ends in any way.

### Reload

`cblt --reload` processes (`CheckReload`, `CreateReload`), the loader (`Load`,
`LoadPanics`, `Send`, `RemoveReload`), the channel, the supervisor (`Wake`,
`Take`, `StopWorkers`, then `Update`, `Create`, `CreateFails` or `UpdateExits` per
port in any order, `Done`, `End`), `Crash` and `Start`, and the worker tasks with
the transitions of `Worker` (`WorkerOpens`, `WorkerFails`, `WorkerShuts`), where a
bind fails while another listener has the port, and for the ports in `BindErrors`
also for any other reason (no permission, no descriptor). `remove_file` may fail
as well: that is only logged, and the file stays. `W(w) == INSTANCE Worker` with
the `phase` of worker `w` and whether it was `told`: `WorkersAreWorkers` says that
every step of the module is, for each worker, its creation, a step of `Worker` or
none, until the process ends. `mode` is `--mode`; in docker mode the loader reads
the services without being asked. A configuration is whether it loads (or makes
`build_config` panic, `config.rs:127`) and, per port, whether it is there and
whether `ServerWorker::new` or `update` succeeds with it ("bad_cert" stands for
every reason it may not).

`Reconfiguration` is what an operator may rely on: a register that may skip
versions, never goes back to an older one, never takes one that does not load,
and starts with what is on disk. `R == INSTANCE Reconfiguration` maps its
`pending` to the version the supervisor has taken or would take, and
`IsReconfiguration` is `R!Spec`.

### Servers

From the labels of docker services (`ReadLabels`, one service after the other,
then `EnterHost` for each of its hosts: `entries` is what the loop over
`hosts_list` has still to push) or a Cbltfile to the servers of the ports
(`BeginBuild`, then `Visit` of each host in any order, `Built`). A host string is
a record of name and port, where the port may be missing or not a number;
`Stripped` is `ParsedHost::host`. `Sites` is how `directive_process` finds the
directives of a request: a host that begins with `*` first, otherwise the `Host`
header as it is. A service whose labels cannot be used, that has no name, or whose
containers the docker API does not tell ends the load. `HostsShareServices`
restates what the loops over services and hosts push as a list joined from one
part per service and host (`HostParts`, `ServiceParts`, `Shared`), with nothing
for a host that the service does not name.

### FileServer

Functions only: `MatchesPattern`, `SanitizePath` (where `Walk` leads along the
components of a url; `Walked` and `Named` are recursive functions of how many
tokens have been taken), `RangeStatus`, `First` and `Final` (`parse_range_header`),
`ContentLength`, `Seekable` and `Rest` (`ranged_file_response` and the copy).
The path of a url is a sequence of tokens. Subtractions wrap at `U64`
(`Minus`), as in a release build; `Underflows` is where a build with overflow
checks panics instead, and `Dispatch` has both outcomes.

### Dispatch

`Servers`, and then one connection through `directive_process`: `Receive` (400
or 403, or the directives of the host), one action for each arm of the loop,
`NoDirective` behind it. `file_server` is `FileWithoutRoot`, `FileNotFound`,
`SendWhole`, `RangeRefused`, `SendRange` or `RangeBreaks`, and `SendBody` for
the copy, by which time the file may have another size; `FileFails` is an open file
whose size cannot be had or that cannot be read. `Redir` and `RedirIfNotCookie`
build their response before anything else, and end without an answer when the
destination cannot be the value of a header (`sendable`). `reverse_proxy` is
`ProxyNotMatched`, `Proxied`, `BadGateway` or `ProxyBreaks`; which backend it is
and what the client then gets is in `LoadBalancer` and `Tunnel`. `EndSilently`
is a task that ends without an answer. `answer` records what was sent.

### Tunnel

One proxied connection, from reading the request (`ReadRequest`, `BodyEnds`,
`BadRequest`, which may also come after the body was read, `request.rs:134`) over
`WriteRequest`, `ReadResponse`, `GatewayFails` and `WriteReply` to the two copies
(`CopyUnit`, `CopyEnds`) and their `Join`. A stream is the sequence of its units,
the first `HeadLen` of which are a head; a read returns any part of what has
arrived; the kernel takes `Capacity` units before a write waits. Peers send, read,
half close ("fin") and go away ("gone") at any time. `Own` is an answer of the
proxy's own. `RequestStream` and `ResponseStream` say what each peer gets,
`NothingCutOff` that it gets all of it: unless a peer goes away, a direction that
is over is one whose sender ended its stream and was forwarded to the end, so that
neither copy ends with the other.

## 4. The runs

| Run | Bounds | What it shows |
|---|---|---|
| `balancer` | 3 backends, 2 requests, both policies, `lb_retries` 0 and 1, `lb_interval` 0 and 1, one url too long, backends up or refusing, requests of a crossing directive without retries, a clock set back | types, `ScanInv`, `NoHealthyIsHonest`, `RetriesNeverSpent`, `InTurn`, `LongUrlStopsAll` |
| `balancer_live` | 2 backends that may hang, 2 requests, both policies, a crossing directive that waits for less, a clock set back behind a death | `RequestsEnd`, `UpBackendsReturn` |
| `retry_budget` | 1 backend, 1 request, `lb_retries` 2 | finding: `RevivalsAreBounded` fails |
| `acceptor` | 3 clients, 2 permits, 1 update | types, `PermitsConserved`, `AtMostOneLate`, `SettingsAreFresh`, `AcceptorInv`, `SafeWorker`, `QueuedAreServed`, `IsWorker` |
| `reload` | 2 ports, 1 operator, 2 edits, 1 restart, both modes, every kind of configuration, bind errors on one port | `MapIsConfigured`, `NoStrayWorker`, `ReloadInv` (which holds the types), `IsReconfiguration`, `WorkersAreWorkers` |
| `reload_live` | 1 port, 2 operators, 2 edits, 1 restart, both modes, configurations that load, fail or panic, bind errors | `RequestIsKept`, `ReloadTakesEffect` |
| `reload_exit` | 2 ports, 1 edit, no crash | finding: `ReloadKeepsServing` fails |
| `reload_zombie` | 2 ports, 2 edits, no crash, no bind error but a port in use | finding: `WorkersOpen` fails |
| `dispatch` | 5 Cbltfiles, 3 lists of services, 3 ports, 7 paths, 4 `Host` headers, 37 kinds of ranges, 2 file systems | types, `OrderDoesNotMatter`, `NoForeignSite`, `HostsShareServices`, `DecidedInOrder`, `FilesComeFromRoot`, `OrdinaryFilesAreFound`, `HeadIsHonest`, `NoSilentEnd`, `DispatchInv` |
| `host_keys` | the README's host with a port | finding: `HostsAnswerAtTheirAddress` fails |
| `file_ranges` | one host, files of 2 and 0 bytes | finding: `RangeIsExact` fails |
| `tunnel` | heads of 2 units, 4 units of the client, 3 of the backend, capacity 1, `Content-Length` 0, 2 or none | `RequestStream`, `ResponseStream`, `WholeRequestFirst`, `NothingCutOff`, `TunnelInv` (which holds the types), `TunnelEnds`, `EveryUnitArrives` |

Why these bounds suffice. Two requests are one that scans and one that
interferes; the lock excludes any third, and under ip_hash tasks share nothing
but `alive_state`. Three backends are the least for which "the next", "the one
passed over" and "the one a scan started at" differ. `lb_interval` 1 lets a
backend be too young and old enough to revive; larger values only add ticks.
Two permits and three clients have both a busy semaphore and a free one. Two
edits let the channel overwrite a version, and let a port go and come back. The
theorems below do not depend on any of these bounds, except that `LastVersion`,
`LastStart` and `MaxSkew` are some natural numbers.

`dispatch` cannot enumerate all configurations, so its Cbltfiles are chosen for
the shapes that `build_servers` and `directive_process` tell apart: one and
several hosts of a port, ports given, missing, malformed and equal to the
default, a `*` host, two certificates, two roots and a fallback, proxies before,
behind and between other directives, two with one pattern, proxies without
destinations. A connection shares nothing with another in this part of the code
(the settings are read once, see `Acceptor`), so one at a time is enough. `U64` 8
stands for 2^64: ranges reach from 0 to `U64 - 1`, below, at and above the sizes
0 and 2, and half of `U64`, where a seek fails. In `tunnel` a head of two units
can arrive in parts or together with a body, a body of two can be cut short, and
a capacity of one makes every write wait.

`Acceptor`, `Reload`, `Dispatch` and `Tunnel` switch deadlock checking off: a
worker that is gone, a server that exited, a loader that ended while nobody
edits, and a connection that is closed are real ends.

### The findings

1. `retry_budget`: `retries_left` never counts down. Line 392 of
   `reverse_proxy.rs` decrements it and line 393 replaces the whole state;
   `set_dead_backend` starts from `lb_retries` again. A backend that never
   answers is revived every `lb_interval` for ever, against the comments at 300
   ("retries remaining") and 402 ("Keep backend dead").
2. `reload_exit`: an unusable certificate in a reloaded configuration ends the
   process (`main.rs:195` and 113), against `README.md:22`.
3. `reload_zombie`: a port removed and added again while its old listener is
   open keeps a worker that failed to bind, and no later reload binds it again.
4. `host_keys`: `build_servers` enters the first host of a port without its port
   (`main.rs:245`) and later ones with it, while the `Host` header is compared as
   it is. `README.md:74` configures `"127.0.0.1:8080"`, and a client that asks for
   that address gets 403.
5. `file_ranges`: a range gets the `Content-Length` of the range and the body of
   everything behind its start (`response.rs:63`), against `README.md:15` and 59.

Three more facts are written into properties as named exceptions, and the runs
reach them: a suffix range longer than the file (`request.rs:176`), a url too long
for a proxy, ip_hash without destinations (`reverse_proxy.rs:488`), and a redirect
whose destination cannot be the value of a header (`directive.rs:186` and 207) end
a connection without an answer (`NoSilentEnd`); a proxy that does not match
answers for a later one and so passes by a `redirifnotcookie`, and a
`redirifnotcookie` whose redirect cannot be built ends the connection even when
the cookie is there, because it is built first (`DecidedInOrder`); and without
`Content-Length` the bytes read together with the head are lost (`RequestStream`).
`LongUrlStopsAll` states what one url of more than 100 bytes does to a round robin
directive. The gzip branch of `send_response_file` reads through the write-side
encoder, which passes the file on as it is.

### Fairness

* `LoadBalancer`: weak fairness of each task's steps (tokio runs every task that
  can run) and of time; strong fairness of `BeginScan`, because tokio's
  `RwLock` queues its waiters in order. `Exchange` and `Arrive` belong to peers
  and are fair only as the premise `Traffic` of `UpBackendsReturn`, which also
  assumes that the clock is not set back for ever (`ClockSettles`).
* `RequestsEnd` assumes backends whose behavior settles, tasks that run before a
  second passes when they can (`TasksArePrompt`: without it a request may be
  slower than `lb_interval` for no reason of the code), and a state whose
  `lb_interval` is at least the time a request needs for the other backends, `(N -
  1) * lb_retries * lb_timeout` with the options of every directive whose requests
  it gets. `UpBackendsReturn` is checked with `lb_retries` 1 for the state and its
  callers: without retries nothing is ever tried or revived. Shorter intervals do
  make it fail: the first backend is revived before the last one is given up. The
  defaults, 60 s and 2 attempts of 1 s, satisfy it up to 31 backends.
* `Acceptor`: weak fairness of the loop, of connection tasks and of the second
  half of a stop, strong fairness of accepting each client (the kernel's queue
  is in order). That connections end is the peers' doing: the code has no
  timeout, so `QueuedAreServed` assumes it.
* `Reload`: weak fairness of loader, supervisor and workers. Nobody has to edit,
  ask, crash or start.
* `Tunnel`: weak fairness of the task and of each copy (`join!` polls both), and
  of peers reading what they are sent. Nobody has to send or to close: the code
  has no timeout, and `TunnelEnds` says what happens once both peers have ended.

`QueuedAreServed` and `ReloadTakesEffect` name the ways the code really stops
serving them: an accept error leaves the loop deaf, and a configuration that
panics ends the loader. These are written into the properties, and the runs
reach them.

## 5. The proofs

All theorems hold for every value of the constants that satisfies the module's
named assumption: any finite number of backends (at least one), requests,
clients, permits and ports, any proxy state and any directives that lead to it, any
configurations.

* **LoadBalancerProofs.** `TypeCorrect`; `ScanInvariant` (`ScanInv`);
  `IndexIsGivenBack`; `NoHealthyAnswersAreHonest`; `BackendsPickedInTurn`;
  `RetriesAreNeverSpent`. `NoHealthyIsHonest` is not inductive: a scan that gives
  up knows only that it made N passes. `ScanInv` adds what it saw: everything that
  is N - `scanned` or more steps ahead of its cursor was found dead
  (`ScanSawWhatItPassed`), the cursor is `scanned` steps from where the scan began
  (`ScanCountsPasses`), a round robin scan holds the index (`ScanHoldsIndex`) and
  who holds it scans (`HolderScans`, also a theorem, `IndexIsGivenBack`: no return
  of the scan leaks the lock all other requests wait for), and the index is behind
  the backend selected last whenever nobody scans (`TurnIsKept`). The two lemmas
  `AheadRing` and `AheadBehind` are the arithmetic of the ring. A scan that made N
  passes has therefore seen all backends; a scan that selects has seen all between
  its start and its choice, which is `InTurn`. `OneLongUrlStopsAll` rests on an
  invariant of its own, `LongUrlsAreNeverTried`: a backend whose url does not fit
  is never tried, so it is never marked dead, so no scan passes over it.
* **AcceptorProofs.** `AcceptorTypeCorrect`, `AcceptorInvariant`,
  `PermitsAreConserved`, `StoppedTakesAtMostOne`, `ServedWithFreshSettings`, and
  `AcceptorImplementsWorker`: every step of the accept loop is a step of `Worker`
  or a stutter. `PermitsConserved` needs to know that who waits for a permit is
  the one accepted client (`AcceptedIsWaiting`); `AtMostOneLate` needs that a
  stopped worker which is back in `select!` has taken nobody yet (`LateIsLast`).
* **ReloadProofs.** `ReloadTypeCorrect`, `ReloadInvariant` (`ReloadInv`),
  `MapStaysConfigured`, `NoWorkerStrays`, `NoRequestIsSwallowed`,
  `ReloadImplementsReconfiguration` and `SupervisedWorkersAreWorkers`. The map
  needs `HalfApplied` (what the second loop of `process_workers` has done and has
  still to do) and `DownIsIdle`. The refinement needs that what is on its way to
  the supervisor is never older than what was there before (`NewerFollows`) and
  always loads (`OnlyLoadable`). That no worker is made twice needs both and
  `MadeOnce`: a worker exists only for a version that was taken and has its port,
  and the worker of the version in hand is still in the map; since versions never
  go back, a version whose worker was dropped is never taken again.
  `RequestIsKept` says where a request is that has not been applied: with the
  file, in the channel with the supervisor about to look, or in the supervisor's
  hand. It needs `LoadIsNewer` (while the loader works on a file nobody finds
  none, so that whoever still creates it looked before the load began and is
  served by it, even if `remove_file` comes after) and `NothingMissed` (what is in
  the channel and newer than what was applied is unseen or in hand). With
  `AcceptorImplementsWorker` this joins the two levels: what the accept loop does
  is what `Reload` assumes of its workers.
* **ServersProofs.** `ServersInvariant`, `OrderNeverMatters`, `NoSiteIsForeign`,
  `SharedHostsHoldAll`: for
  any hosts, services and certificates, and for every order in which the hash map
  is iterated. The two properties speak of the finished map; `ServersInv` says the
  same of the hosts visited so far (`BuiltSoFar`, `SitesBelong`), and a visit keeps
  it whichever host it is. `OrderDoesNotMatter` is about configurations without
  ports in host strings and with one certificate per port (`Unambiguous`); the
  `host_keys` finding is what happens to the others. `SharedHostsHoldAll` is proved
  from `LabelsInv`: after the services read so far, and the hosts of the current
  one entered so far, every host holds what a shorter list of services would give
  it (`ReadSoFar`, `EnteredSoFar`); that a joined list only depends on the parts it
  joins (`JoinsAgree`, `LaterServices`, `OneServiceMore`) is induction over its
  length.
* **DispatchProofs.** `DispatchBuildsServers` (a connection never changes the map,
  so all of `ServersProofs` holds in `Dispatch`), `DispatchTypeCorrect`,
  `DispatchInvariant` (`DispatchInv`), `FirstThatAppliesDecides`,
  `FilesStayBelowRoot`, `OrdinaryFilesGetThrough`, `HeadsAreHonest`,
  `ClientsAreAnswered`, `DispatchOrderNeverMatters`, `DispatchNoSiteIsForeign`:
  for any directives in any order, any requests and file systems, and any width of
  `u64`. `DecidedInOrder` needs what the loop has passed by (`PassedBy`),
  `FilesComeFromRoot` that `root` is the last matching one of it (`RootInForce`),
  `HeadIsHonest` what the head that is out says before the body is copied
  (`HeadIsMade`). `NoUsableProxy` is the step that a map of proxy states calls
  for: if no proxy state is usable, take the last directive with the pattern of
  the one that is reached; it is the one the map holds.
* **Recursion and FileServerProofs.** What recursive functions compute for every
  length. `Recursion` states once that a function defined by recursion over `0 ..
  n` exists and has its equations (`IsRecursion`), and that what its steps keep
  holds of every value; induction is the least counterexample of a well-founded
  order (`WFMin`), since the library's induction theorems take an operator.
  `FileServerProofs` proves from it that no walk leaves a `.` or `..` behind the
  root, and that the walk along a path without them appends its components to the
  root. `FilesStayBelowRoot` and `OrdinaryFilesGetThrough` rest on these two; the
  latter also on `FoundIsSent`, a part of `DispatchInv`.
* **TunnelProofs.** `TunnelTypeCorrect`, `TunnelInvariant` (`TunnelInv`),
  `RequestStreamKept`, `ResponseStreamKept`, `WholeRequestIsFirst`,
  `NothingIsCutOff`: for any number of units, any length of a head, any lengths of
  a body and any capacity of the kernel. `RequestStream` only speaks of what was
  written; `FlowInv`, a part of `TunnelInv`, says where the rest is: what a peer
  has got, what the kernel holds for it, the buffer of the task and what has not
  been read are consecutive parts of one stream (`RequestFlows`, `ResponseFlows`,
  `ArrivesInOrder`), as long as the task runs and the receiver is there. `Places`
  says what the task knows at each of its `.await`s, among it that an answer of
  the proxy's own cannot follow a response: a copy that has ended has shut its
  direction down. `NothingCutOff` is inductive with the flow and `CopiesComeLast`:
  when a copy ends well the counts of `RequestFlows` and `ResponseFlows` leave no
  unit that is not written, a peer that has ended its stream sends nothing more,
  and the join waits for both.

Only model-checked: every liveness property (`RequestsEnd`, `UpBackendsReturn`,
`QueuedAreServed`, `ReloadTakesEffect`, `TunnelEnds`, `EveryUnitArrives`) and the
liveness half of `IsWorker`, because fairness and `ENABLED` are out of the
prover's reach, and the absence of deadlock in `LoadBalancer`. Every safety
property of a passing run is a theorem.

## 6. Not modelled

* The syntax of a Cbltfile (`build_config`, `parse_reverse_proxy_options`): any
  configuration is an input of `Servers`, an error or a panic an outcome in
  `Reload`. It is a function of a document that nothing else observes.
* Libraries: header and KDL syntax, what the `http` crate accepts as a URI, TLS,
  the docker API, tokio itself.
* Serialisation of responses beyond status, length and range; symbolic links
  below a root; several requests on one connection (the tunnel forwards what
  follows the first without looking at it).
* A backend that does not read while it writes: `Tunnel` assumes peers read, and
  the code has no timeout for one that does not.
* A worker's `update` composed with the balancer: an update makes new
  `ReverseProxyState`s, so `LoadBalancer` is about each of them from `Init` on, and
  running requests keep the one they began with.
* Error types, logging, process setup and the benchmark servers have no behavior
  a property could be about.

Hazards that no property covers are listed with the reason in `PROJECT.json`.
