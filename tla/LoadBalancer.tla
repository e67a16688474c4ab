---------------------------- MODULE LoadBalancer ----------------------------
(***************************************************************************)
(* One ReverseProxyState (src/src/reverse_proxy.rs) shared by the          *)
(* connection tasks that run proxy_directive on it: which backend a        *)
(* request gets (get_next_backend), what its connection attempts report    *)
(* (set_dead_backend, set_alive_backend), and when the request gives up.   *)
(*                                                                         *)
(* Tasks interleave at every await of the code.  A pass of the scan loop   *)
(* takes the lock of one backend's alive_state and awaits nothing while it *)
(* holds it, so one pass is one step; the round robin scan as a whole is   *)
(* not atomic, because other tasks write alive_state between two passes.   *)
(*                                                                         *)
(* Time is counted in the code's whole seconds.  The code stores the       *)
(* second a backend was marked dead (since) and only ever evaluates        *)
(* now > since + lb_interval, so the model keeps age = now - since, capped *)
(* at lb_interval + 1: the model is finite and time is unbounded.  It is   *)
(* the wall clock, which may be set back: then age can be negative.  The   *)
(* timestamp inside AliveState::Alive is never read and is left out.       *)
(***************************************************************************)
EXTENDS Integers

CONSTANTS
  Requests,   \* the connection tasks that can be proxying at the same time
  NoRequest,  \* the "holder" of a free lock
  N,          \* the number of destinations of the reverse_proxy directive
  Configs,    \* the states (policy, options, urls, callers) a behavior may be about
  Faults,     \* how a backend that is not up may fail
  MaxSkew     \* how far the wall clock may be set back behind a since, a bound

Backends == 0 .. (N - 1)

\* What proxy_directive takes from the directive that was reached.
Options == [lb_retries : Nat, lb_timeout : Nat]

\* A state, and the options of the directives that requests reach it by: its own,
\* and those of another that stands before it and does not match itself.
Config == [lb_policy   : {"RoundRobin", "IPHash"},
           lb_retries  : Nat,
           lb_interval : Nat,
           long_urls   : SUBSET Backends,
           callers     : SUBSET Options]

ASSUME ConstantsAssumption ==
  /\ N \in Nat \ {0}
  /\ NoRequest \notin Requests
  /\ Configs \subseteq Config
  /\ Faults \subseteq {"refusing", "hung"}
  /\ MaxSkew \in Nat

VARIABLES
  config,           \* self.lb_policy, self.options, and which urls exceed 100 bytes
  current_backend,  \* *self.current_backend: the next index round robin looks at
  idx_guard,        \* who holds the write lock of current_backend
  dead,             \* the backends whose alive_state is AliveState::Dead
  age,              \* whole seconds since Dead.since, at most lb_interval + 1
  retries_left,     \* Dead.retries_left; 0 for a backend that is alive
  status,           \* the environment: how a backend answers a connection attempt
  pc,               \* where each task is in proxy_directive
  home,             \* the client's index under ip_hash
  options,          \* those of the directive that was reached
  cursor,           \* backend_idx of an ip_hash scan
  scanned,          \* passes of the scan loop done so far
  backend,          \* LiveBackend.backend_index of the selected backend
  retries,          \* connection attempts left with the selected backend
  waited,           \* seconds the current attempt has lasted
  gave_up,          \* the last request was answered "No healthy backends"
  seen,             \* history: the backends that scan found dead
  last_pick         \* history: the backend round robin selected last

lb_vars   == <<current_backend, idx_guard, last_pick>>
health    == <<dead, age, retries_left>>
task_vars == <<pc, home, options, cursor, scanned, backend, retries, waited, gave_up, seen>>
vars == <<config, lb_vars, health, status, task_vars>>

PCs    == {"idle", "select", "scan", "connect", "opened", "exchange"}
Status == {"up"} \cup Faults

TypeOK ==
  /\ config \in Configs
  /\ current_backend \in Backends
  /\ idx_guard \in Requests \cup {NoRequest}
  /\ dead \in SUBSET Backends
  /\ age \in [Backends -> Int]
  /\ retries_left \in [Backends -> Nat]
  /\ status \in [Backends -> Status]
  /\ pc \in [Requests -> PCs]
  /\ home \in [Requests -> Backends]
  /\ options \in [Requests -> Options]
  /\ cursor \in [Requests -> Backends]
  /\ scanned \in [Requests -> 0 .. N]
  /\ backend \in [Requests -> Backends]
  /\ retries \in [Requests -> Nat]
  /\ waited \in [Requests -> Nat]
  /\ gave_up \in [Requests -> BOOLEAN]
  /\ seen \in [Requests -> SUBSET Backends]
  /\ last_pick \in Backends

\* ReverseProxyState::new: every backend starts alive, whatever it is.
Init ==
  /\ config \in Configs
  /\ current_backend = 0
  /\ idx_guard = NoRequest
  /\ dead = {}
  /\ age = [b \in Backends |-> 0]
  /\ retries_left = [b \in Backends |-> 0]
  /\ status \in [Backends -> Status]
  /\ pc = [r \in Requests |-> "idle"]
  /\ home = [r \in Requests |-> 0]
  /\ options = [r \in Requests |-> [lb_retries |-> 0, lb_timeout |-> 0]]
  /\ cursor = [r \in Requests |-> 0]
  /\ scanned = [r \in Requests |-> 0]
  /\ backend = [r \in Requests |-> 0]
  /\ retries = [r \in Requests |-> 0]
  /\ waited = [r \in Requests |-> 0]
  /\ gave_up = [r \in Requests |-> FALSE]
  /\ seen = [r \in Requests |-> {}]
  /\ last_pick = N - 1

RoundRobin == config.lb_policy = "RoundRobin"

NextIndexUnwrapped(i) == i + 1   \* a variant the runs must reject

NextIndex(i) == (i + 1) % N

(***************************************************************************)
(* A new request whose path matches the pattern enters the loop of         *)
(* proxy_directive.  Its client's address hashes to some index; it is an   *)
(* IPv4 address, because init_server binds 0.0.0.0, so that "IPv6 not      *)
(* supported" is never said.                                               *)
(***************************************************************************)
Arrive(r) ==
  /\ pc[r] = "idle"
  /\ pc' = [pc EXCEPT ![r] = "select"]
  /\ \E h \in IF RoundRobin THEN {0} ELSE Backends :
        home' = [home EXCEPT ![r] = h]
  /\ \E o \in config.callers :
        options' = [options EXCEPT ![r] = o]
  /\ gave_up' = [gave_up EXCEPT ![r] = FALSE]
  /\ seen' = [seen EXCEPT ![r] = {}]
  /\ UNCHANGED <<config, lb_vars, health, status,
                 cursor, scanned, backend, retries, waited>>

-----------------------------------------------------------------------------
(***************************************************************************)
(* get_next_backend                                                        *)
(***************************************************************************)

LockIndexShared(r) == idx_guard' = r   \* a variant the runs must reject

LockIndex(r) ==
  /\ idx_guard = NoRequest
  /\ idx_guard' = r

\* Round robin keeps current_backend locked for the whole scan; ip_hash scans
\* from the client's index with an index of its own and no lock.
BeginScan(r) ==
  /\ pc[r] = "select"
  /\ \/ /\ RoundRobin
        /\ LockIndex(r)
        /\ UNCHANGED cursor
     \/ /\ ~RoundRobin
        /\ cursor' = [cursor EXCEPT ![r] = home[r]]
        /\ UNCHANGED idx_guard
  /\ pc' = [pc EXCEPT ![r] = "scan"]
  /\ scanned' = [scanned EXCEPT ![r] = 0]
  /\ seen' = [seen EXCEPT ![r] = {}]
  /\ UNCHANGED <<config, current_backend, last_pick, health, status,
                 home, options, backend, retries, waited, gave_up>>

\* get_next_backend returns: its guard of current_backend and its locals are
\* dropped (to 0 here, so that no state differs in a value nobody can read).
ReturnFromScan(r) ==
  /\ idx_guard' = IF idx_guard = r THEN NoRequest ELSE idx_guard
  /\ cursor' = [cursor EXCEPT ![r] = 0]
  /\ scanned' = [scanned EXCEPT ![r] = 0]

\* proxy_directive turns every Err of get_next_backend into this one answer.
AnswerNoHealthy(r) ==
  /\ pc' = [pc EXCEPT ![r] = "idle"]
  /\ gave_up' = [gave_up EXCEPT ![r] = TRUE]
  /\ ReturnFromScan(r)
  /\ UNCHANGED <<config, current_backend, last_pick, status,
                 home, options, backend, retries, waited, seen>>

Cursor(r) == IF RoundRobin THEN current_backend ELSE cursor[r]

NeverTooLong(b) == FALSE   \* a variant the runs must reject

\* The url of b does not fit heapless::String<100>.
TooLong(b) == b \in config.long_urls

\* The pass at backend b returns: Ok(b) and the next index, or, when b's url
\* is too long, an Err that leaves the index at b.
Return(r, b) ==
  \/ /\ TooLong(b)
     /\ AnswerNoHealthy(r)
  \/ /\ ~TooLong(b)
     /\ pc' = [pc EXCEPT ![r] = "connect"]
     /\ backend' = [backend EXCEPT ![r] = b]
     /\ retries' = [retries EXCEPT ![r] = options[r].lb_retries]
     /\ waited' = [waited EXCEPT ![r] = 0]
     /\ seen' = [seen EXCEPT ![r] = {}]
     /\ ReturnFromScan(r)
     /\ IF RoundRobin
        THEN current_backend' = NextIndex(b) /\ last_pick' = b
        ELSE UNCHANGED <<current_backend, last_pick>>
     /\ UNCHANGED <<config, status, home, options, gave_up>>

\* The pass at backend b leaves it dead and the scan goes on behind it.
PassOver(r, b) ==
  /\ IF RoundRobin
     THEN current_backend' = NextIndex(b) /\ UNCHANGED cursor
     ELSE cursor' = [cursor EXCEPT ![r] = NextIndex(b)] /\ UNCHANGED current_backend
  /\ scanned' = [scanned EXCEPT ![r] = @ + 1]
  /\ seen' = [seen EXCEPT ![r] = @ \cup {b}]
  /\ UNCHANGED <<config, idx_guard, last_pick, status,
                 pc, home, options, backend, retries, waited, gave_up>>

ExpiredEarly(b) == age[b] >= config.lb_interval   \* a variant the runs must reject

Expired(b) == age[b] > config.lb_interval

FewerPasses == N - 1   \* a variant the runs must reject

\* The bound of both loops, total_backends.
Passes == N

\* AliveState::Alive: the backend is taken as it is.
ScanAlive(r) ==
  LET b == Cursor(r) IN
  /\ pc[r] = "scan" /\ scanned[r] < Passes
  /\ b \notin dead
  /\ Return(r, b)
  /\ UNCHANGED health

\* Dead for longer than lb_interval with retries left: "Attempt to bring
\* backend back to life".  The decremented retries_left is overwritten at once.
ScanRevive(r) ==
  LET b == Cursor(r) IN
  /\ pc[r] = "scan" /\ scanned[r] < Passes
  /\ b \in dead /\ Expired(b) /\ retries_left[b] > 0
  /\ dead' = dead \ {b}
  /\ age' = [age EXCEPT ![b] = 0]
  /\ retries_left' = [retries_left EXCEPT ![b] = 0]
  /\ Return(r, b)

\* Dead for longer than lb_interval and no retries left: since restarts.
ScanKeepDead(r) ==
  LET b == Cursor(r) IN
  /\ pc[r] = "scan" /\ scanned[r] < Passes
  /\ b \in dead /\ Expired(b) /\ retries_left[b] = 0
  /\ age' = [age EXCEPT ![b] = 0]
  /\ PassOver(r, b)
  /\ UNCHANGED <<dead, retries_left>>

\* Dead, and lb_interval has not passed.
ScanSkip(r) ==
  LET b == Cursor(r) IN
  /\ pc[r] = "scan" /\ scanned[r] < Passes
  /\ b \in dead /\ ~Expired(b)
  /\ PassOver(r, b)
  /\ UNCHANGED health

\* The loop has made total_backends passes: "No healthy backends".
ScanExhausted(r) ==
  /\ pc[r] = "scan" /\ scanned[r] = Passes
  /\ AnswerNoHealthy(r)
  /\ UNCHANGED health

Scan(r) == ScanAlive(r) \/ ScanRevive(r) \/ ScanKeepDead(r) \/ ScanSkip(r)
             \/ ScanExhausted(r)

-----------------------------------------------------------------------------
(***************************************************************************)
(* The selected backend: destination, connection attempts, verdict         *)
(***************************************************************************)

\* The locals of one pass of the loop of proxy_directive are dropped.
DropBackend(r) ==
  /\ backend' = [backend EXCEPT ![r] = 0]
  /\ retries' = [retries EXCEPT ![r] = 0]
  /\ waited' = [waited EXCEPT ![r] = 0]

\* The destination URI is built before the first attempt: it may not fit its
\* buffer (HeaplessError: no answer at all) or not parse (502).  The selection
\* is not undone, and the health of the backend stays what it was.
RejectDestination(r) ==
  /\ pc[r] = "connect" /\ retries[r] = options[r].lb_retries /\ waited[r] = 0
  /\ pc' = [pc EXCEPT ![r] = "idle"]
  /\ DropBackend(r)
  /\ UNCHANGED <<config, lb_vars, health, status,
                 home, options, cursor, scanned, gave_up, seen>>

Attempting(r) == pc[r] = "connect" /\ retries[r] > 0

ConnectOpened(r) ==
  /\ Attempting(r)
  /\ status[backend[r]] = "up"
  /\ pc' = [pc EXCEPT ![r] = "opened"]
  /\ UNCHANGED <<config, lb_vars, health, status,
                 home, options, cursor, scanned, backend, retries, waited, gave_up, seen>>

AttemptFailed(r) ==
  /\ retries' = [retries EXCEPT ![r] = @ - 1]
  /\ waited' = [waited EXCEPT ![r] = 0]
  /\ UNCHANGED <<config, lb_vars, health, status,
                 pc, home, options, cursor, scanned, backend, gave_up, seen>>

ConnectRefused(r) ==
  /\ Attempting(r)
  /\ status[backend[r]] = "refusing"
  /\ AttemptFailed(r)

\* timeout polls the connection before its timer: an answer that is there wins.
ConnectTimedOut(r) ==
  /\ Attempting(r)
  /\ status[backend[r]] = "hung"
  /\ waited[r] = options[r].lb_timeout
  /\ AttemptFailed(r)

FewerRetries == IF config.lb_retries = 0 THEN 0 ELSE config.lb_retries - 1   \* a variant the runs must reject

\* What set_dead_backend puts into retries_left.
FreshRetries == config.lb_retries

\* set_dead_backend, and back to get_next_backend: "Try the next backend".
MarkDead(r) ==
  LET b == backend[r] IN
  /\ pc[r] = "connect" /\ retries[r] = 0
  /\ dead' = dead \cup {b}
  /\ age' = [age EXCEPT ![b] = 0]
  /\ retries_left' = [retries_left EXCEPT ![b] = FreshRetries]
  /\ pc' = [pc EXCEPT ![r] = "select"]
  /\ DropBackend(r)
  /\ UNCHANGED <<config, lb_vars, status,
                 home, options, cursor, scanned, gave_up, seen>>

\* set_alive_backend.
MarkAlive(r) ==
  LET b == backend[r] IN
  /\ pc[r] = "opened"
  /\ dead' = dead \ {b}
  /\ age' = [age EXCEPT ![b] = 0]
  /\ retries_left' = [retries_left EXCEPT ![b] = 0]
  /\ pc' = [pc EXCEPT ![r] = "exchange"]
  /\ DropBackend(r)
  /\ UNCHANGED <<config, lb_vars, status,
                 home, options, cursor, scanned, gave_up, seen>>

\* Request and response are copied; whatever goes wrong here is a 502 and
\* leaves the backend alive.
Exchange(r) ==
  /\ pc[r] = "exchange"
  /\ pc' = [pc EXCEPT ![r] = "idle"]
  /\ UNCHANGED <<config, lb_vars, health, status,
                 home, options, cursor, scanned, backend, retries, waited, gave_up, seen>>

-----------------------------------------------------------------------------
(***************************************************************************)
(* The environment: backends come and go, and time passes.                 *)
(***************************************************************************)

ChangeStatus(b) ==
  /\ \E s \in Status \ {status[b]} : status' = [status EXCEPT ![b] = s]
  /\ UNCHANGED <<config, lb_vars, health, task_vars>>

Tick ==
  /\ age' = [b \in Backends |->
               IF b \in dead /\ ~Expired(b) THEN age[b] + 1 ELSE age[b]]
  /\ waited' = [r \in Requests |->
                  IF Attempting(r) /\ waited[r] < options[r].lb_timeout
                  THEN waited[r] + 1 ELSE waited[r]]
  /\ UNCHANGED <<config, lb_vars, dead, retries_left, status,
                 pc, home, options, cursor, scanned, backend, retries, gave_up, seen>>

(***************************************************************************)
(* SystemTime is not monotonic: it may be set back, here by a second at a  *)
(* time.  A backend whose age has reached the cap may be older than that   *)
(* and stay there.  The timer of a connection attempt is not affected.     *)
(***************************************************************************)
ClockStepsBack ==
  /\ \E older \in SUBSET {b \in dead : Expired(b)} :
       age' = [b \in Backends |-> IF b \in dead \ older THEN age[b] - 1 ELSE age[b]]
  /\ \A b \in Backends : age'[b] >= -MaxSkew
  /\ UNCHANGED <<config, lb_vars, dead, retries_left, status, task_vars>>

-----------------------------------------------------------------------------
Select(r)  == BeginScan(r) \/ Scan(r)
Connect(r) == RejectDestination(r) \/ ConnectOpened(r) \/ ConnectRefused(r)
                \/ ConnectTimedOut(r) \/ MarkDead(r) \/ MarkAlive(r)

Next ==
  \/ \E r \in Requests : Arrive(r) \/ Select(r) \/ Connect(r) \/ Exchange(r)
  \/ \E b \in Backends : ChangeStatus(b)
  \/ Tick \/ ClockStepsBack

Spec == Init /\ [][Next]_vars

-----------------------------------------------------------------------------
(***************************************************************************)
(* Safety                                                                  *)
(***************************************************************************)

\* How many steps forward, around the ring of backends, lead from i to j.
Ahead(i, j) == IF j >= i THEN j - i ELSE j + N - i

\* The backend the running scan of r looked at first.
ScanStart(r) == IF RoundRobin THEN NextIndex(last_pick) ELSE home[r]

(***************************************************************************)
(* "No healthy backends" (reverse_proxy.rs:203) is the truth: every        *)
(* backend was found dead during the scan that gave up, although other     *)
(* tasks scan and write alive_state in between.  The other error that gets *)
(* the same answer, a url of more than 100 bytes, is named.                *)
(***************************************************************************)
NoHealthyIsHonest ==
  \A r \in Requests :
    gave_up[r] =>
      seen[r] = Backends \/ config.long_urls # {}

(***************************************************************************)
(* A dead backend always has all its retries_left: the decrement at        *)
(* reverse_proxy.rs:392 is overwritten at once and set_dead_backend starts *)
(* from lb_retries again.  So the branch "Keep backend dead" is taken for  *)
(* lb_retries = 0 only, and there it is taken for ever.                    *)
(***************************************************************************)
RetriesNeverSpent ==
  \A b \in dead : retries_left[b] = config.lb_retries

(***************************************************************************)
(* The balancing itself: a backend is passed over only when the very scan  *)
(* that passes over it found it dead.  Under round robin the turn is       *)
(* counted from the backend selected last, whichever task selected it, so  *)
(* concurrent requests can neither lose a turn nor take one twice; under   *)
(* ip_hash it is counted from the client's own backend.                    *)
(***************************************************************************)
PicksInTurn ==
  \A r \in Requests :
    (pc[r] = "scan" /\ pc'[r] = "connect" /\ config.long_urls = {}) =>
      \A b \in Backends :
        Ahead(ScanStart(r), b) < Ahead(ScanStart(r), backend'[r]) => b \in seen[r]

InTurn == [][PicksInTurn]_vars

(***************************************************************************)
(* One url that does not fit stops a round robin directive for good: a     *)
(* backend with such a url is never tried, hence never dead, hence never   *)
(* passed over; the index stays there (reverse_proxy.rs:376 leaves before  *)
(* it advances) and no request reaches any backend again, whatever tasks   *)
(* were under way.                                                         *)
(***************************************************************************)
StuckAtLongUrl ==
  (RoundRobin /\ current_backend \in config.long_urls) =>
    /\ UNCHANGED current_backend
    /\ \A r \in Requests : pc[r] = "scan" => pc'[r] # "connect"

LongUrlStopsAll == [][StuckAtLongUrl]_vars

LongUrlsAreNeverTried ==
  /\ dead \cap config.long_urls = {}
  /\ \A r \in Requests :
       pc[r] \in {"connect", "opened"} => backend[r] \notin config.long_urls

(***************************************************************************)
(* The inductive strengthening: round robin scans exclude each other, a    *)
(* scan has seen what lies behind its cursor, and its cursor is as far     *)
(* from the backend it started at as it has made passes.                   *)
(***************************************************************************)
ScanHoldsIndex ==
  \A r \in Requests : pc[r] = "scan" /\ RoundRobin => idx_guard = r

\* However get_next_backend returns, its guard is dropped: who holds the index is
\* scanning, and so will give it back.
HolderScans ==
  idx_guard # NoRequest => RoundRobin /\ pc[idx_guard] = "scan"

ScanSawWhatItPassed ==
  \A r \in Requests :
    pc[r] = "scan" =>
      \A b \in Backends : Ahead(Cursor(r), b) >= N - scanned[r] => b \in seen[r]

ScanCountsPasses ==
  \A r \in Requests :
    (pc[r] = "scan" /\ config.long_urls = {}) =>
      Ahead(ScanStart(r), Cursor(r)) = IF scanned[r] = N THEN 0 ELSE scanned[r]

TurnIsKept ==
  (RoundRobin /\ config.long_urls = {} /\ idx_guard = NoRequest) =>
    current_backend = NextIndex(last_pick)

GaveUpIsOver ==
  \A r \in Requests : gave_up[r] => pc[r] = "idle"

ScanInv ==
  /\ TypeOK
  /\ ScanHoldsIndex
  /\ HolderScans
  /\ ScanSawWhatItPassed
  /\ ScanCountsPasses
  /\ TurnIsKept
  /\ GaveUpIsOver
  /\ NoHealthyIsHonest

-----------------------------------------------------------------------------
(***************************************************************************)
(* Liveness                                                                *)
(***************************************************************************)

(***************************************************************************)
(* The runtime schedules every task that can run, tokio's RwLock serves    *)
(* its waiters in order (so a waiter gets the lock although others take it *)
(* again and again), and time passes.  Exchange and Arrive belong to the   *)
(* peers and are not assumed to happen.                                    *)
(***************************************************************************)
Fairness ==
  /\ \A r \in Requests : /\ WF_vars(Scan(r) \/ Connect(r))
                         /\ SF_vars(BeginScan(r))
  /\ WF_vars(Tick)

FairSpec == Spec /\ Fairness

\* Clients keep asking and exchanges end.
Traffic == \A r \in Requests : WF_vars(Arrive(r)) /\ WF_vars(Exchange(r))

\* From some time on no backend changes its behavior.
BackendsSettle == <>[][status' = status]_status

\* From some time on the clock is not set back any more.
ClockSettles == <>[][~ClockStepsBack]_vars

\* A task that is waiting for something only time or a peer brings about.
Waiting(r) ==
  \/ pc[r] \in {"idle", "exchange"}
  \/ Attempting(r) /\ status[backend[r]] = "hung" /\ waited[r] < options[r].lb_timeout

\* From some time on a task that can run does so before a second passes.
TasksArePrompt == <>[][Tick => \A r \in Requests : Waiting(r)]_vars

(***************************************************************************)
(* The loop of proxy_directive (line 34) ends: a request finds a backend   *)
(* or is told there is none.  Nothing in the loop counts: it ends because  *)
(* every failed backend stays dead until the request has been through the  *)
(* others.                                                                 *)
(***************************************************************************)
RequestsEnd ==
  BackendsSettle /\ TasksArePrompt =>
    \A r \in Requests : pc[r] = "select" ~> pc[r] \in {"idle", "exchange"}

(***************************************************************************)
(* README: "reactive health check on demand".  Nothing but requests probes *)
(* a dead backend, and that suffices under round robin: as long as clients *)
(* keep asking, a backend that is up for good ends up alive for good, even *)
(* if the clock was set back behind the time it was marked dead.           *)
(***************************************************************************)
UpBackendsReturn ==
  Traffic /\ RoundRobin /\ ClockSettles =>
    \A b \in Backends : <>[](status[b] = "up") => <>[](b \notin dead)
=============================================================================
