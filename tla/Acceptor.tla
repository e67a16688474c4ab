------------------------------ MODULE Acceptor ------------------------------
(***************************************************************************)
(* One ServerWorker (src/src/server.rs) from run to its end: the task that *)
(* init_server runs, the connection tasks it spawns, the semaphore that    *)
(* bounds them, the settings they read, and the two calls the supervisor   *)
(* makes on the worker: update, and the stop of process_workers            *)
(* (src/src/main.rs), which is a store and a notification.                 *)
(*                                                                         *)
(* What a connection task does with its client (TLS, directive_process) is *)
(* one step here, Finish: however it ends, the permit it owns is dropped.  *)
(***************************************************************************)
EXTENDS Naturals, FiniteSets

CONSTANTS
  Clients,      \* the peers; each has at most one connection at a time
  NoClient,     \* nobody
  Max,          \* --max-connections
  LastVersion   \* a bound: settings are replaced at most this often

ASSUME AcceptorAssumption ==
  /\ IsFiniteSet(Clients)
  /\ NoClient \notin Clients
  /\ Max \in Nat
  /\ LastVersion \in Nat

Versions == 0 .. LastVersion

VARIABLES
  pc,          \* where init_server is
  is_running,  \* the AtomicBool of the worker
  notified,    \* notify_stop holds a permit that nobody consumed
  stopping,    \* the supervisor is between the store and notify_one
  settings,    \* the version in the SettingsLock
  permits,     \* the permits left in the semaphore
  accepted,    \* the client whose connection waits for a permit
  conn,        \* what each client's connection is doing
  using,       \* the settings version a connection task has read
  granted,     \* history: the version when the task got its permit
  late         \* history: the clients accepted after the stop

worker_vars == <<is_running, notified, stopping, settings>>
conn_vars   == <<permits, conn, using, granted>>
vars == <<pc, worker_vars, accepted, conn_vars, late>>

\* enter: the flag was true, select! has not polled notified() yet;
\* deaf: inside select!, with the accept branch disabled by an Err.
PCs   == {"bind", "check", "enter", "select", "deaf", "permit", "failed", "closed"}
Conns == {"away", "queued", "accepted", "spawned", "serving"}

TypeOK ==
  /\ pc \in PCs
  /\ is_running \in BOOLEAN /\ notified \in BOOLEAN /\ stopping \in BOOLEAN
  /\ settings \in Versions
  /\ permits \in 0 .. Max
  /\ accepted \in Clients \cup {NoClient}
  /\ conn \in [Clients -> Conns]
  /\ using \in [Clients -> Versions]
  /\ granted \in [Clients -> Versions]
  /\ late \in SUBSET Clients

\* ServerWorker::new and run: the task of init_server is spawned.
Init ==
  /\ pc = "bind"
  /\ is_running = TRUE
  /\ notified = FALSE
  /\ stopping = FALSE
  /\ settings = 0
  /\ permits = Max
  /\ accepted = NoClient
  /\ conn = [c \in Clients |-> "away"]
  /\ using = [c \in Clients |-> 0]
  /\ granted = [c \in Clients |-> 0]
  /\ late = {}

Listening == pc \in {"check", "enter", "select", "deaf", "permit"}

-----------------------------------------------------------------------------
(***************************************************************************)
(* init_server                                                             *)
(***************************************************************************)

Bind ==
  /\ pc = "bind"
  /\ pc' = "check"
  /\ UNCHANGED <<worker_vars, accepted, conn_vars, late>>

\* The error is logged by the task that run spawned; the worker never knows.
BindFails ==
  /\ pc = "bind"
  /\ pc' = "failed"
  /\ UNCHANGED <<worker_vars, accepted, conn_vars, late>>

\* The loop is left and the listener dropped: what waits in its queue is reset.
Close ==
  /\ pc' = "closed"
  /\ conn' = [c \in Clients |-> IF conn[c] = "queued" THEN "away" ELSE conn[c]]
  /\ UNCHANGED <<settings, is_running, stopping, accepted, permits, using, granted, late>>

CheckNothing == TRUE   \* a variant the runs must reject

CheckFlag == is_running

CheckRunning ==
  /\ pc = "check" /\ CheckFlag
  /\ pc' = "enter"
  /\ UNCHANGED <<worker_vars, accepted, conn_vars, late>>

EnterSelect ==
  /\ pc = "enter"
  /\ pc' = "select"
  /\ UNCHANGED <<worker_vars, accepted, conn_vars, late>>

CheckStopped ==
  /\ pc = "check" /\ ~is_running
  /\ Close
  /\ UNCHANGED notified

Notified ==
  /\ pc \in {"select", "deaf"}
  /\ notified
  /\ notified' = FALSE
  /\ Close

Accept(c) ==
  /\ pc = "select"
  /\ conn[c] = "queued"
  /\ conn' = [conn EXCEPT ![c] = "accepted"]
  /\ accepted' = c
  /\ late' = IF is_running THEN late ELSE late \cup {c}
  /\ pc' = "permit"
  /\ UNCHANGED <<worker_vars, permits, using, granted>>

ErrorEndsLoop == pc' = "closed"   \* a variant the runs must reject

ErrorDeafens == pc' = "deaf"

\* The connection is gone (ECONNABORTED) or still queued (EMFILE).  The pattern
\* Ok(..) of the branch does not match, and select! disables the branch.
AcceptError(c) ==
  /\ pc = "select"
  /\ conn[c] = "queued"
  /\ \/ conn' = [conn EXCEPT ![c] = "away"]
     \/ UNCHANGED conn
  /\ ErrorDeafens
  /\ UNCHANGED <<worker_vars, accepted, permits, using, granted, late>>

PermitIgnored == TRUE   \* a variant the runs must reject

PermitFree == permits > 0

\* acquire_owned, then spawn.  No stop is noticed while this waits.
Spawn ==
  /\ pc = "permit"
  /\ PermitFree
  /\ permits' = permits - 1
  /\ conn' = [conn EXCEPT ![accepted] = "spawned"]
  /\ granted' = [granted EXCEPT ![accepted] = settings]
  /\ accepted' = NoClient
  /\ pc' = "check"
  /\ UNCHANGED <<worker_vars, using, late>>

-----------------------------------------------------------------------------
(***************************************************************************)
(* The connection tasks, the peers, and the supervisor                     *)
(***************************************************************************)

FirstSettings == 0   \* a variant the runs must reject

\* settings.get()
CurrentSettings == settings

ReadSettings(c) ==
  /\ conn[c] = "spawned"
  /\ conn' = [conn EXCEPT ![c] = "serving"]
  /\ using' = [using EXCEPT ![c] = CurrentSettings]
  /\ UNCHANGED <<pc, worker_vars, accepted, permits, granted, late>>

PermitKept == permits' = permits   \* a variant the runs must reject

PermitDropped == permits' = permits + 1

Finish(c) ==
  /\ conn[c] = "serving"
  /\ conn' = [conn EXCEPT ![c] = "away"]
  /\ PermitDropped
  /\ UNCHANGED <<pc, worker_vars, accepted, using, granted, late>>

\* The kernel completes the connection; init_server has not seen it yet.
ClientConnects(c) ==
  /\ Listening
  /\ conn[c] = "away"
  /\ conn' = [conn EXCEPT ![c] = "queued"]
  /\ UNCHANGED <<pc, worker_vars, accepted, permits, using, granted, late>>

\* ServerWorker::update, its last step: the new settings replace the old ones.
Update ==
  /\ is_running
  /\ settings < LastVersion
  /\ settings' = settings + 1
  /\ UNCHANGED <<pc, is_running, notified, stopping, accepted, conn_vars, late>>

\* process_workers drops the worker: is_running.store(false), ...
Stop ==
  /\ is_running
  /\ is_running' = FALSE
  /\ stopping' = TRUE
  /\ UNCHANGED <<pc, notified, settings, accepted, conn_vars, late>>

NotificationLost ==   \* a variant the runs must reject: nobody waits, nobody hears
  notified' = (pc \in {"select", "deaf"})

NotificationStored == notified' = TRUE

\* ... then notify_one, which leaves a permit if nobody waits.
Notify ==
  /\ stopping
  /\ stopping' = FALSE
  /\ NotificationStored
  /\ UNCHANGED <<pc, is_running, settings, accepted, conn_vars, late>>

Serve == Bind \/ BindFails \/ CheckRunning \/ EnterSelect
           \/ CheckStopped \/ Notified
           \/ (\E c \in Clients : Accept(c) \/ AcceptError(c)) \/ Spawn

Task(c) == ReadSettings(c) \/ Finish(c)

Next ==
  \/ Serve
  \/ \E c \in Clients : Task(c) \/ ClientConnects(c)
  \/ Update
  \/ Stop
  \/ Notify

Spec == Init /\ [][Next]_vars

-----------------------------------------------------------------------------
(***************************************************************************)
(* Properties                                                              *)
(***************************************************************************)

\* The connection tasks that own a permit.
Holding == {c \in Clients : conn[c] \in {"spawned", "serving"}}

(***************************************************************************)
(* Every permit is either in the semaphore or owned by one connection      *)
(* task, through stops and updates too: at most Max connections are served *)
(* at a time, and none of the permits leaks.                               *)
(***************************************************************************)
PermitsConserved == permits + Cardinality(Holding) = Max

(***************************************************************************)
(* A stopped worker takes at most one more connection: the one it is       *)
(* accepting, or that already waits for a permit, when the flag changes.   *)
(***************************************************************************)
AtMostOneLate == \A c, d \in late : c = d

(***************************************************************************)
(* A connection task works with settings at least as new as those in force *)
(* when it got its permit, however long its connection waited: a reload    *)
(* that is over governs every task spawned after it.                       *)
(***************************************************************************)
SettingsAreFresh ==
  \A c \in Clients : conn[c] = "serving" => using[c] >= granted[c]

(***************************************************************************)
(* The strengthening: who waits for a permit is known to init_server, and  *)
(* a stopped worker that is in select! has not taken a late connection.    *)
(***************************************************************************)
AcceptedIsWaiting ==
  /\ pc = "permit" <=> accepted # NoClient
  /\ \A c \in Clients : conn[c] = "accepted" <=> accepted = c

LateIsLast ==
  /\ is_running => late = {}
  /\ pc \in {"enter", "select", "deaf"} => late = {}

StopIsTold == notified \/ stopping => ~is_running

GrantsArePast == \A c \in Clients : granted[c] <= settings

AcceptorInv ==
  /\ TypeOK
  /\ AcceptedIsWaiting
  /\ PermitsConserved
  /\ LateIsLast
  /\ AtMostOneLate
  /\ StopIsTold
  /\ GrantsArePast
  /\ SettingsAreFresh

(***************************************************************************)
(* The runtime schedules tasks that can run; a connection is over some     *)
(* time (the peers' doing: the code has no timeout of its own); and the    *)
(* kernel hands out queued connections in their order.                     *)
(***************************************************************************)
Fairness ==
  /\ WF_vars(Serve)
  /\ WF_vars(Notify)
  /\ \A c \in Clients : WF_vars(Task(c)) /\ SF_vars(Accept(c))

FairSpec == Spec /\ Fairness

(***************************************************************************)
(* A queued connection is served, or reset by the end of the worker, unless *)
(* accept() has failed: after that init_server listens to nothing but its  *)
(* stop, and clients queue for ever.                                       *)
(***************************************************************************)
QueuedAreServed ==
  \A c \in Clients :
    conn[c] = "queued" ~> conn[c] \in {"serving", "away"} \/ pc = "deaf"

(***************************************************************************)
(* What the supervisor relies on.  SafeWorker: the port is given up only   *)
(* on a stop, not for an error or a busy semaphore (server.rs:222-226).    *)
(* IsWorker: it is also really given up, although a stop may come at any   *)
(* point of the loop, before bind and while accept waits for a permit too. *)
(***************************************************************************)
Phase == CASE pc = "bind" -> "starting"
           [] Listening -> "listening"
           [] OTHER -> "gone"

W == INSTANCE Worker WITH phase <- Phase, told <- ~is_running

SafeWorker == W!Safe
IsWorker == W!Spec
=============================================================================
