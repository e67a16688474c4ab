------------------------------- MODULE Reload -------------------------------
(***************************************************************************)
(* How a running cblt takes over a new configuration (src/src/main.rs):    *)
(* `cblt --reload` processes that create the file "reload", the loader     *)
(* task that polls for it and reads the Cbltfile, the watch channel, and   *)
(* the supervisor task that applies what it receives to the ServerWorkers  *)
(* of the ports.  A worker does what Worker says: it opens its port or     *)
(* fails, and gives it back some time after it has been told to stop.      *)
(*                                                                         *)
(* The process may die at any moment and be started again: the Cbltfile    *)
(* and the file "reload" are all that survives.                            *)
(*                                                                         *)
(* A configuration is what this protocol tells apart of it: whether it can *)
(* be loaded, and for each port whether it is served and with a usable     *)
(* certificate.  Its contents are numbered by the edits of the Cbltfile.   *)
(***************************************************************************)
EXTENDS Naturals

CONSTANTS
  Ports,        \* the ports a configuration may mention
  Operators,    \* the `cblt --reload` processes that can run at a time
  LastVersion,  \* a bound: the Cbltfile is edited at most this often
  LastStart,    \* a bound: the server is started again at most this often
  NoWorker,     \* the supervisor has no worker for a port
  Contents,     \* the configurations the operator may write
  Modes,        \* the --mode the server may run in
  BindErrors    \* the ports bind may refuse although no worker has them

Versions == 0 .. LastVersion

\* build_config returns a configuration, an error, or panics (config.rs:127).
Content == [load : {"ok", "error", "panic"},
            port : [Ports -> {"absent", "good", "bad_cert"}]]

ASSUME ReloadAssumption ==
  /\ LastVersion \in Nat
  /\ LastStart \in Nat
  /\ NoWorker \notin Versions
  /\ Contents \subseteq Content
  /\ Modes \subseteq {"config", "docker"}
  /\ BindErrors \subseteq Ports

VARIABLES
  mode,         \* "docker" reads the services' labels, again and again, unasked
  contents,     \* what each version of the Cbltfile, or of the labels, says
  version,      \* the version on disk
  reload_file,  \* the file "reload" exists
  operator,     \* what each --reload process is doing
  wish,         \* the version on disk when the process started
  asked,        \* history: the newest version somebody successfully asked for
  up,           \* the server process is running
  starts,       \* how often it was started again
  loader,       \* where the loader task is
  loaded,       \* the version it has read
  channel,      \* the version in the watch channel ...
  unseen,       \* ... which the receiver has not seen yet
  supervisor,   \* where the supervisor task is
  target,       \* the version process_workers is applying
  todo,         \* the ports its second loop has still to visit
  applied,      \* history: the version process_workers applied last
  worker,       \* the map: the version a port's worker was created for
  settings,     \* the version of the settings of that worker
  phase,        \* what the worker created for a port and a version is doing
  told          \* the workers that have been told to stop

disk_vars   == <<mode, contents, version>>
ask_vars    == <<reload_file, operator, wish, asked>>
loader_vars == <<loader, loaded>>
chan_vars   == <<channel, unseen>>
sup_vars    == <<supervisor, target, todo, applied, worker, settings>>
port_vars   == <<phase, told>>
life_vars   == <<up, starts>>
vars == <<disk_vars, ask_vars, life_vars, loader_vars, chan_vars, sup_vars, port_vars>>

Workers == Ports \X Versions

TypeOK ==
  /\ mode \in Modes
  /\ contents \in [Versions -> Contents]
  /\ version \in Versions
  /\ reload_file \in BOOLEAN
  /\ operator \in [Operators -> {"idle", "checked"}]
  /\ wish \in [Operators -> Versions]
  /\ asked \in Versions
  /\ up \in BOOLEAN
  /\ starts \in 0 .. LastStart
  /\ loader \in {"poll", "send", "remove", "dead"}
  /\ loaded \in Versions
  /\ channel \in Versions
  /\ unseen \in BOOLEAN
  /\ supervisor \in {"wait", "take", "stop", "apply", "ended"}
  /\ target \in Versions
  /\ todo \in SUBSET Ports
  /\ applied \in Versions
  /\ worker \in [Ports -> Versions \cup {NoWorker}]
  /\ settings \in [Ports -> Versions]
  /\ phase \in [Workers -> {"none", "starting", "listening", "gone"}]
  /\ told \in SUBSET Workers

Loads(v) == contents[v].load = "ok"

Served(v) == {p \in Ports : contents[v].port[p] # "absent"}

\* server(): the channel holds what was loaded at start, and the supervisor
\* takes it before it waits.  A Cbltfile that does not load is no start.
Init ==
  /\ mode \in Modes
  /\ contents \in [Versions -> Contents]
  /\ mode = "docker" => \A v \in Versions : contents[v].load # "panic"
  /\ Loads(0)
  /\ version = 0
  /\ reload_file = FALSE
  /\ operator = [o \in Operators |-> "idle"]
  /\ wish = [o \in Operators |-> 0]
  /\ asked = 0
  /\ up = TRUE
  /\ starts = 0
  /\ loader = "poll"
  /\ loaded = 0
  /\ channel = 0
  /\ unseen = FALSE
  /\ supervisor = "take"
  /\ target = 0
  /\ todo = {}
  /\ applied = 0
  /\ worker = [p \in Ports |-> NoWorker]
  /\ settings = [p \in Ports |-> 0]
  /\ phase = [w \in Workers |-> "none"]
  /\ told = {}

-----------------------------------------------------------------------------
(***************************************************************************)
(* The operator                                                            *)
(***************************************************************************)

Edit ==
  /\ version < LastVersion
  /\ version' = version + 1
  /\ UNCHANGED <<mode, contents, ask_vars, life_vars, loader_vars, chan_vars, sup_vars, port_vars>>

NothingToCheck == TRUE   \* a variant the runs must reject

\* "File 'reload' already exists": the process bails and nobody was promised
\* anything.
NotPending == ~reload_file

CheckReload(o) ==
  /\ operator[o] = "idle"
  /\ NotPending
  /\ operator' = [operator EXCEPT ![o] = "checked"]
  /\ wish' = [wish EXCEPT ![o] = version]
  /\ UNCHANGED <<disk_vars, reload_file, asked, life_vars,
                 loader_vars, chan_vars, sup_vars, port_vars>>

\* File::create, which also succeeds when another process was faster.
CreateReload(o) ==
  /\ operator[o] = "checked"
  /\ operator' = [operator EXCEPT ![o] = "idle"]
  /\ wish' = [wish EXCEPT ![o] = 0]
  /\ reload_file' = TRUE
  /\ asked' = IF wish[o] > asked THEN wish[o] ELSE asked
  /\ UNCHANGED <<disk_vars, life_vars, loader_vars, chan_vars, sup_vars, port_vars>>

-----------------------------------------------------------------------------
(***************************************************************************)
(* The loader task                                                         *)
(***************************************************************************)

Polls == up /\ loader = "poll" /\ (mode = "docker" \/ reload_file)

AskedVersion == asked   \* a variant the runs must reject

\* The Cbltfile is read when it is loaded, not when somebody asked for it.
FreshVersion == version

\* An error is logged and the file left alone: the next poll tries again.
Load ==
  /\ Polls
  /\ Loads(FreshVersion)
  /\ loader' = "send"
  /\ loaded' = FreshVersion
  /\ UNCHANGED <<disk_vars, ask_vars, life_vars, chan_vars, sup_vars, port_vars>>

LoadPanics ==
  /\ Polls
  /\ contents[version].load = "panic"
  /\ loader' = "dead"
  /\ UNCHANGED <<disk_vars, ask_vars, life_vars, loaded, chan_vars, sup_vars, port_vars>>

\* tx.send: whatever was there and not yet taken is overwritten.
Send ==
  /\ up /\ loader = "send"
  /\ channel' = loaded
  /\ unseen' = TRUE
  /\ loader' = IF mode = "docker" THEN "poll" ELSE "remove"
  /\ UNCHANGED <<disk_vars, ask_vars, life_vars, loaded, sup_vars, port_vars>>

\* An error of remove_file is only logged: the next poll finds the file again.
RemoveReload ==
  /\ up /\ loader = "remove"
  /\ reload_file' \in {FALSE, reload_file}
  /\ loader' = "poll"
  /\ UNCHANGED <<disk_vars, operator, wish, asked, life_vars,
                 loaded, chan_vars, sup_vars, port_vars>>

-----------------------------------------------------------------------------
(***************************************************************************)
(* The supervisor task                                                     *)
(***************************************************************************)

\* rx.changed() resolves.
Wake ==
  /\ up /\ supervisor = "wait" /\ unseen
  /\ unseen' = FALSE
  /\ supervisor' = "take"
  /\ UNCHANGED <<disk_vars, ask_vars, life_vars, loader_vars, channel,
                 target, todo, applied, worker, settings, port_vars>>

\* The sender is gone and nothing is left to see: the loop ends, and with it
\* every further reload.  The workers go on.
End ==
  /\ up /\ supervisor = "wait" /\ ~unseen /\ loader = "dead"
  /\ supervisor' = "ended"
  /\ UNCHANGED <<disk_vars, ask_vars, life_vars, loader_vars, chan_vars,
                 target, todo, applied, worker, settings, port_vars>>

\* borrow_and_update.
Take ==
  /\ up /\ supervisor = "take"
  /\ target' = channel
  /\ unseen' = FALSE
  /\ supervisor' = "stop"
  /\ UNCHANGED <<disk_vars, ask_vars, life_vars, loader_vars, channel,
                 todo, applied, worker, settings, port_vars>>

NoneDropped == {}   \* a variant the runs must reject

\* The ports that have a worker and are not in the new configuration.
Dropped == {p \in Ports : worker[p] # NoWorker /\ p \notin Served(target)}

NobodyTold == told   \* a variant the runs must reject

NewlyTold == told \cup {<<p, worker[p]>> : p \in Dropped}

\* The first loop of process_workers, which awaits nothing.
StopWorkers ==
  /\ up /\ supervisor = "stop"
  /\ told' = NewlyTold
  /\ worker' = [p \in Ports |-> IF p \in Dropped THEN NoWorker ELSE worker[p]]
  /\ todo' = Served(target)
  /\ supervisor' = "apply"
  /\ UNCHANGED <<disk_vars, ask_vars, life_vars, loader_vars, chan_vars,
                 target, applied, settings, phase>>

Visits(p) == up /\ supervisor = "apply" /\ p \in todo

GoodCert(p) == contents[target].port[p] = "good"

Update(p) ==
  /\ Visits(p) /\ worker[p] # NoWorker /\ GoodCert(p)
  /\ settings' = [settings EXCEPT ![p] = target]
  /\ todo' = todo \ {p}
  /\ UNCHANGED <<disk_vars, ask_vars, life_vars, loader_vars, chan_vars,
                 supervisor, target, applied, worker, port_vars>>

\* ServerWorker::new and run; the bind is another task's.
Create(p) ==
  /\ Visits(p) /\ worker[p] = NoWorker /\ GoodCert(p)
  /\ worker' = [worker EXCEPT ![p] = target]
  /\ settings' = [settings EXCEPT ![p] = target]
  /\ phase' = [phase EXCEPT ![<<p, target>>] = "starting"]
  /\ todo' = todo \ {p}
  /\ UNCHANGED <<disk_vars, ask_vars, life_vars, loader_vars, chan_vars,
                 supervisor, target, applied, told>>

\* "Error creating server worker"
CreateFails(p) ==
  /\ Visits(p) /\ worker[p] = NoWorker /\ ~GoodCert(p)
  /\ todo' = todo \ {p}
  /\ UNCHANGED <<disk_vars, ask_vars, life_vars, loader_vars, chan_vars,
                 supervisor, target, applied, worker, settings, port_vars>>

Done ==
  /\ up /\ supervisor = "apply" /\ todo = {}
  /\ supervisor' = "wait"
  /\ applied' = target
  /\ UNCHANGED <<disk_vars, ask_vars, life_vars, loader_vars, chan_vars,
                 target, todo, worker, settings, port_vars>>

-----------------------------------------------------------------------------
(***************************************************************************)
(* The process                                                             *)
(***************************************************************************)

\* All that is in memory is gone, and the kernel takes the ports back.
Die ==
  /\ up' = FALSE
  /\ loader' = "poll" /\ loaded' = 0
  /\ channel' = 0 /\ unseen' = FALSE
  /\ supervisor' = "take" /\ target' = 0 /\ todo' = {} /\ applied' = 0
  /\ worker' = [p \in Ports |-> NoWorker]
  /\ settings' = [p \in Ports |-> 0]
  /\ phase' = [w \in Workers |-> "none"]
  /\ told' = {}
  /\ UNCHANGED <<disk_vars, ask_vars, starts>>

\* worker.update returns an Err, process_workers hands it on by ?, and the
\* supervisor calls std::process::exit(0).
UpdateExits(p) ==
  /\ Visits(p) /\ worker[p] # NoWorker /\ ~GoodCert(p)
  /\ Die

Crash ==
  /\ up /\ starts < LastStart
  /\ Die

Start ==
  /\ ~up /\ starts < LastStart
  /\ Loads(version)
  /\ up' = TRUE
  /\ starts' = starts + 1
  /\ channel' = version
  /\ UNCHANGED <<disk_vars, ask_vars, loader_vars, unseen, sup_vars, port_vars>>

-----------------------------------------------------------------------------
(***************************************************************************)
(* The workers: see Worker.  bind fails while another worker's listener    *)
(* still has the port, and it may fail for reasons of its own: no right to *)
(* the port, another process that has it, no file descriptor left.         *)
(***************************************************************************)

Free(p) == \A v \in Versions : phase[<<p, v>>] # "listening"

WorkerOpens(p, v) ==
  /\ phase[<<p, v>>] = "starting" /\ Free(p)
  /\ phase' = [phase EXCEPT ![<<p, v>>] = "listening"]
  /\ UNCHANGED <<disk_vars, ask_vars, life_vars, loader_vars, chan_vars, sup_vars, told>>

WorkerFails(p, v) ==
  /\ phase[<<p, v>>] = "starting" /\ (p \in BindErrors \/ ~Free(p))
  /\ phase' = [phase EXCEPT ![<<p, v>>] = "gone"]
  /\ UNCHANGED <<disk_vars, ask_vars, life_vars, loader_vars, chan_vars, sup_vars, told>>

WorkerShuts(p, v) ==
  /\ phase[<<p, v>>] = "listening" /\ <<p, v>> \in told
  /\ phase' = [phase EXCEPT ![<<p, v>>] = "gone"]
  /\ UNCHANGED <<disk_vars, ask_vars, life_vars, loader_vars, chan_vars, sup_vars, told>>

Ask(o)     == CheckReload(o) \/ CreateReload(o)
Reload     == Load \/ LoadPanics \/ Send \/ RemoveReload
Visit(p)   == Update(p) \/ Create(p) \/ CreateFails(p) \/ UpdateExits(p)
Supervise  == Wake \/ End \/ Take \/ StopWorkers \/ Done \/ \E p \in Ports : Visit(p)
Serve(p, v) == WorkerOpens(p, v) \/ WorkerFails(p, v) \/ WorkerShuts(p, v)

Next ==
  \/ Edit
  \/ \E o \in Operators : Ask(o)
  \/ Reload
  \/ Supervise
  \/ \E p \in Ports, v \in Versions : Serve(p, v)
  \/ Crash
  \/ Start

Spec == Init /\ [][Next]_vars

-----------------------------------------------------------------------------
(***************************************************************************)
(* Properties                                                              *)
(***************************************************************************)

(***************************************************************************)
(* Between two configurations the map of the supervisor is exactly the     *)
(* last one it took: a worker for every port with a usable certificate,    *)
(* with that version's settings, and none for any other port; whatever     *)
(* failed on the way, and however many versions the channel dropped.       *)
(***************************************************************************)
MapIsConfigured ==
  (up /\ supervisor = "wait") =>
    \A p \in Ports :
      /\ worker[p] # NoWorker <=> contents[applied].port[p] = "good"
      /\ worker[p] # NoWorker => settings[p] = applied

(***************************************************************************)
(* A worker that is not told to stop is the one in the map: none is lost   *)
(* with its port still open, so that every port can be taken away again.   *)
(***************************************************************************)
NoStrayWorker ==
  \A p \in Ports, v \in Versions :
    phase[<<p, v>>] \in {"starting", "listening"} =>
      worker[p] = v \/ <<p, v>> \in told

(***************************************************************************)
(* The strengthening: what the second loop has done and has still to do.   *)
(***************************************************************************)
HalfApplied ==
  supervisor = "apply" =>
    /\ todo \subseteq Served(target)
    /\ \A p \in Ports \ todo :
         /\ worker[p] # NoWorker <=> contents[target].port[p] = "good"
         /\ worker[p] # NoWorker => settings[p] = target

\* A server that is down has no supervisor that waits.
DownIsIdle == ~up => supervisor = "take"

(***************************************************************************)
(* What is on its way to the supervisor is never older than what was there *)
(* before, and always loads.                                               *)
(***************************************************************************)
NewerFollows ==
  /\ applied <= target /\ target <= channel /\ channel <= version
  /\ loader = "send" => up /\ channel <= loaded /\ loaded <= version

OnlyLoadable ==
  /\ Loads(0) /\ Loads(target) /\ Loads(channel)
  /\ loader = "send" => Loads(loaded)

\* Who was told was there, and who is there was made for its
\* version, and for the version that is applied is still in the map.
MadeOnce ==
  \A p \in Ports, v \in Versions :
    /\ worker[p] = v \/ <<p, v>> \in told => phase[<<p, v>>] # "none"
    /\ phase[<<p, v>>] # "none" =>
         /\ v <= target /\ contents[v].port[p] = "good"
         /\ v = target => worker[p] = v

(***************************************************************************)
(* No reload that was promised is swallowed: what was asked for, or        *)
(* something newer, is applied, or is being applied, or is in the channel  *)
(* and the supervisor will look, or else the file is there, although       *)
(* remove_file takes it away behind a load that began before some          *)
(* File::create, and exists and create are two steps (main.rs:74, 146).    *)
(* borrow_and_update (main.rs:107) forgets a send that came after          *)
(* changed(), and takes its version.                                       *)
(***************************************************************************)
UnderWay ==
  \/ supervisor \in {"stop", "apply"} /\ asked <= target
  \/ (supervisor = "take" \/ unseen) /\ asked <= channel

RequestIsKept ==
  (mode = "config" /\ up /\ asked > applied) => reload_file \/ UnderWay

\* Why: while the loader has the file, nobody finds none, so that whoever still
\* creates it looked before the load began.
LoadIsNewer ==
  /\ asked <= version /\ \A o \in Operators : wish[o] <= version
  /\ mode = "config" =>
       /\ up /\ asked > channel => reload_file
       /\ loader \in {"send", "remove"} => reload_file
       /\ loader = "send" => asked <= loaded /\ \A o \in Operators : wish[o] <= loaded
       /\ loader = "remove" => asked <= channel /\ \A o \in Operators : wish[o] <= channel

\* And: a supervisor that has nothing to see has, or is applying, what the channel holds.
NothingMissed ==
  (up /\ ~unseen) =>
    /\ supervisor \in {"stop", "apply"} => target = channel
    /\ supervisor \in {"wait", "ended"} => applied = channel

\* The supervisor's map and the workers, without the order of the versions.
MapInv == TypeOK /\ DownIsIdle /\ HalfApplied /\ MapIsConfigured /\ NoStrayWorker

\* Together they are inductive: the map and what is still to do of the version
\* in hand, the order of the versions on their way, which workers were made, and
\* which reloads were asked for.
ReloadInv ==
  MapInv /\ NewerFollows /\ OnlyLoadable /\ MadeOnce /\ LoadIsNewer /\ NothingMissed

(***************************************************************************)
(* The protocol implements Reconfiguration: although the loader reads the  *)
(* Cbltfile, sends and removes the request in separate steps, while the    *)
(* supervisor may be busy with an older version and both may die, what is  *)
(* applied never goes back to an older version, is never one that does not *)
(* load, and after a restart is at least what was on disk at the start.    *)
(***************************************************************************)
Pending == IF supervisor \in {"stop", "apply"} THEN target ELSE channel

R == INSTANCE Reconfiguration WITH
       valid <- {v \in Versions : Loads(v)}, written <- version,
       pending <- Pending, serving <- applied

IsReconfiguration == R!Spec

(***************************************************************************)
(* The workers are Workers: while the process lives, whatever the          *)
(* supervisor, the loader and the operators do is, for each worker, its    *)
(* creation, a step of Worker or nothing.  So nothing makes a worker a     *)
(* second time, takes back a stop, or closes a listener that was not told  *)
(* to, however often a version is read and applied (process_workers).      *)
(***************************************************************************)
W(w) == INSTANCE Worker WITH phase <- phase[w], told <- w \in told

Born(w) == phase[w] = "none" /\ W(w)!Init'

WorkersAreWorkers ==
  [][~up' \/ \A w \in Workers : Born(w) \/ W(w)!Next \/ UNCHANGED <<phase[w], w \in told>>]_vars

(***************************************************************************)
(* The tasks run; nobody has to edit, to ask, to crash or to start.        *)
(***************************************************************************)
Fairness ==
  /\ WF_vars(Reload)
  /\ WF_vars(Supervise)
  /\ \A p \in Ports, v \in Versions : WF_vars(Serve(p, v))

FairSpec == Spec /\ Fairness

\* What somebody wants to see applied: in docker mode whatever there is.
Wanted == IF mode = "docker" THEN version ELSE asked

(***************************************************************************)
(* A `cblt --reload` that did not complain takes effect: the version that  *)
(* was on disk when it started, or a newer one, is applied, unless the     *)
(* server is down, the Cbltfile on disk does not load, or one that panics  *)
(* has ended the loader for good (config.rs:127).  In docker mode every    *)
(* change of the labels takes effect.  Two processes that both find no     *)
(* file, edits in the middle of a load, versions the channel overwrites,   *)
(* and a crash between send and remove_file change nothing about it.       *)
(***************************************************************************)
ReloadTakesEffect ==
  \A v \in 1 .. LastVersion :
    Wanted >= v ~> applied >= v \/ ~up \/ ~Loads(version) \/ loader = "dead"

(***************************************************************************)
(* README.md:22 "Reload configuration without restarting": with no crash   *)
(* (LastStart = 0), no configuration takes the server down.                *)
(***************************************************************************)
ReloadKeepsServing == LastStart = 0 => up

(***************************************************************************)
(* The same line: while it is up, the server opens every port it has a     *)
(* worker for.                                                             *)
(***************************************************************************)
WorkersOpen ==
  \A p \in Ports, v \in Versions :
    worker[p] = v ~> phase[<<p, v>>] = "listening" \/ worker[p] # v
=============================================================================
