---------------------------- MODULE ReloadProofs ----------------------------
(***************************************************************************)
(* Proofs about Reload, for any ports, operators, configurations and any   *)
(* number of edits and starts.                                             *)
(***************************************************************************)
EXTENDS Reload, TLAPS

-----------------------------------------------------------------------------
(***************************************************************************)
(* Types                                                                   *)
(***************************************************************************)

LEMMA ReloadTypeInit == Init => TypeOK
<1> SUFFICES ASSUME Init PROVE TypeOK
  OBVIOUS
<1>1. 0 \in Versions /\ 0 \in 0 .. LastStart
  BY ReloadAssumption DEF Versions
<1> QED
  BY <1>1 DEF Init, TypeOK

LEMMA ReloadTypeStep == TypeOK /\ [Next]_vars => TypeOK'
<1> SUFFICES ASSUME TypeOK, [Next]_vars
             PROVE  TypeOK'
  OBVIOUS
<1> USE DEF TypeOK, disk_vars, ask_vars, loader_vars, chan_vars, sup_vars, port_vars, life_vars
<1>0. 0 \in Versions /\ LastVersion \in Nat /\ LastStart \in Nat
  BY ReloadAssumption DEF Versions
<1>1. ASSUME Edit PROVE TypeOK'
  BY <1>0, <1>1 DEF Edit, Versions
<1>2. ASSUME NEW o \in Operators, CheckReload(o) PROVE TypeOK'
  BY <1>0, <1>2 DEF CheckReload, NotPending
<1>3. ASSUME NEW o \in Operators, CreateReload(o) PROVE TypeOK'
  BY <1>0, <1>3 DEF CreateReload
<1>4. ASSUME Load PROVE TypeOK'
  BY <1>0, <1>4 DEF Load, Polls, FreshVersion
<1>5. ASSUME LoadPanics PROVE TypeOK'
  BY <1>0, <1>5 DEF LoadPanics, Polls
<1>6. ASSUME Send PROVE TypeOK'
  BY <1>0, <1>6 DEF Send
<1>7. ASSUME RemoveReload PROVE TypeOK'
  BY <1>0, <1>7 DEF RemoveReload
<1>8. ASSUME Wake PROVE TypeOK'
  BY <1>0, <1>8 DEF Wake
<1>9. ASSUME End PROVE TypeOK'
  BY <1>0, <1>9 DEF End
<1>10. ASSUME Take PROVE TypeOK'
  BY <1>0, <1>10 DEF Take
<1>11. ASSUME StopWorkers PROVE TypeOK'
  BY <1>0, <1>11 DEF StopWorkers, NewlyTold, Dropped, Served, Workers
<1>12. ASSUME NEW p \in Ports, Update(p) PROVE TypeOK'
  BY <1>0, <1>12 DEF Update, Visits
<1>13. ASSUME NEW p \in Ports, Create(p) PROVE TypeOK'
  BY <1>0, <1>13 DEF Create, Workers, Visits
<1>14. ASSUME NEW p \in Ports, CreateFails(p) PROVE TypeOK'
  BY <1>0, <1>14 DEF CreateFails, Visits
<1>15. ASSUME NEW p \in Ports, UpdateExits(p) PROVE TypeOK'
  BY <1>0, <1>15 DEF UpdateExits, Die
<1>16. ASSUME Done PROVE TypeOK'
  BY <1>0, <1>16 DEF Done
<1>17. ASSUME Crash PROVE TypeOK'
  BY <1>0, <1>17 DEF Crash, Die
<1>18. ASSUME Start PROVE TypeOK'
  BY <1>0, <1>18 DEF Start
<1>19. ASSUME NEW p \in Ports, NEW v \in Versions, WorkerOpens(p, v) PROVE TypeOK'
  BY <1>0, <1>19 DEF WorkerOpens, Workers
<1>20. ASSUME NEW p \in Ports, NEW v \in Versions, WorkerFails(p, v) PROVE TypeOK'
  BY <1>0, <1>20 DEF WorkerFails, Workers
<1>21. ASSUME NEW p \in Ports, NEW v \in Versions, WorkerShuts(p, v) PROVE TypeOK'
  BY <1>0, <1>21 DEF WorkerShuts, Workers
<1>22. ASSUME UNCHANGED vars PROVE TypeOK'
  BY <1>22 DEF vars
<1> QED
  BY <1>1, <1>2, <1>3, <1>4, <1>5, <1>6, <1>7, <1>8, <1>9, <1>10, <1>11, <1>12, <1>13, <1>14, <1>15, <1>16, <1>17, <1>18, <1>19, <1>20, <1>21, <1>22
     DEF Next, Ask, Reload, Supervise, Visit, Serve

\* Every reachable state is well typed.
THEOREM ReloadTypeCorrect == Spec => []TypeOK
BY ReloadTypeInit, ReloadTypeStep, PTL DEF Spec

-----------------------------------------------------------------------------
(***************************************************************************)
(* The supervisor's map                                                    *)
(***************************************************************************)

LEMMA MapInvInit == Init => MapInv
<1> SUFFICES ASSUME Init PROVE MapInv
  OBVIOUS
<1>1. TypeOK
  BY ReloadTypeInit
<1>2. HalfApplied /\ MapIsConfigured /\ DownIsIdle
  BY DEF Init, HalfApplied, MapIsConfigured, DownIsIdle
<1>3. NoStrayWorker
  BY DEF Init, NoStrayWorker, Workers
<1> QED
  BY <1>1, <1>2, <1>3 DEF MapInv

\* A step that leaves the map, the workers and the supervisor alone.
LEMMA ReloadQuietStep ==
  ASSUME MapInv, TypeOK', UNCHANGED <<contents, sup_vars, port_vars>>,
         up' = up
  PROVE  MapInv'
<1> USE DEF MapInv, sup_vars, port_vars
<1>1. HalfApplied'
  BY DEF HalfApplied, Served
<1>2. MapIsConfigured' /\ DownIsIdle'
  BY DEF MapIsConfigured, DownIsIdle
<1>3. NoStrayWorker'
  BY DEF NoStrayWorker
<1> QED
  BY <1>1, <1>2, <1>3

LEMMA MapInvStep == MapInv /\ [Next]_vars => MapInv'
<1> SUFFICES ASSUME MapInv, [Next]_vars
             PROVE  MapInv'
  OBVIOUS
<1>0. TypeOK /\ TypeOK'
  BY ReloadTypeStep DEF MapInv
<1> USE <1>0 DEF disk_vars, ask_vars, loader_vars, chan_vars, life_vars
<1>1. ASSUME Edit \/ (\E o \in Operators : Ask(o)) PROVE MapInv'
  BY <1>1, ReloadQuietStep DEF Edit, Ask, CheckReload, CreateReload
<1>2. ASSUME Reload PROVE MapInv'
  BY <1>2, ReloadQuietStep DEF Reload, Load, LoadPanics, Send, RemoveReload
<1>3. ASSUME Wake \/ End \/ Take PROVE MapInv'
  <2>1. HalfApplied' /\ MapIsConfigured' /\ DownIsIdle'
    BY <1>3 DEF MapInv, DownIsIdle, Wake, End, Take, HalfApplied, MapIsConfigured
  <2>2. NoStrayWorker'
    BY <1>3 DEF Wake, End, Take, MapInv, NoStrayWorker, port_vars
  <2> QED
    BY <2>1, <2>2 DEF MapInv
<1>4. ASSUME StopWorkers PROVE MapInv'
  <2> USE <1>4 DEF StopWorkers
  <2>1. HalfApplied'
    <3>1. todo' = Served(target) /\ Served(target)' = Served(target)
      BY DEF Served
    <3>2. ASSUME NEW p \in Ports, p \notin Served(target)
          PROVE  worker'[p] = NoWorker /\ contents[target].port[p] # "good"
      BY <3>2 DEF Dropped, Served, TypeOK
    <3> QED
      BY <3>1, <3>2 DEF HalfApplied
  <2>2. MapIsConfigured' /\ DownIsIdle'
    BY DEF MapInv, MapIsConfigured, DownIsIdle
  <2>3. NoStrayWorker'
    <3> SUFFICES ASSUME NEW p \in Ports, NEW v \in Versions,
                        phase[<<p, v>>] \in {"starting", "listening"}
                 PROVE  worker'[p] = v \/ <<p, v>> \in told'
      BY DEF NoStrayWorker
    <3>1. worker[p] = v \/ <<p, v>> \in told
      BY DEF MapInv, NoStrayWorker
    <3> QED
      BY <3>1 DEF NewlyTold
  <2> QED
    BY <2>1, <2>2, <2>3 DEF MapInv
<1>5. ASSUME NEW p \in Ports, Update(p) PROVE MapInv'
  <2> USE <1>5 DEF Update, Visits, GoodCert
  <2>1. HalfApplied'
    BY DEF MapInv, HalfApplied, Served, TypeOK
  <2>2. MapIsConfigured' /\ DownIsIdle'
    BY DEF MapInv, MapIsConfigured, DownIsIdle
  <2>3. NoStrayWorker'
    BY DEF MapInv, NoStrayWorker, port_vars
  <2> QED
    BY <2>1, <2>2, <2>3 DEF MapInv
<1>6. ASSUME NEW p \in Ports, Create(p) PROVE MapInv'
  <2> USE <1>6 DEF Create, Visits, GoodCert
  <2>1. HalfApplied'
    BY ReloadAssumption DEF MapInv, HalfApplied, Served, TypeOK
  <2>2. MapIsConfigured' /\ DownIsIdle'
    BY DEF MapInv, MapIsConfigured, DownIsIdle
  <2>3. NoStrayWorker'
    <3> SUFFICES ASSUME NEW q \in Ports, NEW v \in Versions,
                        phase'[<<q, v>>] \in {"starting", "listening"}
                 PROVE  worker'[q] = v \/ <<q, v>> \in told'
      BY DEF NoStrayWorker
    <3>1. CASE q = p /\ v = target
      BY <3>1 DEF TypeOK
    <3>2. CASE ~(q = p /\ v = target)
      <4>1. phase'[<<q, v>>] = phase[<<q, v>>]
        BY <3>2 DEF TypeOK, Workers
      <4>2. worker[q] = v \/ <<q, v>> \in told
        BY <4>1 DEF MapInv, NoStrayWorker
      <4> QED
        BY <4>2, ReloadAssumption DEF TypeOK
    <3> QED
      BY <3>1, <3>2
  <2> QED
    BY <2>1, <2>2, <2>3 DEF MapInv
<1>7. ASSUME NEW p \in Ports, CreateFails(p) PROVE MapInv'
  <2> USE <1>7 DEF CreateFails, Visits, GoodCert
  <2>1. HalfApplied'
    BY DEF MapInv, HalfApplied, Served, TypeOK
  <2>2. MapIsConfigured' /\ DownIsIdle'
    BY DEF MapInv, MapIsConfigured, DownIsIdle
  <2>3. NoStrayWorker'
    BY DEF MapInv, NoStrayWorker, port_vars
  <2> QED
    BY <2>1, <2>2, <2>3 DEF MapInv
<1>8. ASSUME Done PROVE MapInv'
  <2> USE <1>8 DEF Done
  <2>1. HalfApplied'
    BY DEF HalfApplied
  <2>2. MapIsConfigured' /\ DownIsIdle'
    BY DEF MapInv, HalfApplied, MapIsConfigured, DownIsIdle
  <2>3. NoStrayWorker'
    BY DEF MapInv, NoStrayWorker, port_vars
  <2> QED
    BY <2>1, <2>2, <2>3 DEF MapInv
<1>9. ASSUME Die PROVE MapInv'
  <2>1. HalfApplied' /\ MapIsConfigured' /\ DownIsIdle'
    BY <1>9 DEF DownIsIdle, Die, HalfApplied, MapIsConfigured
  <2>2. NoStrayWorker'
    BY <1>9 DEF Die, NoStrayWorker, Workers
  <2> QED
    BY <2>1, <2>2 DEF MapInv
<1>10. ASSUME (\E p \in Ports : UpdateExits(p)) \/ Crash PROVE MapInv'
  BY <1>9, <1>10 DEF UpdateExits, Crash
<1>11. ASSUME Start PROVE MapInv'
  <2>1. HalfApplied'
    BY <1>11 DEF Start, MapInv, HalfApplied, Served, sup_vars
  <2>2. MapIsConfigured' /\ DownIsIdle'
    BY <1>11 DEF Start, MapInv, DownIsIdle, MapIsConfigured, sup_vars
  <2>3. NoStrayWorker'
    BY <1>11 DEF Start, MapInv, NoStrayWorker, sup_vars, port_vars
  <2> QED
    BY <2>1, <2>2, <2>3 DEF MapInv
<1>12. ASSUME NEW q \in Ports, NEW w \in Versions, Serve(q, w) PROVE MapInv'
  <2>1. UNCHANGED <<contents, up, supervisor, target, todo, applied, worker, settings>>
    BY <1>12 DEF Serve, WorkerOpens, WorkerFails, WorkerShuts, sup_vars
  <2>2. HalfApplied' /\ MapIsConfigured' /\ DownIsIdle'
    BY <2>1 DEF MapInv, DownIsIdle, HalfApplied, MapIsConfigured, Served
  <2>3. told' = told /\ phase[<<q, w>>] \in {"starting", "listening"}
    BY <1>12 DEF Serve, WorkerOpens, WorkerFails, WorkerShuts
  <2>4. \A p \in Ports, v \in Versions :
           phase'[<<p, v>>] \in {"starting", "listening"} =>
             phase[<<p, v>>] \in {"starting", "listening"}
    BY <1>12, <2>3 DEF Serve, WorkerOpens, WorkerFails, WorkerShuts, TypeOK, Workers
  <2>5. NoStrayWorker'
    BY <2>1, <2>3, <2>4 DEF MapInv, NoStrayWorker
  <2> QED
    BY <2>2, <2>5 DEF MapInv
<1>13. ASSUME UNCHANGED vars PROVE MapInv'
  BY <1>13, ReloadQuietStep DEF vars
<1> QED
  BY <1>1, <1>2, <1>3, <1>4, <1>5, <1>6, <1>7, <1>8, <1>10, <1>11, <1>12, <1>13
     DEF Next, Supervise, Visit

-----------------------------------------------------------------------------
(***************************************************************************)
(* The order of the versions                                               *)
(***************************************************************************)

LEMMA ReloadOrderInit == Init => NewerFollows /\ OnlyLoadable
BY DEF Init, NewerFollows, OnlyLoadable, Loads

LEMMA ReloadOrderStep ==
  ASSUME TypeOK, NewerFollows, OnlyLoadable, [Next]_vars
  PROVE  NewerFollows' /\ OnlyLoadable'
<1> USE DEF NewerFollows, OnlyLoadable, Loads, TypeOK, Versions
<1> USE DEF disk_vars, ask_vars, loader_vars, chan_vars, sup_vars, port_vars, life_vars
<1>0. LastVersion \in Nat
  BY ReloadAssumption
<1>1. ASSUME Edit \/ (\E o \in Operators : Ask(o)) PROVE NewerFollows' /\ OnlyLoadable'
  BY <1>0, <1>1 DEF Edit, Ask, CheckReload, CreateReload
<1>2. ASSUME Load PROVE NewerFollows' /\ OnlyLoadable'
  BY <1>0, <1>2 DEF Load, Polls, FreshVersion
<1>3. ASSUME LoadPanics \/ RemoveReload PROVE NewerFollows' /\ OnlyLoadable'
  BY <1>0, <1>3 DEF LoadPanics, RemoveReload
<1>4. ASSUME Send PROVE NewerFollows' /\ OnlyLoadable'
  BY <1>0, <1>4 DEF Send
<1>5. ASSUME Wake \/ End \/ StopWorkers PROVE NewerFollows' /\ OnlyLoadable'
  BY <1>0, <1>5 DEF Wake, End, StopWorkers
<1>6. ASSUME Take PROVE NewerFollows' /\ OnlyLoadable'
  BY <1>0, <1>6 DEF Take
<1>7. ASSUME Done PROVE NewerFollows' /\ OnlyLoadable'
  BY <1>0, <1>7 DEF Done
<1>8. ASSUME NEW p \in Ports, Update(p) \/ Create(p) \/ CreateFails(p)
      PROVE  NewerFollows' /\ OnlyLoadable'
  BY <1>0, <1>8 DEF Update, Create, CreateFails
<1>9. ASSUME Die PROVE NewerFollows' /\ OnlyLoadable'
  BY <1>0, <1>9 DEF Die
<1>10. ASSUME Start PROVE NewerFollows' /\ OnlyLoadable'
  BY <1>0, <1>10 DEF Start
<1>11. ASSUME NEW p \in Ports, NEW v \in Versions, Serve(p, v)
       PROVE  NewerFollows' /\ OnlyLoadable'
  BY <1>0, <1>11 DEF Serve, WorkerOpens, WorkerFails, WorkerShuts
<1>12. ASSUME UNCHANGED vars PROVE NewerFollows' /\ OnlyLoadable'
  BY <1>12 DEF vars
<1> QED
  BY <1>1, <1>2, <1>3, <1>4, <1>5, <1>6, <1>7, <1>8, <1>9, <1>10, <1>11, <1>12
     DEF Next, Reload, Supervise, Visit, UpdateExits, Crash

-----------------------------------------------------------------------------
(***************************************************************************)
(* The workers                                                             *)
(***************************************************************************)

LEMMA MadeOnceInit == Init => MadeOnce
BY ReloadAssumption DEF Init, MadeOnce, Workers

\* A step that leaves the map, the applied version and the workers alone.
LEMMA MadeOnceQuietStep ==
  ASSUME MadeOnce, UNCHANGED <<contents, target, worker, told, phase>>
  PROVE  MadeOnce'
BY DEF MadeOnce

LEMMA MadeOnceStep ==
  ASSUME MapInv, NewerFollows, MadeOnce, [Next]_vars
  PROVE  MadeOnce'
<1> USE DEF disk_vars, ask_vars, loader_vars, chan_vars, sup_vars, port_vars, life_vars
<1>0. TypeOK /\ LastVersion \in Nat /\ NoWorker \notin Versions
  BY ReloadAssumption DEF MapInv
<1>1. ASSUME Edit \/ (\E o \in Operators : Ask(o)) \/ Reload \/ Wake \/ End \/ Done \/ Start
      PROVE  MadeOnce'
  BY <1>1, MadeOnceQuietStep
     DEF Edit, Ask, CheckReload, CreateReload, Reload, Load, LoadPanics, Send, RemoveReload,
         Wake, End, Done, Start
<1>2. ASSUME Take PROVE MadeOnce'
  <2>1. UNCHANGED <<contents, worker, told, phase>> /\ target' = channel
    BY <1>2 DEF Take
  <2>2. target \in Nat /\ channel \in Nat /\ target <= channel
    BY <1>0 DEF TypeOK, Versions, NewerFollows
  <2>3. \A v \in Versions : v <= target => v <= channel /\ (v = channel => v = target)
    BY <1>0, <2>2 DEF Versions
  <2> QED
    BY <2>1, <2>3 DEF MadeOnce
<1>3. ASSUME StopWorkers PROVE MadeOnce'
  <2>1. UNCHANGED <<contents, target, phase>> /\ told' = NewlyTold
    BY <1>3 DEF StopWorkers
  <2>2. \A p \in Ports : worker'[p] = IF p \in Dropped THEN NoWorker ELSE worker[p]
    BY <1>3 DEF StopWorkers
  <2> SUFFICES ASSUME NEW p \in Ports, NEW v \in Versions
               PROVE  /\ worker'[p] = v \/ <<p, v>> \in told' => phase[<<p, v>>] # "none"
                      /\ phase[<<p, v>>] # "none" =>
                           /\ v <= target /\ contents[v].port[p] = "good"
                           /\ v = target => worker'[p] = v
    BY <2>1 DEF MadeOnce
  <2>3. worker'[p] = v \/ <<p, v>> \in told' => phase[<<p, v>>] # "none"
    <3>1. worker'[p] = v => worker[p] = v
      BY <1>0, <2>2
    <3>2. <<p, v>> \in told' => worker[p] = v \/ <<p, v>> \in told
      BY <2>1 DEF NewlyTold
    <3> QED
      BY <3>1, <3>2 DEF MadeOnce
  <2>4. contents[target].port[p] = "good" => p \notin Dropped
    BY DEF Dropped, Served
  <2> QED
    BY <2>2, <2>3, <2>4 DEF MadeOnce
<1>4. ASSUME NEW p \in Ports, Update(p) \/ CreateFails(p) PROVE MadeOnce'
  BY <1>4, MadeOnceQuietStep DEF Update, CreateFails
<1>5. ASSUME NEW p \in Ports, Create(p) PROVE MadeOnce'
  <2>1. UNCHANGED <<contents, target, told>> /\ worker[p] = NoWorker
    BY <1>5 DEF Create
  <2>2. contents[target].port[p] = "good" /\ target \in Versions /\ target <= target
    BY <1>0, <1>5 DEF Create, GoodCert, TypeOK, Versions
  <2> SUFFICES ASSUME NEW q \in Ports, NEW v \in Versions
               PROVE  /\ worker'[q] = v \/ <<q, v>> \in told => phase'[<<q, v>>] # "none"
                      /\ phase'[<<q, v>>] # "none" =>
                           /\ v <= target /\ contents[v].port[q] = "good"
                           /\ v = target => worker'[q] = v
    BY <2>1 DEF MadeOnce
  <2>3. CASE q = p /\ v = target
    <3>1. worker'[q] = target /\ phase'[<<q, v>>] = "starting"
      BY <1>0, <1>5, <2>3 DEF Create, TypeOK, Workers
    <3> QED
      BY <2>2, <2>3, <3>1
  <2>4. CASE ~(q = p /\ v = target)
    <3>1. phase'[<<q, v>>] = phase[<<q, v>>]
      BY <1>0, <1>5, <2>4 DEF Create, TypeOK, Workers
    <3>2. worker'[q] = IF q = p THEN target ELSE worker[q]
      BY <1>0, <1>5 DEF Create, TypeOK
    <3> QED
      BY <1>0, <2>1, <2>2, <2>4, <3>1, <3>2 DEF MadeOnce
  <2> QED
    BY <2>3, <2>4
<1>6. ASSUME Die PROVE MadeOnce'
  BY <1>0, <1>6 DEF Die, MadeOnce, Workers
<1>7. ASSUME NEW q \in Ports, NEW w \in Versions, Serve(q, w) PROVE MadeOnce'
  <2>1. UNCHANGED <<contents, target, worker, told>>
    BY <1>7 DEF Serve, WorkerOpens, WorkerFails, WorkerShuts
  <2>2. \A p \in Ports, v \in Versions : phase'[<<p, v>>] # "none" <=> phase[<<p, v>>] # "none"
    BY <1>0, <1>7 DEF Serve, WorkerOpens, WorkerFails, WorkerShuts, TypeOK, Workers
  <2> QED
    BY <2>1, <2>2 DEF MadeOnce
<1>8. ASSUME UNCHANGED vars PROVE MadeOnce'
  BY <1>8, MadeOnceQuietStep DEF vars
<1> QED
  BY <1>1, <1>2, <1>3, <1>4, <1>5, <1>6, <1>7, <1>8
     DEF Next, Supervise, Visit, UpdateExits, Crash

-----------------------------------------------------------------------------
(***************************************************************************)
(* The requests                                                            *)
(***************************************************************************)

LEMMA RequestsInit == Init => LoadIsNewer
BY DEF Init, LoadIsNewer

\* A step of anything but operators and loader.
LEMMA RequestsQuietStep ==
  ASSUME LoadIsNewer,
         UNCHANGED <<disk_vars, ask_vars, loader_vars, channel, up>>
  PROVE  LoadIsNewer'
BY DEF LoadIsNewer, disk_vars, ask_vars, loader_vars

LEMMA RequestsStep ==
  ASSUME TypeOK, LoadIsNewer, [Next]_vars
  PROVE  LoadIsNewer'
<1> USE DEF disk_vars, ask_vars, loader_vars, chan_vars, sup_vars, port_vars, life_vars
<1>0. /\ version \in Nat /\ asked \in Nat /\ loaded \in Nat /\ channel \in Nat
      /\ wish \in [Operators -> Nat]
  BY ReloadAssumption DEF TypeOK, Versions
<1> USE <1>0 DEF LoadIsNewer
<1>1. ASSUME Edit PROVE LoadIsNewer'
  BY <1>1 DEF Edit
<1>2. ASSUME NEW o \in Operators, CheckReload(o) PROVE LoadIsNewer'
  BY <1>2 DEF CheckReload, NotPending
<1>3. ASSUME NEW o \in Operators, CreateReload(o) PROVE LoadIsNewer'
  BY <1>3 DEF CreateReload
<1>4. ASSUME Load PROVE LoadIsNewer'
  BY <1>4 DEF Load, Polls, FreshVersion
<1>5. ASSUME Send PROVE LoadIsNewer'
  BY <1>5 DEF Send
<1>6. ASSUME RemoveReload PROVE LoadIsNewer'
  BY <1>6 DEF RemoveReload
<1>7. ASSUME LoadPanics \/ Start \/ Die PROVE LoadIsNewer'
  BY <1>7 DEF LoadPanics, Start, Die
<1>8. ASSUME \/ Wake \/ End \/ Take \/ StopWorkers \/ Done
             \/ \E p \in Ports : Update(p) \/ Create(p) \/ CreateFails(p)
             \/ \E p \in Ports, v \in Versions : Serve(p, v)
             \/ UNCHANGED vars
      PROVE  LoadIsNewer'
  <2>1. UNCHANGED <<disk_vars, ask_vars, loader_vars, channel, up>>
    BY <1>8 DEF Wake, End, Take, StopWorkers, Done, Update, Create, CreateFails,
                Serve, WorkerOpens, WorkerFails, WorkerShuts, vars
  <2> QED
    BY <2>1, RequestsQuietStep
<1> QED
  BY <1>1, <1>2, <1>3, <1>4, <1>5, <1>6, <1>7, <1>8
     DEF Next, Ask, Reload, Supervise, Visit, UpdateExits, Crash

LEMMA NothingMissedInit == Init => NothingMissed
BY DEF Init, NothingMissed

\* A step that leaves the channel and the supervisor alone.
LEMMA NothingMissedQuietStep ==
  ASSUME NothingMissed, UNCHANGED <<up, chan_vars, supervisor, target, applied>>
  PROVE  NothingMissed'
BY DEF NothingMissed, chan_vars

\* Only a send brings something new into the channel, and it is unseen until the
\* supervisor goes on to take what is there by then.
LEMMA NothingMissedStep ==
  ASSUME NothingMissed, DownIsIdle, [Next]_vars
  PROVE  NothingMissed'
<1> USE DEF disk_vars, ask_vars, loader_vars, sup_vars, port_vars, life_vars
<1>1. ASSUME Send PROVE NothingMissed'
  BY <1>1 DEF Send, NothingMissed
<1>2. ASSUME Wake \/ End \/ Take \/ StopWorkers \/ Done PROVE NothingMissed'
  BY <1>2 DEF Wake, End, Take, StopWorkers, Done, NothingMissed, chan_vars
<1>3. ASSUME Die PROVE NothingMissed'
  BY <1>3 DEF Die, NothingMissed
<1>4. ASSUME Start PROVE NothingMissed'
  BY <1>4 DEF Start, NothingMissed, DownIsIdle
<1>5. ASSUME \/ Edit \/ (\E o \in Operators : Ask(o)) \/ Load \/ LoadPanics \/ RemoveReload
             \/ \E p \in Ports : Update(p) \/ Create(p) \/ CreateFails(p)
             \/ \E p \in Ports, v \in Versions : Serve(p, v)
             \/ UNCHANGED vars
      PROVE  NothingMissed'
  <2>1. UNCHANGED <<up, chan_vars, supervisor, target, applied>>
    BY <1>5 DEF Edit, Ask, CheckReload, CreateReload, Load, LoadPanics, RemoveReload, Update,
                Create, CreateFails, Serve, WorkerOpens, WorkerFails, WorkerShuts, vars
  <2> QED
    BY <2>1, NothingMissedQuietStep
<1> QED
  BY <1>1, <1>2, <1>3, <1>4, <1>5 DEF Next, Reload, Supervise, Visit, UpdateExits, Crash

-----------------------------------------------------------------------------
(***************************************************************************)
(* What holds in every reachable state                                     *)
(***************************************************************************)

LEMMA ReloadInvInit == Init => ReloadInv
BY MapInvInit, ReloadOrderInit, MadeOnceInit, RequestsInit, NothingMissedInit DEF ReloadInv

LEMMA ReloadInvStep == ReloadInv /\ [Next]_vars => ReloadInv'
<1> SUFFICES ASSUME ReloadInv, [Next]_vars
             PROVE  ReloadInv'
  OBVIOUS
<1>1. /\ MapInv /\ NewerFollows /\ OnlyLoadable /\ MadeOnce
      /\ LoadIsNewer /\ NothingMissed /\ TypeOK /\ DownIsIdle
  BY DEF ReloadInv, MapInv
<1> QED
  BY <1>1, MapInvStep, ReloadOrderStep, MadeOnceStep, RequestsStep, NothingMissedStep DEF ReloadInv

(***************************************************************************)
(* The inductive invariant: the map and what is still to do of the version *)
(* in hand, the order of the versions on their way, which workers have     *)
(* been made, and which reloads were asked for.                            *)
(***************************************************************************)
THEOREM ReloadInvariant == Spec => []ReloadInv
BY ReloadInvInit, ReloadInvStep, PTL DEF Spec

(***************************************************************************)
(* Between two configurations the supervisor's map is exactly the last one *)
(* it took: for any set of ports, and however many updates failed,         *)
(* coalesced or were interrupted before.                                   *)
(***************************************************************************)
THEOREM MapStaysConfigured == Spec => []MapIsConfigured
<1>1. ReloadInv => MapIsConfigured
  BY DEF ReloadInv, MapInv
<1> QED
  BY <1>1, ReloadInvariant, PTL

(***************************************************************************)
(* No open port is forgotten: a worker that may still listen is in the map *)
(* or has been told to stop.                                               *)
(***************************************************************************)
THEOREM NoWorkerStrays == Spec => []NoStrayWorker
<1>1. ReloadInv => NoStrayWorker
  BY DEF ReloadInv, MapInv
<1> QED
  BY <1>1, ReloadInvariant, PTL

(***************************************************************************)
(* No promised reload is swallowed: for any number of `cblt --reload`      *)
(* processes that race with each other and with the loader's remove_file,  *)
(* crashes and restarts between any two steps included.                    *)
(***************************************************************************)
THEOREM NoRequestIsSwallowed == Spec => []RequestIsKept
<1>1. ReloadInv => RequestIsKept
  <2> SUFFICES ASSUME TypeOK, LoadIsNewer, NothingMissed,
                      mode = "config", up, asked > applied, ~reload_file
               PROVE  UnderWay
    BY DEF ReloadInv, MapInv, RequestIsKept
  <2>1. asked \in Nat /\ channel \in Nat /\ applied \in Nat
    BY ReloadAssumption DEF TypeOK, Versions
  <2>2. asked <= channel
    BY <2>1 DEF LoadIsNewer
  <2>3. supervisor \in {"wait", "take", "stop", "apply", "ended"}
    BY DEF TypeOK
  <2> QED
    BY <2>1, <2>2, <2>3 DEF UnderWay, NothingMissed
<1> QED
  BY <1>1, ReloadInvariant, PTL

-----------------------------------------------------------------------------
(***************************************************************************)
(* The refinement                                                          *)
(***************************************************************************)

LEMMA RefinesInit == Init => R!Init
BY ReloadAssumption DEF Init, R!Init, Pending, Versions

LEMMA RefinesStep ==
  ASSUME TypeOK, TypeOK', DownIsIdle, NewerFollows, NewerFollows',
         OnlyLoadable, OnlyLoadable', [Next]_vars
  PROVE  [R!Next]_R!vars
<1> USE DEF disk_vars, ask_vars, loader_vars, chan_vars, sup_vars, port_vars, life_vars
<1>0. ASSUME contents' = contents
      PROVE  {v \in Versions : Loads(v)}' = {v \in Versions : Loads(v)}
  BY <1>0 DEF Loads
<1>a. ASSUME UNCHANGED <<contents, version, up, supervisor, target, channel, applied>>
      PROVE  UNCHANGED R!vars
  BY <1>0, <1>a DEF R!vars, Pending
<1>1. ASSUME Edit PROVE R!Write
  BY <1>0, <1>1 DEF Edit, R!Write, Pending
<1>2. ASSUME \E o \in Operators : Ask(o) PROVE UNCHANGED R!vars
  BY <1>a, <1>2 DEF Ask, CheckReload, CreateReload
<1>3. ASSUME Load \/ LoadPanics \/ RemoveReload PROVE UNCHANGED R!vars
  BY <1>a, <1>3 DEF Load, LoadPanics, RemoveReload
<1>4. ASSUME Send PROVE R!Notice \/ UNCHANGED R!vars
  <2> USE <1>4 DEF Send
  <2>1. CASE supervisor \in {"stop", "apply"}
    BY <1>0, <2>1 DEF R!vars, Pending
  <2>2. CASE supervisor \notin {"stop", "apply"}
    <3>1. Pending = channel /\ Pending' = loaded
      BY <2>2 DEF Pending
    <3>2. R!Advance
      BY <3>1 DEF R!Advance, NewerFollows, OnlyLoadable, TypeOK
    <3> QED
      BY <1>0, <3>2 DEF R!Notice
  <2> QED
    BY <2>1, <2>2
<1>5. ASSUME Wake \/ End \/ Take PROVE UNCHANGED R!vars
  BY <1>0, <1>5 DEF Wake, End, Take, R!vars, Pending
<1>6. ASSUME StopWorkers PROVE UNCHANGED R!vars
  BY <1>0, <1>6 DEF StopWorkers, R!vars, Pending
<1>7. ASSUME Done PROVE R!Apply
  <2>1. Pending = target /\ Pending' = channel
    BY <1>7 DEF Done, Pending
  <2>2. R!Advance
    BY <2>1 DEF R!Advance, NewerFollows, OnlyLoadable, TypeOK
  <2> QED
    BY <1>0, <1>7, <2>1, <2>2 DEF R!Apply, Done
<1>8. ASSUME NEW p \in Ports, Update(p) \/ Create(p) \/ CreateFails(p)
      PROVE  UNCHANGED R!vars
  BY <1>a, <1>8 DEF Update, Create, CreateFails
<1>9. ASSUME up, Die PROVE R!Stop
  BY <1>0, <1>9 DEF Die, R!Stop, Pending
<1>10. ASSUME Start PROVE R!Boot
  BY <1>0, <1>10 DEF Start, R!Boot, Pending, DownIsIdle, TypeOK
<1>11. ASSUME NEW p \in Ports, NEW v \in Versions, Serve(p, v) PROVE UNCHANGED R!vars
  BY <1>a, <1>11 DEF Serve, WorkerOpens, WorkerFails, WorkerShuts
<1>12. ASSUME UNCHANGED vars PROVE UNCHANGED R!vars
  BY <1>a, <1>12 DEF vars
<1>13. ASSUME (\E p \in Ports : UpdateExits(p)) \/ Crash PROVE R!Stop
  BY <1>9, <1>13 DEF UpdateExits, Visits, Crash
<1> QED
  BY <1>1, <1>2, <1>3, <1>4, <1>5, <1>6, <1>7, <1>8, <1>10, <1>11, <1>12, <1>13
     DEF Next, Reload, Supervise, Visit, R!Next

(***************************************************************************)
(* Every step of the protocol is a step of the abstract register or none:  *)
(* for any number of edits, reloads, crashes and restarts, no version is   *)
(* ever replaced by an older one or by one that does not load.             *)
(***************************************************************************)
THEOREM ReloadImplementsReconfiguration == Spec => IsReconfiguration
<1>1. ReloadInv => TypeOK /\ DownIsIdle /\ NewerFollows /\ OnlyLoadable
  BY DEF ReloadInv, MapInv
<1>2. Init => R!Init
  BY RefinesInit
<1>3. (TypeOK /\ DownIsIdle /\ NewerFollows /\ OnlyLoadable)
       /\ (TypeOK /\ DownIsIdle /\ NewerFollows /\ OnlyLoadable)'
       /\ [Next]_vars => [R!Next]_R!vars
  BY RefinesStep
<1> QED
  BY <1>1, <1>2, <1>3, ReloadInvariant, PTL DEF Spec, IsReconfiguration, R!Spec

-----------------------------------------------------------------------------
(***************************************************************************)
(* The workers of the supervisor are Workers                               *)
(***************************************************************************)

LEMMA WorkerStep ==
  ASSUME ReloadInv, [Next]_vars, up', NEW w \in Workers
  PROVE  Born(w) \/ W(w)!Next \/ UNCHANGED <<phase[w], w \in told>>
<1> USE DEF disk_vars, ask_vars, loader_vars, chan_vars, sup_vars, port_vars, life_vars
<1>0. TypeOK /\ MadeOnce /\ NoWorker \notin Versions
  BY ReloadAssumption DEF ReloadInv, MapInv
<1>a. ASSUME UNCHANGED <<phase, told>> PROVE UNCHANGED <<phase[w], w \in told>>
  BY <1>a
<1>1. ASSUME StopWorkers PROVE W(w)!Next \/ UNCHANGED <<phase[w], w \in told>>
  <2>1. phase' = phase /\ (w \in told => w \in told')
    BY <1>1 DEF StopWorkers, NewlyTold
  <2> QED
    BY <2>1 DEF W!Next, W!Tell
<1>2. ASSUME NEW p \in Ports, Create(p)
      PROVE  Born(w) \/ UNCHANGED <<phase[w], w \in told>>
  <2>1. told' = told /\ worker[p] = NoWorker /\ target \in Versions
    BY <1>0, <1>2 DEF Create, TypeOK
  <2>2. CASE w = <<p, target>>
    <3>1. phase[w] = "none" /\ w \notin told
      BY <1>0, <2>1, <2>2 DEF MadeOnce
    <3>2. phase'[w] = "starting"
      BY <1>0, <1>2, <2>2 DEF Create, TypeOK
    <3> QED
      BY <2>1, <3>1, <3>2 DEF Born, W!Init
  <2>3. CASE w # <<p, target>>
    BY <1>0, <1>2, <2>1, <2>3 DEF Create, TypeOK
  <2> QED
    BY <2>2, <2>3
<1>3. ASSUME NEW p \in Ports, NEW v \in Versions, Serve(p, v)
      PROVE  W(w)!Next \/ UNCHANGED <<phase[w], w \in told>>
  <2>1. told' = told
    BY <1>3 DEF Serve, WorkerOpens, WorkerFails, WorkerShuts
  <2>2. CASE w = <<p, v>>
    BY <1>0, <1>3, <2>1, <2>2
       DEF Serve, WorkerOpens, WorkerFails, WorkerShuts, TypeOK, W!Next, W!Open, W!Fail, W!Shut
  <2>3. CASE w # <<p, v>>
    BY <1>0, <1>3, <2>1, <2>3 DEF Serve, WorkerOpens, WorkerFails, WorkerShuts, TypeOK
  <2> QED
    BY <2>2, <2>3
<1>4. ASSUME Die PROVE FALSE
  BY <1>4 DEF Die
<1>5. CASE \/ Edit \/ (\E o \in Operators : Ask(o)) \/ Reload \/ Wake \/ End \/ Take \/ Done
           \/ Start \/ (\E p \in Ports : Update(p) \/ CreateFails(p)) \/ UNCHANGED vars
  BY <1>a, <1>5
     DEF Edit, Ask, CheckReload, CreateReload, Reload, Load, LoadPanics, Send, RemoveReload,
         Wake, End, Take, Done, Start, Update, CreateFails, vars
<1> QED
  BY <1>1, <1>2, <1>3, <1>4, <1>5 DEF Next, Supervise, Visit, UpdateExits, Crash

(***************************************************************************)
(* While the process lives, whatever the supervisor, the loader and the    *)
(* operators do is for every worker a step of Worker, its creation, or     *)
(* nothing: what AcceptorProofs shows of one worker holds of every worker  *)
(* that any sequence of configurations makes.                              *)
(***************************************************************************)
THEOREM SupervisedWorkersAreWorkers == Spec => WorkersAreWorkers
<1>1. ReloadInv /\ [Next]_vars =>
        [~up' \/ \A w \in Workers :
                   Born(w) \/ W(w)!Next \/ UNCHANGED <<phase[w], w \in told>>]_vars
  BY WorkerStep
<1> QED
  BY <1>1, ReloadInvariant, PTL DEF Spec, WorkersAreWorkers
=============================================================================
