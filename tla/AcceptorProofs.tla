--------------------------- MODULE AcceptorProofs ---------------------------
(***************************************************************************)
(* Proofs about Acceptor, for every number of clients and permits and any  *)
(* number of updates.                                                      *)
(***************************************************************************)
EXTENDS Acceptor, FiniteSetTheorems, TLAPS

-----------------------------------------------------------------------------
(***************************************************************************)
(* Permits                                                                 *)
(***************************************************************************)

LEMMA HoldingFinite == IsFiniteSet(Holding) /\ Cardinality(Holding) \in Nat
<1>1. Holding \subseteq Clients
  BY DEF Holding
<1> QED
  BY <1>1, AcceptorAssumption, FS_Subset, FS_CardinalityType

\* A step that neither spawns nor ends a connection task keeps the account.
LEMMA SamePermits ==
  ASSUME PermitsConserved, permits' = permits,
         \A c \in Clients : conn'[c] \in {"spawned", "serving"} <=> conn[c] \in {"spawned", "serving"}
  PROVE  PermitsConserved'
<1>1. Holding' = Holding
  BY DEF Holding
<1> QED
  BY <1>1 DEF PermitsConserved

\* Spawn takes one permit and adds one task.
LEMMA SpawnPermits ==
  ASSUME AcceptorInv, Spawn
  PROVE  PermitsConserved' /\ permits' \in 0 .. Max
<1>1. accepted \in Clients /\ conn[accepted] = "accepted"
  BY DEF AcceptorInv, TypeOK, AcceptedIsWaiting, Spawn
<1>2. Holding' = Holding \cup {accepted} /\ accepted \notin Holding
  BY <1>1 DEF Holding, Spawn, AcceptorInv, TypeOK
<1>3. Cardinality(Holding') = Cardinality(Holding) + 1
  BY <1>2, HoldingFinite, FS_AddElement
<1> QED
  BY <1>3, HoldingFinite, AcceptorAssumption
     DEF PermitsConserved, Spawn, PermitFree, AcceptorInv, TypeOK

\* Finish gives one permit back and removes one task.
LEMMA FinishPermits ==
  ASSUME AcceptorInv, NEW c \in Clients, Finish(c)
  PROVE  PermitsConserved' /\ permits' \in 0 .. Max
<1>1. Holding' = Holding \ {c} /\ c \in Holding
  BY DEF Holding, Finish, AcceptorInv, TypeOK
<1>2. Cardinality(Holding') = Cardinality(Holding) - 1
  BY <1>1, HoldingFinite, FS_RemoveElement
<1>3. Cardinality(Holding') \in Nat
  BY <1>1, HoldingFinite, FS_Subset, FS_CardinalityType
<1> QED
  BY <1>2, <1>3, HoldingFinite, AcceptorAssumption
     DEF PermitsConserved, Finish, PermitDropped, AcceptorInv, TypeOK

-----------------------------------------------------------------------------
(***************************************************************************)
(* The inductive invariant                                                 *)
(***************************************************************************)

LEMMA AcceptorInit == Init => AcceptorInv
<1> SUFFICES ASSUME Init PROVE AcceptorInv
  OBVIOUS
<1>1. Holding = {}
  BY DEF Init, Holding
<1>2. PermitsConserved
  BY <1>1, FS_EmptySet, AcceptorAssumption DEF Init, PermitsConserved
<1>3. TypeOK
  <2>1. permits \in 0 .. Max /\ 0 \in Versions
    BY AcceptorAssumption DEF Init, Versions
  <2> QED
    BY <2>1 DEF Init, TypeOK, PCs, Conns
<1>4. AcceptedIsWaiting
  BY AcceptorAssumption DEF Init, AcceptedIsWaiting
<1>5. LateIsLast /\ AtMostOneLate /\ StopIsTold
  BY DEF Init, LateIsLast, AtMostOneLate, StopIsTold
<1>6. GrantsArePast /\ SettingsAreFresh
  BY DEF Init, GrantsArePast, SettingsAreFresh
<1> QED
  BY <1>2, <1>3, <1>4, <1>5, <1>6 DEF AcceptorInv

LEMMA AcceptorStep == AcceptorInv /\ [Next]_vars => AcceptorInv'
<1> SUFFICES ASSUME AcceptorInv, [Next]_vars
             PROVE  AcceptorInv'
  OBVIOUS
<1> USE AcceptorAssumption DEF AcceptorInv, TypeOK, PCs, Conns, worker_vars, conn_vars
<1>1. ASSUME Bind \/ BindFails \/ CheckRunning \/ EnterSelect PROVE AcceptorInv'
  <2>1. PermitsConserved'
    BY <1>1, SamePermits DEF Bind, BindFails, CheckRunning, EnterSelect
  <2> QED
    BY <1>1, <2>1
       DEF Bind, BindFails, CheckRunning, CheckFlag, EnterSelect, AcceptedIsWaiting,
           LateIsLast, AtMostOneLate, StopIsTold, GrantsArePast, SettingsAreFresh
<1>2. ASSUME CheckStopped \/ Notified PROVE AcceptorInv'
  <2>1. Close /\ pc # "permit"
    BY <1>2 DEF CheckStopped, Notified
  <2>2. PermitsConserved'
    BY <2>1, SamePermits DEF Close
  <2>3. notified' \in BOOLEAN /\ StopIsTold'
    BY <1>2, <2>1 DEF CheckStopped, Notified, Close, StopIsTold
  <2>4. TypeOK'
    BY <2>1, <2>3 DEF Close
  <2>5. AcceptedIsWaiting' /\ LateIsLast' /\ AtMostOneLate'
    BY <2>1 DEF Close, AcceptedIsWaiting, LateIsLast, AtMostOneLate
  <2>6. GrantsArePast' /\ SettingsAreFresh'
    BY <2>1 DEF Close, GrantsArePast, SettingsAreFresh
  <2> QED
    BY <2>2, <2>3, <2>4, <2>5, <2>6
<1>3. ASSUME NEW c \in Clients, Accept(c) PROVE AcceptorInv'
  <2>1. PermitsConserved'
    BY <1>3, SamePermits DEF Accept
  <2>2. AcceptedIsWaiting'
    BY <1>3 DEF Accept, AcceptedIsWaiting
  <2> QED
    BY <1>3, <2>1, <2>2
       DEF Accept, LateIsLast, AtMostOneLate, StopIsTold, GrantsArePast, SettingsAreFresh
<1>4. ASSUME NEW c \in Clients, AcceptError(c) PROVE AcceptorInv'
  <2>1. PermitsConserved'
    BY <1>4, SamePermits DEF AcceptError
  <2> QED
    BY <1>4, <2>1
       DEF AcceptError, ErrorDeafens, AcceptedIsWaiting, LateIsLast, AtMostOneLate, StopIsTold,
           GrantsArePast, SettingsAreFresh
<1>5. ASSUME Spawn PROVE AcceptorInv'
  <2>1. PermitsConserved' /\ permits' \in 0 .. Max
    BY <1>5, SpawnPermits
  <2>2. accepted \in Clients /\ conn[accepted] = "accepted"
    BY <1>5 DEF Spawn, AcceptedIsWaiting
  <2> QED
    BY <1>5, <2>1, <2>2
       DEF Spawn, AcceptedIsWaiting, LateIsLast, AtMostOneLate, StopIsTold,
           GrantsArePast, SettingsAreFresh, Versions
<1>6. ASSUME NEW c \in Clients, ReadSettings(c) PROVE AcceptorInv'
  <2>1. PermitsConserved'
    BY <1>6, SamePermits DEF ReadSettings
  <2> QED
    BY <1>6, <2>1
       DEF ReadSettings, CurrentSettings, AcceptedIsWaiting, LateIsLast, AtMostOneLate,
           StopIsTold, GrantsArePast, SettingsAreFresh
<1>7. ASSUME NEW c \in Clients, Finish(c) PROVE AcceptorInv'
  <2>1. PermitsConserved' /\ permits' \in 0 .. Max
    BY <1>7, FinishPermits
  <2> QED
    BY <1>7, <2>1
       DEF Finish, AcceptedIsWaiting, LateIsLast, AtMostOneLate, StopIsTold,
           GrantsArePast, SettingsAreFresh
<1>8. ASSUME NEW c \in Clients, ClientConnects(c) PROVE AcceptorInv'
  <2>1. PermitsConserved'
    BY <1>8, SamePermits DEF ClientConnects
  <2> QED
    BY <1>8, <2>1
       DEF ClientConnects, AcceptedIsWaiting, LateIsLast, AtMostOneLate, StopIsTold,
           GrantsArePast, SettingsAreFresh
<1>9. ASSUME Update PROVE AcceptorInv'
  <2>1. PermitsConserved'
    BY <1>9, SamePermits DEF Update
  <2> QED
    BY <1>9, <2>1
       DEF Update, AcceptedIsWaiting, LateIsLast, AtMostOneLate, StopIsTold,
           GrantsArePast, SettingsAreFresh, Versions
<1>10. ASSUME Stop \/ Notify PROVE AcceptorInv'
  <2>1. PermitsConserved'
    BY <1>10, SamePermits DEF Stop, Notify
  <2>2. TypeOK' /\ AcceptedIsWaiting' /\ AtMostOneLate' /\ GrantsArePast' /\ SettingsAreFresh'
    BY <1>10 DEF Stop, Notify, NotificationStored, AcceptedIsWaiting, AtMostOneLate,
                 GrantsArePast, SettingsAreFresh
  <2>3. LateIsLast' /\ StopIsTold'
    BY <1>10 DEF Stop, Notify, NotificationStored, LateIsLast, StopIsTold
  <2> QED
    BY <2>1, <2>2, <2>3
<1>11. ASSUME UNCHANGED vars PROVE AcceptorInv'
  <2>1. PermitsConserved'
    BY <1>11, SamePermits DEF vars
  <2> QED
    BY <1>11, <2>1
       DEF vars, AcceptedIsWaiting, LateIsLast, AtMostOneLate, StopIsTold,
           GrantsArePast, SettingsAreFresh
<1> QED
  BY <1>1, <1>2, <1>3, <1>4, <1>5, <1>6, <1>7, <1>8, <1>9, <1>10, <1>11
     DEF Next, Serve, Task

\* The strengthening, and the type invariant in it, hold in every reachable state.
THEOREM AcceptorInvariant == Spec => []AcceptorInv
BY AcceptorInit, AcceptorStep, PTL DEF Spec

\* No permit is lost or invented, for any --max-connections: with Holding, at
\* most Max connections are served at a time.
THEOREM PermitsAreConserved == Spec => []PermitsConserved
<1>1. AcceptorInv => PermitsConserved
  BY DEF AcceptorInv
<1> QED
  BY <1>1, AcceptorInvariant, PTL

\* Every reachable state is well typed.
THEOREM AcceptorTypeCorrect == Spec => []TypeOK
<1>1. AcceptorInv => TypeOK
  BY DEF AcceptorInv
<1> QED
  BY <1>1, AcceptorInvariant, PTL

(***************************************************************************)
(* No connection is served with settings older than those in force when it *)
(* got its permit, for any number of clients, permits and reloads.         *)
(***************************************************************************)
THEOREM ServedWithFreshSettings == Spec => []SettingsAreFresh
<1>1. AcceptorInv => SettingsAreFresh
  BY DEF AcceptorInv
<1> QED
  BY <1>1, AcceptorInvariant, PTL

\* A worker that has been stopped takes at most one more connection.
THEOREM StoppedTakesAtMostOne == Spec => []AtMostOneLate
<1>1. AcceptorInv => AtMostOneLate
  BY DEF AcceptorInv
<1> QED
  BY <1>1, AcceptorInvariant, PTL

-----------------------------------------------------------------------------
(***************************************************************************)
(* A worker does only what the supervisor expects of a Worker: it gives    *)
(* the port up after a failed bind or a stop, never for an error of accept *)
(* and never because all permits are taken.                                *)
(***************************************************************************)
THEOREM AcceptorImplementsWorker == Spec => SafeWorker
<1>1. Init => W!Init
  <2> SUFFICES ASSUME Init PROVE Phase = "starting" /\ (~is_running) = FALSE
    BY DEF W!Init
  <2>1. Phase = "starting"
    BY DEF Init, Phase, Listening
  <2>2. (~is_running) = FALSE
    BY DEF Init
  <2> QED
    BY <2>1, <2>2
<1>2. AcceptorInv /\ [Next]_vars => [W!Next]_<<Phase, ~is_running>>
  <2> SUFFICES ASSUME AcceptorInv, [Next]_vars
               PROVE  W!Next \/ (Phase' = Phase /\ (~is_running)' = ~is_running)
    OBVIOUS
  <2> USE DEF AcceptorInv, TypeOK, worker_vars, Phase, Listening
  <2>1. ASSUME Bind PROVE W!Open
    BY <2>1 DEF Bind, W!Open
  <2>2. ASSUME BindFails PROVE W!Fail
    BY <2>2 DEF BindFails, W!Fail
  <2>3. ASSUME CheckStopped \/ Notified PROVE W!Shut
    <3>1. is_running' = is_running /\ pc' = "closed"
      BY <2>3 DEF CheckStopped, Notified, Close
    <3>2. ~is_running
      BY <2>3 DEF CheckStopped, Notified, StopIsTold
    <3>3. Phase = "listening" /\ Phase' = "gone"
      BY <2>3, <3>1 DEF CheckStopped, Notified
    <3> QED
      BY <3>1, <3>2, <3>3 DEF W!Shut
  <2>4. ASSUME Stop PROVE W!Tell
    BY <2>4 DEF Stop, W!Tell
  <2>5. ASSUME CheckRunning \/ EnterSelect \/ Spawn
               \/ (\E c \in Clients : Accept(c) \/ AcceptError(c))
        PROVE  Phase' = Phase /\ is_running' = is_running
    BY <2>5 DEF CheckRunning, EnterSelect, Spawn, Accept, AcceptError, ErrorDeafens
  <2>6. ASSUME (\E c \in Clients : Task(c) \/ ClientConnects(c)) \/ Update \/ Notify
               \/ UNCHANGED vars
        PROVE  Phase' = Phase /\ is_running' = is_running
    BY <2>6 DEF Task, ReadSettings, Finish, ClientConnects, Update, Notify, vars
  <2> QED
    BY <2>1, <2>2, <2>3, <2>4, <2>5, <2>6 DEF Next, Serve, W!Next
<1> QED
  BY <1>1, <1>2, AcceptorInvariant, PTL DEF Spec, SafeWorker, W!Safe
=============================================================================
