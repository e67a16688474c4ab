------------------------- MODULE LoadBalancerProofs -------------------------
(***************************************************************************)
(* Proofs about LoadBalancer, for every set of requests, every number of   *)
(* backends and every directive.                                           *)
(***************************************************************************)
EXTENDS LoadBalancer, TLAPS

-----------------------------------------------------------------------------
(***************************************************************************)
(* The ring of backends                                                    *)
(***************************************************************************)

\* The index that follows i, without the modulo (reverse_proxy.rs:382).
LEMMA NextIndexUnfolded ==
  \A i \in Backends : NextIndex(i) = IF i + 1 = N THEN 0 ELSE i + 1
<1>1. N \in Nat \ {0}
  BY ConstantsAssumption
<1>2. \A i \in Backends : i + 1 < N => (i + 1) % N = i + 1
  BY <1>1 DEF Backends
<1>3. N % N = 0
  BY <1>1
<1> QED
  BY <1>1, <1>2, <1>3 DEF NextIndex, Backends

\* The index that follows i is an index.
LEMMA NextIndexType ==
  \A i \in Backends : NextIndex(i) \in Backends
BY NextIndexUnfolded, ConstantsAssumption DEF Backends

\* Distances on the ring: their range, and how a step of either end moves them.
LEMMA AheadRing ==
  \A i, j \in Backends :
    /\ Ahead(i, j) \in 0 .. (N - 1)
    /\ Ahead(i, j) = 0 <=> i = j
    /\ Ahead(NextIndex(i), j) = IF j = i THEN N - 1 ELSE Ahead(i, j) - 1
    /\ Ahead(i, NextIndex(j)) = IF Ahead(i, j) = N - 1 THEN 0 ELSE Ahead(i, j) + 1
BY NextIndexUnfolded, ConstantsAssumption DEF Backends, Ahead

\* What is nearer to the start of a scan than its cursor lies behind the cursor.
LEMMA AheadBehind ==
  \A s, c, b \in Backends :
    Ahead(s, b) < Ahead(s, c) => Ahead(c, b) >= N - Ahead(s, c)
BY ConstantsAssumption DEF Backends, Ahead

-----------------------------------------------------------------------------
(***************************************************************************)
(* Types: current_backend never leaves the vector (the index of line 373   *)
(* cannot panic), whatever the order in which tasks scan.                  *)
(***************************************************************************)

LEMMA TypeInit == Init => TypeOK
BY ConstantsAssumption DEF Init, TypeOK, Config, Options, PCs, Backends

\* What get_next_backend leaves behind when it returns from backend b.
LEMMA ReturnType ==
  ASSUME TypeOK, NEW r \in Requests, NEW b \in Backends, Return(r, b)
  PROVE  /\ config' \in Configs /\ status' \in [Backends -> Status]
         /\ current_backend' \in Backends /\ last_pick' \in Backends
         /\ idx_guard' \in Requests \cup {NoRequest}
         /\ pc' \in [Requests -> PCs] /\ gave_up' \in [Requests -> BOOLEAN]
         /\ home' \in [Requests -> Backends] /\ options' \in [Requests -> Options]
         /\ cursor' \in [Requests -> Backends] /\ scanned' \in [Requests -> 0 .. N]
         /\ backend' \in [Requests -> Backends] /\ seen' \in [Requests -> SUBSET Backends]
         /\ retries' \in [Requests -> Nat] /\ waited' \in [Requests -> Nat]
<1> USE DEF TypeOK, PCs, Return, TooLong, AnswerNoHealthy, ReturnFromScan
<1>0. options[r] \in Options
  OBVIOUS
<1>1. options[r].lb_retries \in Nat /\ 0 \in Backends /\ N \in Nat \ {0}
  BY <1>0, ConstantsAssumption DEF Options, Backends
<1>2. config' \in Configs /\ status' \in [Backends -> Status]
  OBVIOUS
<1>3. current_backend' \in Backends /\ last_pick' \in Backends
  BY NextIndexType
<1>4. idx_guard' \in Requests \cup {NoRequest}
  OBVIOUS
<1>5. pc' \in [Requests -> PCs] /\ gave_up' \in [Requests -> BOOLEAN]
  OBVIOUS
<1>6. home' \in [Requests -> Backends] /\ options' \in [Requests -> Options]
  OBVIOUS
<1>7. cursor' \in [Requests -> Backends] /\ scanned' \in [Requests -> 0 .. N]
  BY <1>1
<1>8. backend' \in [Requests -> Backends] /\ seen' \in [Requests -> SUBSET Backends]
  OBVIOUS
<1>9. retries' \in [Requests -> Nat] /\ waited' \in [Requests -> Nat]
  BY <1>1
<1> QED
  BY <1>2, <1>3, <1>4, <1>5, <1>6, <1>7, <1>8, <1>9

LEMMA TypeStep == TypeOK /\ [Next]_vars => TypeOK'
<1> SUFFICES ASSUME TypeOK, [Next]_vars
             PROVE  TypeOK'
  OBVIOUS
<1> USE DEF TypeOK, PCs
<1>0. config.lb_retries \in Nat /\ 0 \in Backends /\ N \in Nat \ {0}
  BY ConstantsAssumption DEF Config, Backends
<1>1. ASSUME NEW r \in Requests, Arrive(r) PROVE TypeOK'
  BY <1>0, <1>1, ConstantsAssumption DEF Arrive, Config, lb_vars, health
<1>2. ASSUME NEW r \in Requests, BeginScan(r) PROVE TypeOK'
  BY <1>0, <1>2 DEF BeginScan, LockIndex, health
<1>3. ASSUME NEW r \in Requests, ScanAlive(r) PROVE TypeOK'
  <2>1. Cursor(r) \in Backends /\ Return(r, Cursor(r))
    BY <1>3 DEF Cursor, ScanAlive
  <2> QED
    BY <1>0, <1>3, <2>1, ReturnType DEF ScanAlive, health
<1>4. ASSUME NEW r \in Requests, ScanRevive(r) PROVE TypeOK'
  <2>1. Cursor(r) \in Backends /\ Return(r, Cursor(r))
    BY <1>4 DEF Cursor, ScanRevive
  <2> QED
    BY <1>0, <1>4, <2>1, ReturnType DEF ScanRevive, health
<1>5. ASSUME NEW r \in Requests, ScanKeepDead(r) PROVE TypeOK'
  BY <1>0, <1>5, NextIndexType DEF ScanKeepDead, PassOver, Passes, Cursor
<1>6. ASSUME NEW r \in Requests, ScanSkip(r) PROVE TypeOK'
  BY <1>0, <1>6, NextIndexType DEF ScanSkip, PassOver, Passes, Cursor, health
<1>7. ASSUME NEW r \in Requests, ScanExhausted(r) PROVE TypeOK'
  BY <1>0, <1>7 DEF ScanExhausted, AnswerNoHealthy, ReturnFromScan, health
<1>8. ASSUME NEW r \in Requests, RejectDestination(r) PROVE TypeOK'
  BY <1>0, <1>8 DEF RejectDestination, DropBackend, lb_vars, health
<1>9. ASSUME NEW r \in Requests, ConnectOpened(r) PROVE TypeOK'
  BY <1>9 DEF ConnectOpened, lb_vars, health
<1>10. ASSUME NEW r \in Requests, ConnectRefused(r) PROVE TypeOK'
  BY <1>10 DEF ConnectRefused, Attempting, AttemptFailed, lb_vars, health
<1>11. ASSUME NEW r \in Requests, ConnectTimedOut(r) PROVE TypeOK'
  BY <1>11 DEF ConnectTimedOut, Attempting, AttemptFailed, lb_vars, health
<1>12. ASSUME NEW r \in Requests, MarkDead(r) PROVE TypeOK'
  BY <1>0, <1>12 DEF MarkDead, FreshRetries, DropBackend, lb_vars
<1>13. ASSUME NEW r \in Requests, MarkAlive(r) PROVE TypeOK'
  BY <1>0, <1>13 DEF MarkAlive, DropBackend, lb_vars
<1>14. ASSUME NEW r \in Requests, Exchange(r) PROVE TypeOK'
  BY <1>14 DEF Exchange, lb_vars, health
<1>15. ASSUME NEW b \in Backends, ChangeStatus(b) PROVE TypeOK'
  BY <1>15 DEF ChangeStatus, lb_vars, health, task_vars
<1>16. ASSUME Tick PROVE TypeOK'
  BY <1>16 DEF Tick, lb_vars
<1>17. ASSUME ClockStepsBack PROVE TypeOK'
  BY <1>17 DEF ClockStepsBack, lb_vars, task_vars
<1>18. ASSUME UNCHANGED vars PROVE TypeOK'
  BY <1>18 DEF vars, lb_vars, health, task_vars
<1> QED
  BY <1>1, <1>2, <1>3, <1>4, <1>5, <1>6, <1>7, <1>8, <1>9, <1>10, <1>11,
     <1>12, <1>13, <1>14, <1>15, <1>16, <1>17, <1>18
     DEF Next, Select, Scan, Connect

\* Every reachable state is well typed.
THEOREM TypeCorrect == Spec => []TypeOK
<1>1. Init => TypeOK
  BY TypeInit
<1>2. TypeOK /\ [Next]_vars => TypeOK'
  BY TypeStep
<1> QED
  BY <1>1, <1>2, PTL DEF Spec

-----------------------------------------------------------------------------
(***************************************************************************)
(* Scans.  Only the task itself and, through current_backend, the holder   *)
(* of its lock can disturb what a scan has established.                    *)
(***************************************************************************)

\* A step that starts, continues and ends no scan leaves ScanInv alone.
LEMMA QuietStep ==
  ASSUME ScanInv, TypeOK',
         UNCHANGED <<config, lb_vars, home, cursor, scanned, gave_up, seen>>,
         \A q \in Requests :
           pc'[q] = pc[q] \/ (pc[q] \notin {"idle", "scan"} /\ pc'[q] # "scan")
  PROVE  ScanInv'
<1> USE DEF ScanInv, lb_vars, RoundRobin
<1>1. ScanHoldsIndex'
  BY DEF ScanHoldsIndex
<1>2. ScanSawWhatItPassed'
  BY DEF ScanSawWhatItPassed, Cursor
<1>3. ScanCountsPasses'
  BY DEF ScanCountsPasses, Cursor, ScanStart
<1>4. TurnIsKept' /\ GaveUpIsOver' /\ NoHealthyIsHonest'
  BY DEF TurnIsKept, GaveUpIsOver, NoHealthyIsHonest
<1>5. HolderScans'
  BY DEF HolderScans, TypeOK
<1> QED
  BY <1>1, <1>2, <1>3, <1>4, <1>5

\* A scan begins: nothing is passed yet.
LEMMA BeginScanStep ==
  ASSUME ScanInv, TypeOK', NEW r \in Requests, BeginScan(r)
  PROVE  ScanInv'
<1> USE DEF ScanInv, RoundRobin, BeginScan, LockIndex
<1>1. N \in Nat \ {0}
  BY ConstantsAssumption
<1>2. ScanHoldsIndex'
  BY ConstantsAssumption DEF ScanHoldsIndex, TypeOK
<1>3. ScanSawWhatItPassed'
  <2> SUFFICES ASSUME NEW q \in Requests, pc'[q] = "scan", NEW b \in Backends,
                      Ahead(Cursor(q)', b) >= N - scanned'[q]
               PROVE  b \in seen'[q]
    BY DEF ScanSawWhatItPassed
  <2>1. CASE q = r
    <3>1. scanned'[q] = 0 /\ Cursor(q)' \in Backends
      BY <2>1 DEF TypeOK, Cursor
    <3> QED
      BY <3>1, <1>1, AheadRing
  <2>2. CASE q # r
    BY <2>2 DEF ScanSawWhatItPassed, Cursor, TypeOK
  <2> QED
    BY <2>1, <2>2
<1>4. ScanCountsPasses'
  <2> SUFFICES ASSUME NEW q \in Requests, pc'[q] = "scan", config.long_urls = {}
               PROVE  (Ahead(ScanStart(q), Cursor(q)) = IF scanned[q] = N THEN 0 ELSE scanned[q])'
    BY DEF ScanCountsPasses
  <2>1. CASE q = r
    <3>1. scanned'[q] = 0 /\ Cursor(q)' = ScanStart(q)' /\ Cursor(q)' \in Backends
      BY <2>1, ConstantsAssumption DEF TypeOK, Cursor, ScanStart, TurnIsKept
    <3> QED
      BY <3>1, <1>1, AheadRing
  <2>2. CASE q # r
    BY <2>2 DEF ScanCountsPasses, Cursor, ScanStart, TypeOK
  <2> QED
    BY <2>1, <2>2
<1>5. TurnIsKept' /\ GaveUpIsOver' /\ NoHealthyIsHonest'
  BY ConstantsAssumption DEF TurnIsKept, GaveUpIsOver, NoHealthyIsHonest, TypeOK
<1>6. HolderScans'
  BY ConstantsAssumption DEF HolderScans, TypeOK
<1> QED
  BY <1>2, <1>3, <1>4, <1>5, <1>6

\* The backend at the cursor is passed over.
LEMMA PassOverStep ==
  ASSUME ScanInv, TypeOK', NEW r \in Requests, pc[r] = "scan", scanned[r] < N,
         PassOver(r, Cursor(r))
  PROVE  ScanInv'
<1> USE DEF ScanInv, RoundRobin, PassOver
<1>1. N \in Nat \ {0} /\ Cursor(r) \in Backends /\ scanned[r] \in 0 .. N
  BY ConstantsAssumption DEF TypeOK, Cursor
<1>2. ScanHoldsIndex'
  BY DEF ScanHoldsIndex
<1>3. Cursor(r)' = NextIndex(Cursor(r)) /\ scanned'[r] = scanned[r] + 1
      /\ seen'[r] = seen[r] \cup {Cursor(r)} /\ ScanStart(r)' = ScanStart(r)
  BY DEF TypeOK, Cursor, ScanStart
<1>4. ASSUME NEW q \in Requests, q # r, pc'[q] = "scan"
      PROVE  /\ Cursor(q)' = Cursor(q) /\ ScanStart(q)' = ScanStart(q)
             /\ scanned'[q] = scanned[q] /\ seen'[q] = seen[q] /\ pc[q] = "scan"
  BY <1>4 DEF TypeOK, Cursor, ScanStart, ScanHoldsIndex
<1>5. ScanSawWhatItPassed'
  <2> SUFFICES ASSUME NEW q \in Requests, pc'[q] = "scan", NEW b \in Backends,
                      Ahead(Cursor(q)', b) >= N - scanned'[q]
               PROVE  b \in seen'[q]
    BY DEF ScanSawWhatItPassed
  <2>1. CASE q = r
    <3>1. b = Cursor(r) \/ Ahead(Cursor(r), b) >= N - scanned[r]
      BY <1>1, <1>3, <2>1, AheadRing
    <3> QED
      BY <1>3, <2>1, <3>1 DEF ScanSawWhatItPassed
  <2>2. CASE q # r
    BY <1>4, <2>2 DEF ScanSawWhatItPassed
  <2> QED
    BY <2>1, <2>2
<1>6. ScanCountsPasses'
  <2> SUFFICES ASSUME NEW q \in Requests, pc'[q] = "scan", config.long_urls = {}
               PROVE  Ahead(ScanStart(q)', Cursor(q)') =
                        IF scanned'[q] = N THEN 0 ELSE scanned'[q]
    BY DEF ScanCountsPasses
  <2>1. CASE q = r
    <3>1. ScanStart(r) \in Backends
      BY NextIndexType DEF TypeOK, ScanStart
    <3>2. Ahead(ScanStart(r), Cursor(r)) = scanned[r]
      BY <1>1 DEF ScanCountsPasses
    <3> QED
      BY <1>1, <1>3, <2>1, <3>1, <3>2, AheadRing
  <2>2. CASE q # r
    BY <1>4, <2>2 DEF ScanCountsPasses
  <2> QED
    BY <2>1, <2>2
<1>7. TurnIsKept' /\ GaveUpIsOver' /\ NoHealthyIsHonest'
  BY ConstantsAssumption
     DEF TurnIsKept, ScanHoldsIndex, GaveUpIsOver, NoHealthyIsHonest, TypeOK
<1>8. HolderScans'
  BY DEF HolderScans
<1> QED
  BY <1>2, <1>5, <1>6, <1>7, <1>8

\* The scan of r selects the backend at its cursor, or stumbles over its url.
LEMMA ReturnStep ==
  ASSUME ScanInv, TypeOK', NEW r \in Requests, pc[r] = "scan", Return(r, Cursor(r))
  PROVE  ScanInv'
<1> USE DEF ScanInv, RoundRobin, Return, TooLong, AnswerNoHealthy, ReturnFromScan
<1>1. config' = config /\ home' = home
  OBVIOUS
<1>2. ASSUME NEW q \in Requests, pc'[q] = "scan"
      PROVE  /\ q # r /\ pc[q] = "scan" /\ ~RoundRobin
             /\ cursor'[q] = cursor[q] /\ scanned'[q] = scanned[q] /\ seen'[q] = seen[q]
  BY <1>2 DEF TypeOK, ScanHoldsIndex
<1>3. ScanHoldsIndex'
  BY <1>1, <1>2 DEF ScanHoldsIndex
<1>4. ScanSawWhatItPassed' /\ ScanCountsPasses'
  BY <1>1, <1>2 DEF ScanSawWhatItPassed, ScanCountsPasses, Cursor, ScanStart
<1>5. TurnIsKept'
  BY <1>1 DEF TurnIsKept, ScanHoldsIndex, Cursor
<1>6. GaveUpIsOver'
  BY DEF GaveUpIsOver, TypeOK
<1>7. NoHealthyIsHonest'
  BY DEF NoHealthyIsHonest, GaveUpIsOver, TypeOK
<1>8. HolderScans'
  BY DEF HolderScans, ScanHoldsIndex, TypeOK
<1> QED
  BY <1>3, <1>4, <1>5, <1>6, <1>7, <1>8

\* The scan of r has made all its passes.
LEMMA ExhaustedStep ==
  ASSUME ScanInv, TypeOK', NEW r \in Requests, ScanExhausted(r)
  PROVE  ScanInv'
<1> USE DEF ScanInv, RoundRobin, ScanExhausted, AnswerNoHealthy, ReturnFromScan, Passes
<1>1. config' = config /\ home' = home /\ last_pick' = last_pick
      /\ current_backend' = current_backend
  OBVIOUS
<1>2. ASSUME NEW q \in Requests, pc'[q] = "scan"
      PROVE  /\ q # r /\ pc[q] = "scan" /\ ~RoundRobin
             /\ cursor'[q] = cursor[q] /\ scanned'[q] = scanned[q] /\ seen'[q] = seen[q]
  BY <1>2 DEF TypeOK, ScanHoldsIndex
<1>3. ScanHoldsIndex'
  BY <1>1, <1>2 DEF ScanHoldsIndex
<1>4. ScanSawWhatItPassed' /\ ScanCountsPasses'
  BY <1>1, <1>2 DEF ScanSawWhatItPassed, ScanCountsPasses, Cursor, ScanStart
<1>5. TurnIsKept'
  <2> SUFFICES ASSUME RoundRobin, config.long_urls = {}
               PROVE  current_backend = NextIndex(last_pick)
    BY <1>1 DEF TurnIsKept
  <2>1. Ahead(ScanStart(r), Cursor(r)) = 0
    BY DEF ScanCountsPasses
  <2> QED
    BY <2>1, AheadRing, NextIndexType DEF ScanStart, Cursor, TypeOK
<1>6. GaveUpIsOver'
  BY DEF GaveUpIsOver, TypeOK
<1>7. NoHealthyIsHonest'
  <2>1. Cursor(r) \in Backends /\ N \in Nat
    BY ConstantsAssumption DEF TypeOK, Cursor
  <2>2. \A b \in Backends : b \in seen[r]
    BY <2>1, AheadRing DEF ScanSawWhatItPassed
  <2>3. seen[r] = Backends
    BY <2>2 DEF TypeOK
  <2> QED
    BY <1>1, <2>3 DEF NoHealthyIsHonest, TypeOK
<1>8. HolderScans'
  BY DEF HolderScans, ScanHoldsIndex, TypeOK
<1> QED
  BY <1>3, <1>4, <1>5, <1>6, <1>7, <1>8

\* A new request: the verdict on the task's last one is forgotten.
LEMMA ArriveStep ==
  ASSUME ScanInv, TypeOK', NEW r \in Requests, Arrive(r)
  PROVE  ScanInv'
<1> USE DEF ScanInv, RoundRobin, Arrive, lb_vars
<1>1. config' = config /\ last_pick' = last_pick /\ current_backend' = current_backend
      /\ cursor' = cursor /\ scanned' = scanned /\ idx_guard' = idx_guard
  OBVIOUS
<1>2. ASSUME NEW q \in Requests, q # r
      PROVE  home'[q] = home[q] /\ seen'[q] = seen[q] /\ gave_up'[q] = gave_up[q]
             /\ pc'[q] = pc[q]
  BY <1>2 DEF TypeOK
<1>3. pc'[r] = "select" /\ gave_up'[r] = FALSE
  BY DEF TypeOK
<1>4. ScanHoldsIndex'
  BY <1>1, <1>2, <1>3 DEF ScanHoldsIndex
<1>5. ScanSawWhatItPassed' /\ ScanCountsPasses'
  BY <1>1, <1>2, <1>3 DEF ScanSawWhatItPassed, ScanCountsPasses, Cursor, ScanStart
<1>6. TurnIsKept' /\ GaveUpIsOver' /\ NoHealthyIsHonest'
  BY <1>1, <1>2, <1>3 DEF TurnIsKept, GaveUpIsOver, NoHealthyIsHonest
<1>7. HolderScans'
  BY <1>1, <1>2 DEF HolderScans, TypeOK
<1> QED
  BY <1>4, <1>5, <1>6, <1>7

LEMMA ScanInit == Init => ScanInv
<1> SUFFICES ASSUME Init PROVE ScanInv
  OBVIOUS
<1>1. TypeOK
  BY TypeInit
<1>2. NextIndex(N - 1) = 0
  BY NextIndexUnfolded, ConstantsAssumption DEF Backends
<1> QED
  BY <1>1, <1>2
     DEF Init, ScanInv, ScanHoldsIndex, HolderScans, ScanSawWhatItPassed,
         ScanCountsPasses, TurnIsKept, GaveUpIsOver, NoHealthyIsHonest

LEMMA ScanStep == ScanInv /\ [Next]_vars => ScanInv'
<1> SUFFICES ASSUME ScanInv, [Next]_vars
             PROVE  ScanInv'
  OBVIOUS
<1>0. TypeOK /\ TypeOK'
  BY TypeStep DEF ScanInv
<1> USE <1>0
<1>1. ASSUME NEW r \in Requests, Arrive(r) PROVE ScanInv'
  BY <1>1, ArriveStep
<1>2. ASSUME NEW r \in Requests, BeginScan(r) PROVE ScanInv'
  BY <1>2, BeginScanStep
<1>3. ASSUME NEW r \in Requests, ScanAlive(r) PROVE ScanInv'
  BY <1>3, ReturnStep DEF ScanAlive
<1>4. ASSUME NEW r \in Requests, ScanRevive(r) PROVE ScanInv'
  BY <1>4, ReturnStep DEF ScanRevive
<1>5. ASSUME NEW r \in Requests, ScanKeepDead(r) PROVE ScanInv'
  BY <1>5, PassOverStep DEF ScanKeepDead, Passes
<1>6. ASSUME NEW r \in Requests, ScanSkip(r) PROVE ScanInv'
  BY <1>6, PassOverStep DEF ScanSkip, Passes
<1>7. ASSUME NEW r \in Requests, ScanExhausted(r) PROVE ScanInv'
  BY <1>7, ExhaustedStep
<1>8. ASSUME NEW r \in Requests, RejectDestination(r) PROVE ScanInv'
  BY <1>8, QuietStep DEF RejectDestination, TypeOK
<1>9. ASSUME NEW r \in Requests, ConnectOpened(r) PROVE ScanInv'
  BY <1>9, QuietStep DEF ConnectOpened, Attempting, TypeOK
<1>10. ASSUME NEW r \in Requests, ConnectRefused(r) PROVE ScanInv'
  BY <1>10, QuietStep DEF ConnectRefused, AttemptFailed
<1>11. ASSUME NEW r \in Requests, ConnectTimedOut(r) PROVE ScanInv'
  BY <1>11, QuietStep DEF ConnectTimedOut, AttemptFailed
<1>12. ASSUME NEW r \in Requests, MarkDead(r) PROVE ScanInv'
  BY <1>12, QuietStep DEF MarkDead, TypeOK
<1>13. ASSUME NEW r \in Requests, MarkAlive(r) PROVE ScanInv'
  BY <1>13, QuietStep DEF MarkAlive, TypeOK
<1>14. ASSUME NEW r \in Requests, Exchange(r) PROVE ScanInv'
  BY <1>14, QuietStep DEF Exchange, TypeOK
<1>15. ASSUME NEW b \in Backends, ChangeStatus(b) PROVE ScanInv'
  BY <1>15, QuietStep DEF ChangeStatus, task_vars
<1>16. ASSUME Tick PROVE ScanInv'
  BY <1>16, QuietStep DEF Tick
<1>17. ASSUME ClockStepsBack PROVE ScanInv'
  BY <1>17, QuietStep DEF ClockStepsBack, task_vars
<1>18. ASSUME UNCHANGED vars PROVE ScanInv'
  BY <1>18, QuietStep DEF vars, task_vars
<1> QED
  BY <1>1, <1>2, <1>3, <1>4, <1>5, <1>6, <1>7, <1>8, <1>9, <1>10, <1>11,
     <1>12, <1>13, <1>14, <1>15, <1>16, <1>17, <1>18
     DEF Next, Select, Scan, Connect

\* The strengthening is an invariant.
THEOREM ScanInvariant == Spec => []ScanInv
<1> QED
  BY ScanInit, ScanStep, PTL DEF Spec

\* The lock of current_backend is never leaked: whoever holds it is inside the round
\* robin loop of get_next_backend, whichever of its returns and errors others took.
THEOREM IndexIsGivenBack == Spec => []HolderScans
<1>1. ScanInv => HolderScans
  BY DEF ScanInv
<1> QED
  BY <1>1, ScanInvariant, PTL

(***************************************************************************)
(* "No healthy backends" is answered only after every backend was found    *)
(* dead during the scan that gave up (or for a url that does not fit):     *)
(* however many tasks scan, mark and revive meanwhile.                     *)
(***************************************************************************)
THEOREM NoHealthyAnswersAreHonest == Spec => []NoHealthyIsHonest
<1>1. ScanInv => NoHealthyIsHonest
  BY DEF ScanInv
<1> QED
  BY <1>1, ScanInvariant, PTL

-----------------------------------------------------------------------------
(***************************************************************************)
(* The balancing                                                           *)
(***************************************************************************)

\* Only a returning pass of its own scan takes a task from scan to connect.
LEMMA OnlyReturnSelects ==
  ASSUME TypeOK, [Next]_vars, NEW r \in Requests, pc[r] = "scan", pc'[r] = "connect"
  PROVE  scanned[r] < N /\ Return(r, Cursor(r))
<1>1. ASSUME NEW q \in Requests, Arrive(q) \/ BeginScan(q) PROVE FALSE
  BY <1>1 DEF Arrive, BeginScan, TypeOK
<1>2. ASSUME NEW q \in Requests, ScanAlive(q) \/ ScanRevive(q)
      PROVE  scanned[r] < N /\ Return(r, Cursor(r))
  <2>1. scanned[q] < N /\ Return(q, Cursor(q))
    BY <1>2 DEF ScanAlive, ScanRevive, Passes
  <2>2. q = r
    BY <2>1 DEF Return, AnswerNoHealthy, TypeOK
  <2> QED
    BY <2>1, <2>2
<1>3. ASSUME NEW q \in Requests, ScanKeepDead(q) \/ ScanSkip(q) \/ ScanExhausted(q) PROVE FALSE
  BY <1>3 DEF ScanKeepDead, ScanSkip, PassOver, ScanExhausted, AnswerNoHealthy, TypeOK
<1>4. ASSUME NEW q \in Requests, Connect(q) \/ Exchange(q) PROVE FALSE
  BY <1>4 DEF Connect, RejectDestination, ConnectOpened, ConnectRefused, ConnectTimedOut,
              Attempting, AttemptFailed, MarkDead, MarkAlive, Exchange, TypeOK
<1>5. ASSUME (\E b \in Backends : ChangeStatus(b)) \/ Tick \/ ClockStepsBack \/ UNCHANGED vars PROVE FALSE
  BY <1>5 DEF ChangeStatus, Tick, ClockStepsBack, vars, task_vars
<1> QED
  BY <1>1, <1>2, <1>3, <1>4, <1>5 DEF Next, Select, Scan

(***************************************************************************)
(* A backend is passed over only when the scan that passes over it found   *)
(* it dead: neither concurrent requests nor revivals make round robin lose *)
(* a turn, or send an ip_hash client away from a backend that is alive.    *)
(***************************************************************************)
THEOREM BackendsPickedInTurn == Spec => InTurn
<1>1. ASSUME ScanInv, [Next]_vars PROVE PicksInTurn
  <2> SUFFICES ASSUME NEW r \in Requests, pc[r] = "scan", pc'[r] = "connect",
                      config.long_urls = {}, NEW b \in Backends,
                      Ahead(ScanStart(r), b) < Ahead(ScanStart(r), backend'[r])
               PROVE  b \in seen[r]
    BY DEF PicksInTurn
  <2> USE <1>1 DEF ScanInv
  <2>1. scanned[r] < N /\ Return(r, Cursor(r))
    BY OnlyReturnSelects
  <2>2. backend'[r] = Cursor(r)
    BY <2>1 DEF Return, AnswerNoHealthy, TypeOK
  <2>3. ScanStart(r) \in Backends /\ Cursor(r) \in Backends
    BY NextIndexType DEF TypeOK, ScanStart, Cursor
  <2>4. Ahead(ScanStart(r), Cursor(r)) = scanned[r]
    BY <2>1, ConstantsAssumption DEF ScanCountsPasses, TypeOK
  <2>5. Ahead(Cursor(r), b) >= N - scanned[r]
    BY <2>2, <2>3, <2>4, AheadBehind
  <2> QED
    BY <2>5 DEF ScanSawWhatItPassed
<1>2. ScanInv /\ [Next]_vars => [PicksInTurn]_vars
  BY <1>1
<1> QED
  BY <1>2, ScanInvariant, PTL DEF Spec, InTurn

-----------------------------------------------------------------------------
(***************************************************************************)
(* Every retry a backend ever had is still there when it is dead: the      *)
(* countdown of retries_left never gets anywhere, for any lb_retries.      *)
(***************************************************************************)
THEOREM RetriesAreNeverSpent == Spec => []RetriesNeverSpent
<1> USE DEF RetriesNeverSpent, TypeOK
<1>1. Init => RetriesNeverSpent
  BY DEF Init
<1>2. ASSUME TypeOK, RetriesNeverSpent, [Next]_vars
      PROVE  RetriesNeverSpent'
  <2> USE <1>2
  <2>1. ASSUME UNCHANGED <<config, dead, retries_left>> PROVE RetriesNeverSpent'
    BY <2>1
  <2>2. ASSUME NEW r \in Requests, Arrive(r) \/ BeginScan(r) \/ Exchange(r)
        PROVE  RetriesNeverSpent'
    BY <2>1, <2>2 DEF Arrive, BeginScan, Exchange, health
  <2>3. ASSUME NEW r \in Requests, ScanRevive(r) PROVE RetriesNeverSpent'
    BY <2>3 DEF ScanRevive, Return, AnswerNoHealthy
  <2>4. ASSUME NEW r \in Requests,
               ScanAlive(r) \/ ScanKeepDead(r) \/ ScanSkip(r) \/ ScanExhausted(r)
        PROVE  RetriesNeverSpent'
    BY <2>1, <2>4 DEF ScanAlive, ScanKeepDead, ScanSkip, ScanExhausted, Return, PassOver,
                      AnswerNoHealthy, health
  <2>5. ASSUME NEW r \in Requests, RejectDestination(r) \/ ConnectOpened(r)
                 \/ ConnectRefused(r) \/ ConnectTimedOut(r)
        PROVE  RetriesNeverSpent'
    BY <2>1, <2>5 DEF RejectDestination, ConnectOpened, ConnectRefused, ConnectTimedOut,
                      AttemptFailed, health
  <2>6. ASSUME NEW r \in Requests, MarkDead(r) PROVE RetriesNeverSpent'
    BY <2>6 DEF MarkDead, FreshRetries
  <2>7. ASSUME NEW r \in Requests, MarkAlive(r) PROVE RetriesNeverSpent'
    BY <2>7 DEF MarkAlive
  <2>8. ASSUME (\E b \in Backends : ChangeStatus(b)) \/ Tick \/ ClockStepsBack \/ UNCHANGED vars
        PROVE  RetriesNeverSpent'
    BY <2>1, <2>8 DEF ChangeStatus, Tick, ClockStepsBack, vars, health
  <2> QED
    BY <2>2, <2>3, <2>4, <2>5, <2>6, <2>7, <2>8 DEF Next, Select, Scan, Connect
<1> QED
  BY <1>1, <1>2, TypeCorrect, PTL DEF Spec

-----------------------------------------------------------------------------
(***************************************************************************)
(* A url that does not fit                                                 *)
(***************************************************************************)

\* A step that takes nobody to connect or opened and marks nobody dead.
LEMMA LongQuietStep ==
  ASSUME LongUrlsAreNeverTried, config' = config, dead' \subseteq dead,
         \A r \in Requests : pc'[r] \in {"connect", "opened"} =>
            pc[r] \in {"connect", "opened"} /\ backend'[r] = backend[r]
  PROVE  LongUrlsAreNeverTried'
BY DEF LongUrlsAreNeverTried

LEMMA LongReturnStep ==
  ASSUME TypeOK, LongUrlsAreNeverTried, dead' \subseteq dead,
         NEW r \in Requests, NEW b \in Backends, Return(r, b)
  PROVE  LongUrlsAreNeverTried'
<1> USE DEF TypeOK
<1>1. CASE TooLong(b)
  BY <1>1, LongQuietStep DEF Return, AnswerNoHealthy, TooLong
<1>2. CASE ~TooLong(b)
  <2>1. config' = config /\ pc' = [pc EXCEPT ![r] = "connect"] /\ backend' = [backend EXCEPT ![r] = b]
    BY <1>2 DEF Return
  <2>2. b \notin config.long_urls
    BY <1>2 DEF TooLong
  <2> QED
    BY <2>1, <2>2 DEF LongUrlsAreNeverTried
<1> QED
  BY <1>1, <1>2

LEMMA LongStep ==
  ASSUME TypeOK, TypeOK', LongUrlsAreNeverTried, [Next]_vars
  PROVE  LongUrlsAreNeverTried'
<1>0. \A r \in Requests : Cursor(r) \in Backends
  BY DEF Cursor, TypeOK
<1>1. ASSUME NEW r \in Requests, Arrive(r) \/ BeginScan(r) \/ Exchange(r) PROVE LongUrlsAreNeverTried'
  <2>1. config' = config /\ dead' = dead /\ backend' = backend
    BY <1>1 DEF Arrive, BeginScan, Exchange, health
  <2>2. \A q \in Requests : pc'[q] \in {"connect", "opened"} => pc[q] \in {"connect", "opened"}
    BY <1>1 DEF Arrive, BeginScan, Exchange, TypeOK
  <2> QED
    BY <2>1, <2>2, LongQuietStep
<1>2. ASSUME NEW r \in Requests, ScanAlive(r) PROVE LongUrlsAreNeverTried'
  BY <1>0, <1>2, LongReturnStep DEF ScanAlive, health
<1>3. ASSUME NEW r \in Requests, ScanRevive(r) PROVE LongUrlsAreNeverTried'
  BY <1>0, <1>3, LongReturnStep DEF ScanRevive
<1>4. ASSUME NEW r \in Requests, ScanKeepDead(r) \/ ScanSkip(r) PROVE LongUrlsAreNeverTried'
  BY <1>4, LongQuietStep DEF ScanKeepDead, ScanSkip, PassOver, health
<1>5. ASSUME NEW r \in Requests, ScanExhausted(r) PROVE LongUrlsAreNeverTried'
  BY <1>5, LongQuietStep DEF ScanExhausted, AnswerNoHealthy, health, TypeOK
<1>6. ASSUME NEW r \in Requests, RejectDestination(r) PROVE LongUrlsAreNeverTried'
  BY <1>6, LongQuietStep DEF RejectDestination, DropBackend, health, TypeOK
<1>7. ASSUME NEW r \in Requests, ConnectOpened(r) PROVE LongUrlsAreNeverTried'
  BY <1>7, LongQuietStep DEF ConnectOpened, Attempting, health, TypeOK
<1>8. ASSUME NEW r \in Requests, ConnectRefused(r) \/ ConnectTimedOut(r) PROVE LongUrlsAreNeverTried'
  BY <1>8, LongQuietStep DEF ConnectRefused, ConnectTimedOut, AttemptFailed, health
<1>9. ASSUME NEW r \in Requests, MarkDead(r) PROVE LongUrlsAreNeverTried'
  <2>1. backend[r] \notin config.long_urls
    BY <1>9 DEF MarkDead, LongUrlsAreNeverTried
  <2>2. config' = config /\ dead' = dead \cup {backend[r]}
    BY <1>9 DEF MarkDead
  <2>3. \A q \in Requests : pc'[q] \in {"connect", "opened"} =>
           pc[q] \in {"connect", "opened"} /\ backend'[q] = backend[q]
    BY <1>9 DEF MarkDead, DropBackend, TypeOK
  <2> QED
    BY <2>1, <2>2, <2>3 DEF LongUrlsAreNeverTried
<1>10. ASSUME NEW r \in Requests, MarkAlive(r) PROVE LongUrlsAreNeverTried'
  BY <1>10, LongQuietStep DEF MarkAlive, DropBackend, TypeOK
<1>11. ASSUME (\E b \in Backends : ChangeStatus(b)) \/ Tick \/ ClockStepsBack \/ UNCHANGED vars
       PROVE  LongUrlsAreNeverTried'
  BY <1>11, LongQuietStep DEF ChangeStatus, Tick, ClockStepsBack, vars, task_vars, health
<1> QED
  BY <1>1, <1>2, <1>3, <1>4, <1>5, <1>6, <1>7, <1>8, <1>9, <1>10, <1>11
     DEF Next, Select, Scan, Connect

\* Who is at such a backend goes nowhere, whoever takes the step.
LEMMA StuckStep ==
  ASSUME TypeOK, LongUrlsAreNeverTried, [Next]_vars,
         RoundRobin, current_backend \in config.long_urls
  PROVE  UNCHANGED current_backend /\ \A r \in Requests : pc[r] = "scan" => pc'[r] # "connect"
<1> DEFINE Stuck == UNCHANGED current_backend
                      /\ \A r \in Requests : pc[r] = "scan" => pc'[r] # "connect"
<1>0. \A r \in Requests : Cursor(r) = current_backend
  BY DEF Cursor
<1>1. current_backend \notin dead
  BY DEF LongUrlsAreNeverTried
<1>2. ASSUME NEW r \in Requests, ScanAlive(r) PROVE Stuck
  <2>1. AnswerNoHealthy(r)
    BY <1>0, <1>2 DEF ScanAlive, Return, TooLong
  <2> QED
    BY <2>1 DEF AnswerNoHealthy, TypeOK
<1>3. ASSUME NEW r \in Requests, ScanRevive(r) \/ ScanKeepDead(r) \/ ScanSkip(r) PROVE FALSE
  BY <1>0, <1>1, <1>3 DEF ScanRevive, ScanKeepDead, ScanSkip
<1>4. ASSUME NEW r \in Requests, ScanExhausted(r) PROVE Stuck
  BY <1>4 DEF ScanExhausted, AnswerNoHealthy, TypeOK
<1>5. ASSUME NEW r \in Requests, Arrive(r) \/ BeginScan(r) \/ Exchange(r) PROVE Stuck
  BY <1>5 DEF Arrive, BeginScan, Exchange, lb_vars, TypeOK
<1>6. ASSUME NEW r \in Requests, Connect(r) PROVE Stuck
  BY <1>6 DEF Connect, RejectDestination, ConnectOpened, ConnectRefused, ConnectTimedOut,
              Attempting, AttemptFailed, MarkDead, MarkAlive, lb_vars, TypeOK
<1>7. ASSUME (\E b \in Backends : ChangeStatus(b)) \/ Tick \/ ClockStepsBack \/ UNCHANGED vars PROVE Stuck
  BY <1>7 DEF ChangeStatus, Tick, ClockStepsBack, vars, lb_vars, task_vars
<1> QED
  BY <1>2, <1>3, <1>4, <1>5, <1>6, <1>7 DEF Next, Select, Scan

(***************************************************************************)
(* For any number of backends and requests: once round robin has come to a *)
(* url that does not fit, no request is ever sent to a backend again.      *)
(***************************************************************************)
THEOREM OneLongUrlStopsAll == Spec => LongUrlStopsAll
<1>1. Init => LongUrlsAreNeverTried
  BY DEF Init, LongUrlsAreNeverTried
<1>2. TypeOK /\ TypeOK' /\ LongUrlsAreNeverTried /\ [Next]_vars => LongUrlsAreNeverTried'
  BY LongStep
<1>3. TypeOK /\ LongUrlsAreNeverTried /\ [Next]_vars => [StuckAtLongUrl]_vars
  BY StuckStep DEF StuckAtLongUrl
<1> QED
  BY <1>1, <1>2, <1>3, TypeCorrect, PTL DEF Spec, LongUrlStopsAll
=============================================================================
