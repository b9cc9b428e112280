------------------------------ MODULE DevicesProofs ------------------------------
(**************************************************************************)
(* Proofs about what the server keeps of each device: its tree engine,    *)
(* the session, warm-up and launches that End session takes apart, and    *)
(* the delivery of its frames, for any number of callers, engines,        *)
(* warm-ups and ended sessions, any viewers, any buffer of at least two   *)
(* frames and any length of stream.                                       *)
(**************************************************************************)
EXTENDS Engines, DeviceSession, VideoDelivery, TLAPS

-----------------------------------------------------------------------------
(* Engines: that the cached engines are those that run needs, to stay    *)
(* true, that engines are numbered as they are started and that a caller *)
(* evicts only after its call failed.                                    *)

(* Engines are started in the order of their numbers.                      *)
Numbered == \A e \in Engine : e > last => state[e] = "unborn"

(* A caller is about to evict only after its call failed.                  *)
EvictFollowsFailure == \A c \in Caller : callers[c] = "evict" => outcome[c] = "failed"

CacheIInv == CacheTypeOK /\ Numbered /\ EvictFollowsFailure /\ CacheIsRunning

(* The invariant holds initially.                                          *)
LEMMA CacheInitInv == CacheInit => CacheIInv
  BY MaxEngineAssumption DEF CacheInit, CacheIInv, CacheTypeOK, Numbered, EvictFollowsFailure,
     CacheIsRunning, Engine, EngineState, Control, Outcome, NoEngine, Runs

(* The actions of callers that leave the cache alone.                      *)
CallerOnly(c) ==
  \/ \E d \in Device, op \in {"warm", "engine"} : Ask(c, d, op)
  \/ Cached(c) \/ StartFails(c) \/ Answered(c) \/ Cancelled(c) \/ Failed(c)
  \/ EvictNothing(c)

(* A step that leaves the cache alone leaves the facts about it alone.     *)
LEMMA CacheUnchanged ==
  ASSUME Numbered, CacheIsRunning, UNCHANGED cache
  PROVE  Numbered' /\ CacheIsRunning'
  BY DEF Numbered, CacheIsRunning, cache, Runs, Engine

(* A caller's own step keeps the types and evicts only after a failure.    *)
LEMMA CallerOnlyStep ==
  ASSUME CacheIInv, NEW c \in Caller, CallerOnly(c)
  PROVE  CacheTypeOK' /\ EvictFollowsFailure' /\ UNCHANGED cache
<1> USE MaxEngineAssumption
        DEF CacheIInv, CacheTypeOK, EvictFollowsFailure, Engine, Control, Outcome, NoEngine, cache
<1>1. ASSUME NEW d \in Device, NEW op \in {"warm", "engine"}, Ask(c, d, op)
      PROVE  CacheTypeOK' /\ EvictFollowsFailure' /\ UNCHANGED cache
  BY <1>1 DEF Ask
<1>2. CASE Cached(c)
  BY <1>2 DEF Cached, Lookup, After
<1>3. CASE StartFails(c)
  BY <1>3 DEF StartFails, Lookup
<1>4. CASE Answered(c)
  BY <1>4 DEF Answered
<1>5. CASE Cancelled(c)
  BY <1>5 DEF Cancelled
<1>6. CASE Failed(c)
  BY <1>6 DEF Failed
<1>7. CASE EvictNothing(c)
  BY <1>7 DEF EvictNothing
<1> QED
  BY <1>1, <1>2, <1>3, <1>4, <1>5, <1>6, <1>7 DEF CallerOnly

(* A start takes the next number, which no device has cached.              *)
LEMMA StartStep ==
  ASSUME CacheIInv, NEW c \in Caller, Start(c)
  PROVE  CacheIInv'
<1> DEFINE new == last + 1
           d == dev[c]
<1>1. new \in Engine /\ d \in Device /\ last \in Nat /\ new # NoEngine
  BY MaxEngineAssumption DEF CacheIInv, CacheTypeOK, Start, Engine, NoEngine
<1>2. state[new] = "unborn" /\ engines[d] = NoEngine
  BY <1>1 DEF CacheIInv, Numbered, Start
<1>3. \A x \in Device : engines[x] # new
  BY <1>1, <1>2 DEF CacheIInv, CacheIsRunning, Runs
<1>4. CacheTypeOK'
  BY <1>1, MaxEngineAssumption
     DEF CacheIInv, CacheTypeOK, Start, Lookup, After, Engine, EngineState, Control, NoEngine
<1>5. Numbered'
  BY <1>1 DEF CacheIInv, CacheTypeOK, Numbered, Start, Engine
<1>6. EvictFollowsFailure'
  BY DEF CacheIInv, CacheTypeOK, EvictFollowsFailure, Start, Lookup, After
<1>7. CacheIsRunning'
  <2>1. /\ engines' = [engines EXCEPT ![d] = new]
        /\ state' = [state EXCEPT ![new] = "up"]
        /\ home' = [home EXCEPT ![new] = d]
    BY DEF Start
  <2>2. ASSUME NEW e \in Engine, Runs(e)'
        PROVE  (engines[home[e]] = e)'
    <3>1. CASE e = new
      BY <1>1, <2>1, <3>1 DEF CacheIInv, CacheTypeOK
    <3>2. CASE e # new
      <4>1. Runs(e) /\ home'[e] = home[e] /\ home[e] \in Device
        BY <2>1, <2>2, <3>2 DEF Runs, CacheIInv, CacheTypeOK
      <4>2. engines[home[e]] = e
        BY <4>1 DEF CacheIInv, CacheIsRunning
      <4>3. home[e] # d
        BY <1>2, <4>2 DEF Engine, NoEngine
      <4> QED
        BY <2>1, <4>1, <4>2, <4>3 DEF CacheIInv, CacheTypeOK
    <3> QED
      BY <3>1, <3>2
  <2>3. ASSUME NEW x \in Device, engines'[x] # NoEngine
        PROVE  (Runs(engines[x]) /\ home[engines[x]] = x)'
    <3>1. CASE x = d
      BY <1>1, <2>1, <3>1 DEF CacheIInv, CacheTypeOK, Runs
    <3>2. CASE x # d
      <4>1. engines'[x] = engines[x] /\ engines[x] # new
        BY <1>3, <2>1, <3>2 DEF CacheIInv, CacheTypeOK
      <4>2. Runs(engines[x]) /\ home[engines[x]] = x
        BY <2>3, <4>1 DEF CacheIInv, CacheIsRunning
      <4> QED
        BY <2>1, <4>1, <4>2 DEF CacheIInv, CacheTypeOK, Runs, Engine
    <3> QED
      BY <3>1, <3>2
  <2> QED
    BY <2>2, <2>3 DEF CacheIsRunning
<1> QED
  BY <1>4, <1>5, <1>6, <1>7 DEF CacheIInv

(* Taking one device's engine out of the cache as it is stopped.           *)
LEMMA StopOne ==
  ASSUME CacheIInv, NEW d \in Device, engines[d] # NoEngine,
         engines' = [engines EXCEPT ![d] = NoEngine],
         state' = [state EXCEPT ![engines[d]] = "stopped"],
         UNCHANGED <<home, last>>
  PROVE  /\ engines' \in [Device -> 0..MaxEngine]
         /\ state' \in [Engine -> EngineState]
         /\ Numbered' /\ CacheIsRunning'
<1>1. engines[d] \in Engine /\ Runs(engines[d]) /\ home[engines[d]] = d
  BY MaxEngineAssumption DEF CacheIInv, CacheTypeOK, CacheIsRunning, Engine, NoEngine
<1>2. engines' \in [Device -> 0..MaxEngine] /\ state' \in [Engine -> EngineState]
  BY <1>1, MaxEngineAssumption DEF CacheIInv, CacheTypeOK, EngineState, NoEngine
<1>3. Numbered'
  BY <1>1 DEF CacheIInv, CacheTypeOK, Numbered, Runs
<1>4. ASSUME NEW e \in Engine, Runs(e)'
      PROVE  (engines[home[e]] = e)'
  <2>1. e # engines[d] /\ Runs(e)
    BY <1>4 DEF Runs, CacheIInv, CacheTypeOK
  <2>2. engines[home[e]] = e /\ home[e] \in Device
    BY <2>1 DEF CacheIInv, CacheTypeOK, CacheIsRunning
  <2> QED
    BY <2>1, <2>2 DEF CacheIInv, CacheTypeOK
<1>5. ASSUME NEW x \in Device, engines'[x] # NoEngine
      PROVE  (Runs(engines[x]) /\ home[engines[x]] = x)'
  <2>1. x # d /\ engines'[x] = engines[x]
    BY <1>5 DEF CacheIInv, CacheTypeOK, NoEngine
  <2>2. Runs(engines[x]) /\ home[engines[x]] = x
    BY <1>5, <2>1 DEF CacheIInv, CacheIsRunning
  <2>3. engines[x] # engines[d]
    BY <1>1, <2>1, <2>2
  <2> QED
    BY <2>1, <2>2, <2>3 DEF CacheIInv, CacheTypeOK, Runs, Engine
<1> QED
  BY <1>2, <1>3, <1>4, <1>5 DEF CacheIsRunning

(* An eviction stops the engine the caller still finds in the cache.       *)
LEMMA EvictStep ==
  ASSUME CacheIInv, NEW c \in Caller, EvictFailed(c)
  PROVE  CacheIInv'
<1> DEFINE e == dev[c]
<1>1. e \in Device /\ engines[e] # NoEngine
  BY DEF CacheIInv, CacheTypeOK, EvictFailed, Replaced, NoEngine
<1>2. /\ engines' = [engines EXCEPT ![e] = NoEngine]
      /\ state' = [state EXCEPT ![engines[e]] = "stopped"]
      /\ UNCHANGED <<home, last>>
  BY DEF EvictFailed
<1>3. /\ engines' \in [Device -> 0..MaxEngine]
      /\ state' \in [Engine -> EngineState]
      /\ Numbered' /\ CacheIsRunning'
  BY <1>1, <1>2, StopOne
<1>4. CacheTypeOK' /\ EvictFollowsFailure'
  BY <1>3 DEF CacheIInv, CacheTypeOK, EvictFollowsFailure, EvictFailed, Control
<1> QED
  BY <1>3, <1>4 DEF CacheIInv

(* The end of a device's session stops that device's engine alone.         *)
LEMMA StopStep ==
  ASSUME CacheIInv, NEW d \in Device, Stop(d)
  PROVE  CacheIInv'
<1>1. /\ engines' \in [Device -> 0..MaxEngine]
      /\ state' \in [Engine -> EngineState]
      /\ Numbered' /\ CacheIsRunning'
  BY StopOne DEF Stop
<1> QED
  BY <1>1 DEF CacheIInv, CacheTypeOK, EvictFollowsFailure, Stop

(* StopAll empties the cache, and whatever was cached no longer runs here. *)
LEMMA StopAllStep ==
  ASSUME CacheIInv, NEW releasable \in SUBSET Device, StopAll(releasable)
  PROVE  CacheIInv'
<1>1. CacheTypeOK' /\ EvictFollowsFailure'
  BY MaxEngineAssumption
     DEF CacheIInv, CacheTypeOK, EvictFollowsFailure, StopAll, EngineState, NoEngine
<1>2. ASSUME NEW e \in Engine, e > last
      PROVE  state'[e] = "unborn"
  <2>1. state[e] = "unborn"
    BY <1>2 DEF CacheIInv, Numbered
  <2>2. e # NoEngine
    BY DEF Engine, NoEngine
  <2>3. \A d \in Device : engines[d] # e
    BY <2>1, <2>2 DEF CacheIInv, CacheIsRunning, Runs
  <2> QED
    BY <2>1, <2>3 DEF StopAll
<1>3. \A e \in Engine : ~Runs(e)'
  BY DEF CacheIInv, CacheTypeOK, CacheIsRunning, StopAll, Runs
<1>4. \A d \in Device : engines'[d] = NoEngine
  BY DEF StopAll
<1> QED
  BY <1>1, <1>2, <1>3, <1>4 DEF CacheIInv, CacheIsRunning, Numbered, StopAll

(* A dead engine is still the one in the cache.                            *)
LEMMA DieStep ==
  ASSUME CacheIInv, NEW e \in Engine, Die(e)
  PROVE  CacheIInv'
<1>1. CacheTypeOK' /\ EvictFollowsFailure' /\ Numbered'
  BY DEF CacheIInv, CacheTypeOK, EvictFollowsFailure, Numbered, Die, EngineState
<1>2. \A x \in Engine : Runs(x)' <=> Runs(x)
  BY DEF CacheIInv, CacheTypeOK, Die, Runs
<1>3. \A d \in Device : engines[d] # NoEngine => engines[d] \in Engine
  BY MaxEngineAssumption DEF CacheIInv, CacheTypeOK, Engine, NoEngine
<1>4. CacheIsRunning'
  BY <1>2, <1>3 DEF CacheIInv, CacheIsRunning, Die, Runs
<1> QED
  BY <1>1, <1>4 DEF CacheIInv

(* The invariant is inductive.                                             *)
LEMMA CacheStepInv == CacheIInv /\ [CacheNext]_cacheVars => CacheIInv'
<1> SUFFICES ASSUME CacheIInv, [CacheNext]_cacheVars PROVE CacheIInv'
  OBVIOUS
<1>1. ASSUME NEW c \in Caller, CallerOnly(c) PROVE CacheIInv'
  BY <1>1, CallerOnlyStep, CacheUnchanged DEF CacheIInv
<1>2. ASSUME NEW c \in Caller, Start(c) PROVE CacheIInv'
  BY <1>2, StartStep
<1>3. ASSUME NEW c \in Caller, EvictFailed(c) PROVE CacheIInv'
  BY <1>3, EvictStep
<1>4. ASSUME NEW d \in Device, Stop(d) PROVE CacheIInv'
  BY <1>4, StopStep
<1>5. ASSUME NEW r \in SUBSET Device, StopAll(r) PROVE CacheIInv'
  BY <1>5, StopAllStep
<1>6. ASSUME NEW e \in Engine, Die(e) PROVE CacheIInv'
  BY <1>6, DieStep
<1>7. CASE UNCHANGED cacheVars
  BY <1>7 DEF cacheVars, CacheIInv, CacheTypeOK, Numbered, EvictFollowsFailure, CacheIsRunning, Runs, Engine
<1> QED
  BY <1>1, <1>2, <1>3, <1>4, <1>5, <1>6, <1>7 DEF CacheNext, CallerOnly

(* The strengthened invariant holds in every reachable state.              *)
THEOREM CacheInvariant == CacheSpec => []CacheIInv
  BY CacheInitInv, CacheStepInv, PTL DEF CacheSpec

(* Every variable keeps its range, and no caller is ever handed a nil      *)
(* engine by engine().                                                     *)
THEOREM CacheTypeCorrect == CacheSpec => []CacheTypeOK
<1>1. CacheIInv => CacheTypeOK
  BY DEF CacheIInv
<1> QED
  BY <1>1, CacheInvariant, PTL

(* No device ever has two engines and none is leaked: the started engines  *)
(* that were not shut down are exactly the cached ones (Engines.engine,    *)
(* evict, Stop, StopAll).                                                  *)
THEOREM OneEnginePerDevice == CacheSpec => []CacheIsRunning
<1>1. CacheIInv => CacheIsRunning
  BY DEF CacheIInv
<1> QED
  BY <1>1, CacheInvariant, PTL

(* What a step of a caller stops is the engine that failed that caller.    *)
LEMMA EvictsOwnStep ==
  ASSUME CacheIInv, [CacheNext]_cacheVars
  PROVE  [\A e \in Engine :
            Runs(e) /\ state'[e] = "stopped" /\ callers' # callers =>
              \E c \in Caller : callers[c] = "evict" /\ using[c] = e /\ outcome[c] = "failed"]_cacheVars
<1> SUFFICES ASSUME NEW e \in Engine, Runs(e), state'[e] = "stopped", callers' # callers
             PROVE  \E c \in Caller : callers[c] = "evict" /\ using[c] = e /\ outcome[c] = "failed"
  OBVIOUS
<1>1. ASSUME NEW c \in Caller, CallerOnly(c) PROVE FALSE
  BY <1>1, CallerOnlyStep DEF cache, Runs
<1>2. ASSUME NEW c \in Caller, Start(c) PROVE FALSE
  BY <1>2 DEF Start, CacheIInv, CacheTypeOK, Runs
<1>3. ASSUME NEW c \in Caller, EvictFailed(c)
      PROVE  callers[c] = "evict" /\ using[c] = e /\ outcome[c] = "failed"
  BY <1>3 DEF EvictFailed, Replaced, CacheIInv, CacheTypeOK, EvictFollowsFailure, Runs
<1>4. callers' = callers \/ \E c \in Caller : CallerOnly(c) \/ Start(c) \/ EvictFailed(c)
  BY DEF CacheNext, CallerOnly, Stop, StopAll, Die, cacheVars
<1> QED
  BY <1>1, <1>2, <1>3, <1>4

(* No caller tears down another caller's engine: a straggler that still    *)
(* holds a replaced engine stops nothing (evict's identity check).         *)
THEOREM RecoveryHarmsNobody == CacheSpec => EvictsOnlyItsOwn
<1>1. CacheSpec => [][CacheIInv /\ [CacheNext]_cacheVars]_cacheVars
  BY CacheInvariant, PTL DEF CacheSpec
<1>2. CacheIInv /\ [CacheNext]_cacheVars =>
        [\A e \in Engine :
            Runs(e) /\ state'[e] = "stopped" /\ callers' # callers =>
              \E c \in Caller : callers[c] = "evict" /\ using[c] = e /\ outcome[c] = "failed"]_cacheVars
  BY EvictsOwnStep
<1> QED
  BY <1>1, <1>2, PTL DEF EvictsOnlyItsOwn

-----------------------------------------------------------------------------
(* DeviceSession: what an End session has cleared stays cleared as long  *)
(* as nobody begins anew; the invariants follow each End session by the  *)
(* step it is at.                                                        *)

(* The steps of End session, one by one.                                   *)
LEMMA Steps ==
  /\ Len(EndSteps) = 8
  /\ EndSteps[1] = "recording" /\ EndSteps[2] = "driver"
  /\ EndSteps[3] = "launches" /\ EndSteps[4] = "warmup"
  /\ EndSteps[5] = "engine" /\ EndSteps[6] = "video"
  /\ EndSteps[7] = "sidecar" /\ EndSteps[8] = "power"
BY DEF EndSteps

(* An End session that is not at its last step has a next one.             *)
LEMMA NotLast ==
  ASSUME TypeOK, NEW e \in Ender,
         Step(e) \in Kind \cup {"launches", "warmup"}
  PROVE  endAt[e] \in 1..7 /\ endAt[e] + 1 \in 0..Len(EndSteps)
<1>1. endAt[e] \in 0..8  BY Steps DEF TypeOK
<1>2. endAt[e] # 0  BY DEF Step, Kind
<1>3. endAt[e] # 8
  <2>1. EndSteps[8] \notin Kind \cup {"launches", "warmup"}  BY Steps DEF Kind
  <2> QED  BY <2>1, <1>2 DEF Step
<1> QED  BY <1>1, <1>2, <1>3, Steps

-----------------------------------------------------------------------------
LEMMA TypeInit == Init => TypeOK
<1> SUFFICES ASSUME Init PROVE TypeOK  OBVIOUS
<1>1. power \in BOOLEAN  BY DEF Init
<1>2. made \in 0..MaxMade /\ made = 0 /\ held = [k \in Kind |-> 0]
  BY BoundAssumption DEF Init
<1>3. /\ launched \in BOOLEAN /\ status \in {"none", "starting", "ready", "failed"}
      /\ pc \in [Client -> {"idle", "recording", "launching"}]
  BY DEF Init
<1>4. /\ run \in [Run -> RunState] /\ warmed \in [Run -> Nat]
      /\ readyWith = 0 /\ ended = 0
      /\ \A r \in Run : warmed[r] = 0 /\ run[r] = "none"
  BY DEF Init, RunState
<1>5. /\ endAt \in [Ender -> 0..Len(EndSteps)] /\ before \in [Ender -> Nat]
      /\ \A e \in Ender : before[e] = 0
  BY Steps DEF Init
<1> QED  BY <1>1, <1>2, <1>3, <1>4, <1>5 DEF TypeOK

(* Starting a thing keeps the types of what is held.                       *)
LEMMA NewTyped ==
  ASSUME TypeOK, NEW k \in Kind, New(k)
  PROVE  /\ made' \in 0..MaxMade /\ made' = made + 1
         /\ held' \in [Kind -> Nat] /\ held'[k] = made'
         /\ \A j \in Kind : held'[j] <= made'
BY BoundAssumption DEF TypeOK, New

LEMMA TypeStep == TypeOK /\ [Next]_vars => TypeOK'
<1> SUFFICES ASSUME TypeOK, [Next]_vars PROVE TypeOK'  OBVIOUS
<1>1. CASE UNCHANGED vars
  BY <1>1 DEF TypeOK, vars, warm, ends
<1>2. CASE Boot
  BY <1>2 DEF TypeOK, Boot, warm, ends
<1>3. ASSUME NEW k \in Kind, New(k), UNCHANGED <<power, launched, warm, ends>>,
             pc' \in [Client -> {"idle", "recording", "launching"}]
      PROVE  TypeOK'
  <2>1. /\ made' \in 0..MaxMade /\ made' = made + 1
        /\ held' \in [Kind -> Nat] /\ \A j \in Kind : held'[j] <= made'
    BY <1>3, NewTyped
  <2> QED  BY <1>3, <2>1, BoundAssumption DEF TypeOK, warm, ends
<1>4. CASE Drive
  BY <1>4, <1>3 DEF Drive, Kind, TypeOK
<1>5. ASSUME NEW k \in Kind, Use(k) PROVE TypeOK'
  BY <1>5, <1>3 DEF Use, TypeOK
<1>6. ASSUME NEW k \in Kind, Gone(k) PROVE TypeOK'
  BY <1>6 DEF Gone, TypeOK, warm, ends
<1>7. ASSUME NEW c \in Client, RecordReads(c) \/ LaunchBegins(c) \/ LaunchFails(c) \/ LaunchAppeared(c)
      PROVE  TypeOK'
  BY <1>7 DEF RecordReads, LaunchBegins, LaunchFails, LaunchAppeared, TypeOK, warm, ends
<1>8. ASSUME NEW c \in Client, RecordStarts(c) PROVE TypeOK'
  <2>1. pc' \in [Client -> {"idle", "recording", "launching"}]
    BY <1>8 DEF RecordStarts, TypeOK
  <2>2. CASE held["recording"] = 0
    BY <1>8, <2>1, <2>2, <1>3 DEF RecordStarts, Kind
  <2>3. CASE held["recording"] # 0
    BY <1>8, <2>1, <2>3 DEF RecordStarts, TypeOK, warm, ends
  <2> QED  BY <2>2, <2>3
<1>9. ASSUME NEW r \in Run, WarmUp(r) \/ RunBooted(r) \/ RunTimesOut(r) \/ RunFails(r)
      PROVE  TypeOK'
  <2>1. run' \in [Run -> RunState] /\ warmed' = warmed /\ status' \in {"none", "starting", "ready", "failed"}
    BY <1>9 DEF WarmUp, RunBooted, RunTimesOut, RunFails, TypeOK, RunState
  <2>2. \A q \in Run : run'[q] = "warm" => run[q] = "warm"
    BY <1>9 DEF WarmUp, RunBooted, RunTimesOut, RunFails, TypeOK
  <2>3. readyWith' \in Nat /\ readyWith' <= made /\ UNCHANGED <<power, held, made, launched, pc, ends>>
    BY <1>9, BoundAssumption DEF WarmUp, RunBooted, RunTimesOut, RunFails, TypeOK
  <2> QED  BY <2>1, <2>2, <2>3 DEF TypeOK, ends
<1>10. ASSUME NEW r \in Run, RunWarms(r) PROVE TypeOK'
  <2> DEFINE handed == held'["engine"]
  <2>1. /\ made' \in 0..MaxMade /\ made' >= made
        /\ held' \in [Kind -> Nat] /\ \A k \in Kind : held'[k] <= made'
        /\ handed \in Nat /\ handed <= made' /\ handed # 0
    <3>1. CASE held["engine"] # 0
      <4>1. held' = held /\ made' = made  BY <1>10, <3>1 DEF RunWarms
      <4> QED  BY <4>1, <3>1, BoundAssumption DEF TypeOK, Kind
    <3>2. CASE held["engine"] = 0
      <4>1. New("engine") /\ "engine" \in Kind  BY <1>10, <3>2 DEF RunWarms, Kind
      <4> QED  BY <4>1, NewTyped, BoundAssumption DEF TypeOK
    <3> QED  BY <3>1, <3>2
  <2>2. /\ run' = [run EXCEPT ![r] = "warm"] /\ warmed' = [warmed EXCEPT ![r] = handed]
        /\ UNCHANGED <<power, launched, pc, status, readyWith, ends>>
    BY <1>10 DEF RunWarms
  <2>3. run' \in [Run -> RunState]
    BY <2>2 DEF TypeOK, RunState
  <2>4. warmed' \in [Run -> Nat] /\ \A q \in Run : warmed'[q] <= made'
    BY <2>1, <2>2, BoundAssumption DEF TypeOK
  <2>5. \A q \in Run : run'[q] = "warm" => warmed'[q] # 0
    BY <2>1, <2>2 DEF TypeOK
  <2>6. /\ readyWith' \in Nat /\ readyWith' <= made' /\ ended' \in 0..made'
        /\ before' \in [Ender -> Nat] /\ \A e \in Ender : before'[e] <= made'
    BY <2>1, <2>2, BoundAssumption DEF TypeOK, ends
  <2> QED  BY <2>1, <2>2, <2>3, <2>4, <2>5, <2>6 DEF TypeOK, ends
<1>11. ASSUME NEW r \in Run, RunRecords(r) PROVE TypeOK'
  <2>1. run' \in [Run -> RunState] /\ status' \in {"ready", "failed"} /\ readyWith' \in Nat /\ readyWith' <= made
    BY <1>11 DEF RunRecords, TypeOK, RunState
  <2>2. \A q \in Run : run'[q] = "warm" => run[q] = "warm"
    BY <1>11 DEF RunRecords, TypeOK
  <2> QED  BY <1>11, <2>1, <2>2 DEF RunRecords, TypeOK, ends
<1>12. ASSUME NEW e \in Ender, EndBegins(e) PROVE TypeOK'
  <2>1. endAt' \in [Ender -> 0..Len(EndSteps)]  BY <1>12, Steps DEF EndBegins, TypeOK
  <2>2. before' \in [Ender -> Nat] /\ \A f \in Ender : before'[f] <= made  BY <1>12, BoundAssumption DEF EndBegins, TypeOK
  <2> QED  BY <1>12, <2>1, <2>2 DEF EndBegins, TypeOK, warm
<1>13. ASSUME NEW e \in Ender, EndDrops(e) PROVE TypeOK'
  <2>1. endAt' \in [Ender -> 0..Len(EndSteps)]
    BY <1>13, NotLast DEF EndDrops, TypeOK
  <2>2. held' \in [Kind -> Nat] /\ (\A k \in Kind : held'[k] <= made) /\ ended' \in 0..made
    BY <1>13, BoundAssumption DEF EndDrops, TypeOK, Kind
  <2> QED  BY <1>13, <2>1, <2>2 DEF EndDrops, TypeOK, warm
<1>14. ASSUME NEW e \in Ender, EndForgetsLaunches(e) PROVE TypeOK'
  <2>1. endAt' \in [Ender -> 0..Len(EndSteps)]
    BY <1>14, NotLast DEF EndForgetsLaunches, TypeOK
  <2> QED  BY <1>14, <2>1 DEF EndForgetsLaunches, TypeOK, warm
<1>15. ASSUME NEW e \in Ender, EndForgetsWarmUp(e) PROVE TypeOK'
  <2>1. endAt' \in [Ender -> 0..Len(EndSteps)]
    BY <1>15, NotLast DEF EndForgetsWarmUp, TypeOK
  <2>2. readyWith' \in Nat /\ readyWith' <= made /\ status' \in {"none", "starting", "ready", "failed"}
    BY <1>15 DEF EndForgetsWarmUp, TypeOK
  <2> QED  BY <1>15, <2>1, <2>2 DEF EndForgetsWarmUp, TypeOK
<1>16. ASSUME NEW e \in Ender, EndPowersOff(e) PROVE TypeOK'
  <2>1. power' \in BOOLEAN  BY <1>16, Zenon DEF EndPowersOff, TypeOK
  <2>2. endAt' \in [Ender -> 0..Len(EndSteps)]  BY <1>16, Steps DEF EndPowersOff, TypeOK
  <2>3. UNCHANGED <<held, made, launched, pc, warm, before, ended>>  BY <1>16 DEF EndPowersOff
  <2> QED  BY <2>1, <2>2, <2>3 DEF TypeOK, warm
<1> QED
  BY <1>1, <1>2, <1>4, <1>5, <1>6, <1>7, <1>8, <1>9, <1>10, <1>11, <1>12, <1>13, <1>14, <1>15, <1>16 DEF Next

(* Every variable of the device's session stays in its range.              *)
THEOREM TypeCorrect == Spec => []TypeOK
<1>1. Init => TypeOK  BY TypeInit
<1>2. TypeOK /\ [Next]_vars => TypeOK'  BY TypeStep
<1> QED  BY <1>1, <1>2, PTL DEF Spec

-----------------------------------------------------------------------------
(* Whatever is not a warm-up's own record leaves the state it shows alone  *)
(* or drops it, and only a run's record ends that run.                     *)
LEMMA StartingStep == TypeOK /\ StartingIsRunning /\ [Next]_vars => StartingIsRunning'
<1> SUFFICES ASSUME TypeOK, StartingIsRunning, [Next]_vars, status' = "starting"
             PROVE  \E r \in Run : run'[r] \in {"waiting", "warming", "warm", "failed"}
  BY DEF StartingIsRunning
<1>1. ASSUME NEW r \in Run, WarmUp(r) PROVE run'[r] = "waiting"
  BY <1>1 DEF WarmUp, TypeOK
<1>2. ASSUME NEW r \in Run, RunBooted(r) \/ RunTimesOut(r) \/ RunWarms(r) \/ RunFails(r)
      PROVE  run'[r] \in {"warming", "warm", "failed"}
  BY <1>2 DEF RunBooted, RunTimesOut, RunWarms, RunFails, TypeOK
<1>3. ASSUME NEW r \in Run, RunRecords(r) PROVE FALSE
  BY <1>3 DEF RunRecords
<1>4. ASSUME UNCHANGED warm
      PROVE  \E r \in Run : run'[r] \in {"waiting", "warming", "warm", "failed"}
  BY <1>4 DEF StartingIsRunning, warm
<1>5. ASSUME NEW e \in Ender, EndForgetsWarmUp(e) PROVE FALSE
  BY <1>5 DEF EndForgetsWarmUp
<1>6. CASE UNCHANGED vars  BY <1>4, <1>6 DEF vars
<1>7. CASE Boot \/ Drive  BY <1>4, <1>7 DEF Boot, Drive
<1>8. ASSUME NEW k \in Kind, Use(k) \/ Gone(k) PROVE UNCHANGED warm
  BY <1>8 DEF Use, Gone
<1>9. ASSUME NEW c \in Client, RecordReads(c) \/ RecordStarts(c) \/ LaunchBegins(c) \/ LaunchFails(c) \/ LaunchAppeared(c)
      PROVE  UNCHANGED warm
  BY <1>9 DEF RecordReads, RecordStarts, LaunchBegins, LaunchFails, LaunchAppeared
<1>10. ASSUME NEW e \in Ender, EndBegins(e) \/ EndDrops(e) \/ EndForgetsLaunches(e) \/ EndPowersOff(e)
       PROVE  UNCHANGED warm
  BY <1>10 DEF EndBegins, EndDrops, EndForgetsLaunches, EndPowersOff
<1> QED
  BY <1>1, <1>2, <1>3, <1>4, <1>5, <1>6, <1>7, <1>8, <1>9, <1>10 DEF Next

(* The console is never left showing a start that nobody is making, for    *)
(* any number of overlapping warm-ups and ended sessions.                  *)
THEOREM NoPhantomStart == Spec => []StartingIsRunning
<1>1. Init => StartingIsRunning  BY DEF Init, StartingIsRunning
<1>2. TypeOK /\ StartingIsRunning /\ [Next]_vars => StartingIsRunning'  BY StartingStep
<1> QED  BY <1>1, <1>2, TypeCorrect, PTL DEF Spec

-----------------------------------------------------------------------------
(* A step that moves no End session on and only drops things, or starts    *)
(* them with new numbers, uncovers nothing an End session has cleared.     *)
LEMMA GonePreserved ==
  ASSUME TypeOK, EndedIsGone, UNCHANGED <<endAt, before>>,
         \A k \in Kind : held'[k] = held[k] \/ held'[k] = 0 \/ held'[k] = made + 1
  PROVE  EndedIsGone'
<1> SUFFICES ASSUME NEW e \in Ender, NEW i \in 1..Len(EndSteps), i < endAt[e], EndSteps[i] \in Kind
             PROVE  held'[EndSteps[i]] = 0 \/ held'[EndSteps[i]] > before[e]
  BY DEF EndedIsGone
<1> DEFINE k == EndSteps[i]
<1>0. held'[k] = held[k] \/ held'[k] = 0 \/ held'[k] = made + 1  OBVIOUS
<1>1. held[k] = 0 \/ held[k] > before[e]  BY DEF EndedIsGone
<1>2. before[e] \in Nat /\ before[e] <= made /\ made \in Nat  BY BoundAssumption DEF TypeOK
<1>3. CASE held'[k] = held[k] \/ held'[k] = 0  BY <1>1, <1>3
<1>4. CASE held'[k] = made + 1
  BY <1>2, <1>4
<1> QED  BY <1>0, <1>3, <1>4

(* One step of one End session: the steps it has been past are those it    *)
(* had been past and the one it took.                                      *)
LEMMA GoneAdvances ==
  ASSUME TypeOK, EndedIsGone, NEW f \in Ender,
         endAt[f] \in 1..7, endAt' = [endAt EXCEPT ![f] = @ + 1], before' = before,
         \A k \in Kind : held'[k] = held[k] \/ held'[k] = 0,
         Step(f) \in Kind => held'[Step(f)] = 0
  PROVE  EndedIsGone'
<1> SUFFICES ASSUME NEW e \in Ender, NEW i \in 1..Len(EndSteps), i < endAt'[e], EndSteps[i] \in Kind
             PROVE  held'[EndSteps[i]] = 0 \/ held'[EndSteps[i]] > before[e]
  BY DEF EndedIsGone
<1>1. endAt[e] \in Nat /\ i \in Nat  BY Steps DEF TypeOK
<1>2. CASE i < endAt[e]
  <2>1. held[EndSteps[i]] = 0 \/ held[EndSteps[i]] > before[e]  BY <1>2 DEF EndedIsGone
  <2> QED  BY <2>1
<1>3. CASE ~(i < endAt[e])
  <2>1. e = f /\ i = endAt[f]  BY <1>1, <1>3 DEF TypeOK
  <2>2. Step(f) = EndSteps[i]  BY <2>1 DEF Step
  <2> QED  BY <2>2
<1> QED  BY <1>2, <1>3

LEMMA GoneStep == TypeOK /\ EndedIsGone /\ [Next]_vars => EndedIsGone'
<1> SUFFICES ASSUME TypeOK, EndedIsGone, [Next]_vars PROVE EndedIsGone'  OBVIOUS
<1>1. ASSUME NEW k \in Kind, New(k)
      PROVE  \A j \in Kind : held'[j] = held[j] \/ held'[j] = 0 \/ held'[j] = made + 1
  BY <1>1 DEF New, TypeOK
<1>2. ASSUME UNCHANGED <<held, endAt, before>> PROVE EndedIsGone'
  BY <1>2, GonePreserved
<1>3. CASE UNCHANGED vars  BY <1>2, <1>3 DEF vars, ends
<1>4. CASE Boot  BY <1>2, <1>4 DEF Boot, ends
<1>5. CASE Drive
  <2>1. New("driver") /\ "driver" \in Kind /\ UNCHANGED <<endAt, before>>  BY <1>5 DEF Drive, Kind, ends
  <2> QED  BY <2>1, <1>1, GonePreserved
<1>6. ASSUME NEW k \in Kind, Use(k) PROVE EndedIsGone'
  <2>1. New(k) /\ UNCHANGED <<endAt, before>>  BY <1>6 DEF Use, ends
  <2> QED  BY <2>1, <1>1, GonePreserved
<1>7. ASSUME NEW k \in Kind, Gone(k) PROVE EndedIsGone'
  <2>1. UNCHANGED <<endAt, before>> /\ \A j \in Kind : held'[j] = held[j] \/ held'[j] = 0
    BY <1>7 DEF Gone, TypeOK, ends
  <2> QED  BY <2>1, GonePreserved
<1>8. ASSUME NEW c \in Client, RecordReads(c) \/ LaunchBegins(c) \/ LaunchFails(c) \/ LaunchAppeared(c)
      PROVE  EndedIsGone'
  BY <1>8, <1>2 DEF RecordReads, LaunchBegins, LaunchFails, LaunchAppeared, ends
<1>9. ASSUME NEW c \in Client, RecordStarts(c) PROVE EndedIsGone'
  <2>1. CASE held["recording"] = 0
    <3>1. New("recording") /\ "recording" \in Kind /\ UNCHANGED <<endAt, before>>
      BY <1>9, <2>1 DEF RecordStarts, Kind, ends
    <3> QED  BY <3>1, <1>1, GonePreserved
  <2>2. CASE held["recording"] # 0
    BY <1>9, <1>2, <2>2 DEF RecordStarts, ends
  <2> QED  BY <2>1, <2>2
<1>10. ASSUME NEW r \in Run, WarmUp(r) \/ RunBooted(r) \/ RunTimesOut(r) \/ RunFails(r) \/ RunRecords(r)
       PROVE  EndedIsGone'
  BY <1>10, <1>2 DEF WarmUp, RunBooted, RunTimesOut, RunFails, RunRecords, ends
<1>11. ASSUME NEW r \in Run, RunWarms(r) PROVE EndedIsGone'
  <2>1. UNCHANGED <<endAt, before>>  BY <1>11 DEF RunWarms, ends
  <2>2. CASE held["engine"] # 0
    BY <1>11, <1>2, <2>1, <2>2 DEF RunWarms
  <2>3. CASE held["engine"] = 0
    <3>1. New("engine") /\ "engine" \in Kind  BY <1>11, <2>3 DEF RunWarms, Kind
    <3> QED  BY <2>1, <3>1, <1>1, GonePreserved
  <2> QED  BY <2>2, <2>3
<1>12. ASSUME NEW e \in Ender, EndBegins(e) PROVE EndedIsGone'
  <2>1. held' = held /\ endAt'[e] = 1
        /\ \A f \in Ender \ {e} : endAt'[f] = endAt[f] /\ before'[f] = before[f]
    BY <1>12 DEF EndBegins, TypeOK
  <2>2. \A i \in 1..Len(EndSteps) : ~(i < 1)  BY Steps
  <2> QED  BY <2>1, <2>2 DEF EndedIsGone
<1>13. ASSUME NEW e \in Ender, EndDrops(e) PROVE EndedIsGone'
  <2>1. endAt[e] \in 1..7  BY <1>13, NotLast DEF EndDrops
  <2>2. /\ held'[Step(e)] = 0
        /\ \A k \in Kind : held'[k] = held[k] \/ held'[k] = 0
    BY <1>13 DEF EndDrops, TypeOK
  <2> QED  BY <1>13, <2>1, <2>2, GoneAdvances DEF EndDrops
<1>14. ASSUME NEW e \in Ender, EndForgetsLaunches(e) \/ EndForgetsWarmUp(e) PROVE EndedIsGone'
  <2>1. Step(e) \notin Kind /\ Step(e) \in {"launches", "warmup"}
    BY <1>14 DEF EndForgetsLaunches, EndForgetsWarmUp, Kind
  <2>2. endAt[e] \in 1..7  BY <2>1, NotLast
  <2> QED  BY <1>14, <2>1, <2>2, GoneAdvances DEF EndForgetsLaunches, EndForgetsWarmUp
<1>15. ASSUME NEW e \in Ender, EndPowersOff(e) PROVE EndedIsGone'
  <2>1. held' = held /\ before' = before /\ endAt'[e] = 0
        /\ \A f \in Ender \ {e} : endAt'[f] = endAt[f]
    BY <1>15 DEF EndPowersOff, TypeOK
  <2>2. \A i \in 1..Len(EndSteps) : ~(i < 0)  BY Steps
  <2> QED  BY <2>1, <2>2 DEF EndedIsGone
<1> QED
  BY <1>3, <1>4, <1>5, <1>6, <1>7, <1>8, <1>9, <1>10, <1>11, <1>12, <1>13, <1>14, <1>15 DEF Next

(* What End session has been past it has cleared of everything that was    *)
(* there when it began, for any number of clients and of End sessions at   *)
(* once.                                                                   *)
THEOREM SessionEnds == Spec => []EndedIsGone
<1>1. Init => EndedIsGone
  <2>1. ASSUME Init, NEW e \in Ender, NEW i \in 1..Len(EndSteps) PROVE ~(i < endAt[e])
    BY <2>1, Steps DEF Init
  <2> QED  BY <2>1 DEF EndedIsGone
<1>2. TypeOK /\ EndedIsGone /\ [Next]_vars => EndedIsGone'  BY GoneStep
<1> QED  BY <1>1, <1>2, TypeCorrect, PTL DEF Spec

-----------------------------------------------------------------------------
(* VideoDelivery: no viewer is ever sent a delta without the sample it    *)
(* refers to.  NoTearing alone is not inductive: that the next delta may  *)
(* go to a viewer that waits for no keyframe needs BehindOrCurrent, and   *)
(* that the next sample is later than all a viewer has needs NotAhead.    *)

(* No viewer has a sample that was not encoded yet.                           *)
UpTo(q, s, n) == s <= n /\ \A i \in 1..Len(q) : IsSample(q[i]) => q[i].n <= n
NotAhead == \A v \in joined : UpTo(queue[v], shown[v], encoded)

DeliveryIInv == DeliveryTypeOK /\ NotAhead /\ NoTearing /\ BehindOrCurrent

-----------------------------------------------------------------------------
(* Facts about one channel.                                                *)

(* Sample numbers are naturals.                                            *)
LEMMA DeliveryNumbers ==
  ASSUME NEW q \in Seq(Message)
  PROVE  \A i \in 1..Len(q) : q[i] \in Message /\ q[i].n \in Nat
<1>1. \A m \in Message : m.n \in Nat
  BY StreamAssumption DEF Message
<1>2. \A i \in 1..Len(q) : q[i] \in Message
  OBVIOUS
<1> QED
  BY <1>1, <1>2

(* A frame that is later than everything before it, and whose reference is *)
(* there if it is a delta, may be appended.                                *)
LEMMA AppendChained ==
  ASSUME NEW q \in Seq(Message), NEW s \in Nat, NEW m \in Message,
         Chained(q, s),
         IsSample(m) => m.n > s /\ \A i \in 1..Len(q) : IsSample(q[i]) => q[i].n < m.n,
         m.type = "delta" => InHand(q, s, m.n - 1)
  PROVE  Chained(Append(q, m), s)
<1> DEFINE r == Append(q, m)
<1>1. Len(r) = Len(q) + 1 /\ r[Len(q) + 1] = m /\ \A i \in 1..Len(q) : r[i] = q[i]
  OBVIOUS
<1>2. ASSUME NEW i \in 1..Len(r), IsSample(r[i])
      PROVE  /\ r[i].n > s
             /\ \A j \in 1..(i - 1) : IsSample(r[j]) => r[j].n < r[i].n
             /\ r[i].type = "delta" =>
                  \/ s # 0 /\ s = r[i].n - 1
                  \/ \E j \in 1..(i - 1) : IsSample(r[j]) /\ r[j].n = r[i].n - 1
  <2>1. CASE i = Len(q) + 1
    <3>1. r[i] = m /\ i - 1 = Len(q)
      BY <1>1, <2>1
    <3> QED
      BY <1>1, <1>2, <3>1 DEF InHand
  <2>2. CASE i # Len(q) + 1
    <3>1. i \in 1..Len(q) /\ r[i] = q[i] /\ \A j \in 1..(i - 1) : r[j] = q[j]
      BY <1>1, <2>2
    <3> QED
      BY <1>2, <3>1 DEF Chained
  <2> QED
    BY <2>1, <2>2
<1> QED
  BY <1>2 DEF Chained

(* Appending loses nothing.                                                *)
LEMMA AppendInHand ==
  ASSUME NEW q \in Seq(Message), NEW s \in Nat, NEW m \in Message, NEW n \in Nat,
         InHand(q, s, n) \/ (IsSample(m) /\ m.n = n)
  PROVE  InHand(Append(q, m), s, n)
<1>1. Len(Append(q, m)) = Len(q) + 1 /\ Append(q, m)[Len(q) + 1] = m
      /\ \A i \in 1..Len(q) : Append(q, m)[i] = q[i]
  OBVIOUS
<1> QED
  BY <1>1 DEF InHand

(* Appending a frame of the stream's present keeps the channel in the past. *)
LEMMA AppendUpTo ==
  ASSUME NEW q \in Seq(Message), NEW s \in Nat, NEW m \in Message, NEW n \in Nat,
         NEW k \in Nat, UpTo(q, s, n), n <= k, IsSample(m) => m.n <= k
  PROVE  UpTo(Append(q, m), s, k)
<1>1. Len(Append(q, m)) = Len(q) + 1 /\ Append(q, m)[Len(q) + 1] = m
      /\ \A i \in 1..Len(q) : Append(q, m)[i] = q[i]
  OBVIOUS
<1>2. \A i \in 1..Len(q) : q[i].n \in Nat
  BY DeliveryNumbers
<1>3. \A i \in 1..Len(q) : IsSample(q[i]) => q[i].n <= k
  BY <1>2 DEF UpTo
<1>4. ASSUME NEW i \in 1..Len(Append(q, m)), IsSample(Append(q, m)[i])
      PROVE  Append(q, m)[i].n <= k
  BY <1>1, <1>3, <1>4
<1> QED
  BY <1>4 DEF UpTo

(* The last sample taken, after the first message of q is taken.           *)
TakenSample(q, s) == IF IsSample(Head(q)) THEN Head(q).n ELSE s

(* Taking the first message of a channel.                                  *)
LEMMA TakeOne ==
  ASSUME NEW q \in Seq(Message), q # <<>>, NEW s \in Nat, NEW n \in Nat,
         Chained(q, s), UpTo(q, s, n)
  PROVE  /\ Chained(Tail(q), TakenSample(q, s))
         /\ UpTo(Tail(q), TakenSample(q, s), n)
         /\ InHand(q, s, n) => InHand(Tail(q), TakenSample(q, s), n)
<1> DEFINE t == Tail(q)
           s2 == TakenSample(q, s)
<1>1. /\ Len(q) \in Nat /\ Len(q) > 0 /\ Len(t) = Len(q) - 1
      /\ \A i \in 1..Len(t) : t[i] = q[i + 1]
      /\ Head(q) = q[1]
  OBVIOUS
<1>2. \A i \in 1..Len(q) : q[i].n \in Nat
  BY DeliveryNumbers
<1>3. s2 \in Nat /\ (IsSample(q[1]) => s2 = q[1].n) /\ (~IsSample(q[1]) => s2 = s)
  BY <1>1, <1>2 DEF TakenSample
<1>4. Chained(t, s2)
  <2>1. ASSUME NEW i \in 1..Len(t), IsSample(t[i])
        PROVE  /\ t[i].n > s2
               /\ \A j \in 1..(i - 1) : IsSample(t[j]) => t[j].n < t[i].n
               /\ t[i].type = "delta" =>
                    \/ s2 # 0 /\ s2 = t[i].n - 1
                    \/ \E j \in 1..(i - 1) : IsSample(t[j]) /\ t[j].n = t[i].n - 1
    <3>1. i + 1 \in 1..Len(q) /\ t[i] = q[i + 1] /\ \A j \in 1..(i - 1) : t[j] = q[j + 1]
      BY <1>1
    <3>2. /\ q[i + 1].n > s
          /\ \A j \in 1..i : IsSample(q[j]) => q[j].n < q[i + 1].n
          /\ q[i + 1].type = "delta" =>
               \/ s # 0 /\ s = q[i + 1].n - 1
               \/ \E j \in 1..i : IsSample(q[j]) /\ q[j].n = q[i + 1].n - 1
      <4>1. (i + 1) - 1 = i
        OBVIOUS
      <4> QED
        BY <2>1, <3>1, <4>1 DEF Chained
    <3>3. t[i].n > s2
      BY <1>1, <1>3, <3>1, <3>2
    <3>4. \A j \in 1..(i - 1) : IsSample(t[j]) => t[j].n < t[i].n
      <4>1. \A j \in 1..(i - 1) : j + 1 \in 1..i
        OBVIOUS
      <4> QED
        BY <3>1, <3>2, <4>1
    <3>5. ASSUME t[i].type = "delta"
          PROVE  \/ s2 # 0 /\ s2 = t[i].n - 1
                 \/ \E j \in 1..(i - 1) : IsSample(t[j]) /\ t[j].n = t[i].n - 1
      <4>1. CASE s # 0 /\ s = q[i + 1].n - 1
        <5>1. ~IsSample(q[1])
          <6>1. IsSample(q[1]) => q[1].n > s /\ q[1].n < q[i + 1].n
            BY <1>1, <3>2 DEF Chained
          <6> QED
            BY <1>1, <1>2, <3>1, <4>1, <6>1
        <5> QED
          BY <1>3, <3>1, <4>1, <5>1
      <4>2. CASE \E j \in 1..i : IsSample(q[j]) /\ q[j].n = q[i + 1].n - 1
        <5>1. PICK j \in 1..i : IsSample(q[j]) /\ q[j].n = q[i + 1].n - 1
          BY <4>2
        <5>2. CASE j = 1
          <6>1. q[1].n > s
            BY <1>1, <5>1, <5>2 DEF Chained
          <6> QED
            BY <1>1, <1>2, <1>3, <3>1, <5>1, <5>2, <6>1
        <5>3. CASE j # 1
          <6>1. j - 1 \in 1..(i - 1) /\ t[j - 1] = q[(j - 1) + 1] /\ (j - 1) + 1 = j
            BY <3>1, <5>3
          <6> QED
            BY <3>1, <5>1, <6>1
        <5> QED
          BY <5>2, <5>3
      <4> QED
        BY <3>1, <3>2, <3>5, <4>1, <4>2
    <3> QED
      BY <3>3, <3>4, <3>5
  <2> QED
    BY <2>1 DEF Chained
<1>5. UpTo(t, s2, n)
  BY <1>1, <1>3 DEF UpTo
<1>6. ASSUME InHand(q, s, n) PROVE InHand(t, s2, n)
  <2>1. CASE n # 0 /\ s = n
    <3>1. ~IsSample(q[1])
      <4>1. IsSample(q[1]) => q[1].n > s /\ q[1].n <= n
        BY <1>1 DEF Chained, UpTo
      <4> QED
        BY <1>1, <1>2, <2>1, <4>1
    <3> QED
      BY <1>3, <2>1, <3>1 DEF InHand
  <2>2. CASE \E j \in 1..Len(q) : IsSample(q[j]) /\ q[j].n = n
    <3>1. PICK j \in 1..Len(q) : IsSample(q[j]) /\ q[j].n = n
      BY <2>2
    <3>2. CASE j = 1
      <4>1. q[1].n > s
        BY <1>1, <3>1, <3>2 DEF Chained
      <4> QED
        BY <1>1, <1>2, <1>3, <3>1, <3>2, <4>1 DEF InHand
    <3>3. CASE j # 1
      <4>1. j - 1 \in 1..Len(t) /\ t[j - 1] = q[(j - 1) + 1] /\ (j - 1) + 1 = j
        BY <1>1, <3>3
      <4> QED
        BY <3>1, <4>1 DEF InHand
    <3> QED
      BY <3>2, <3>3
  <2> QED
    BY <1>6, <2>1, <2>2 DEF InHand
<1> QED
  BY <1>4, <1>5, <1>6

-----------------------------------------------------------------------------
(* The invariant holds initially.                                          *)
LEMMA DeliveryInitInvariant == DeliveryInit => DeliveryIInv
<1> SUFFICES ASSUME DeliveryInit PROVE DeliveryIInv
  OBVIOUS
<1>1. <<>> \in Seq(Message) /\ Len(<<>>) = 0
  OBVIOUS
<1>2. DeliveryTypeOK
  <2>1. queue \in [Viewer -> Seq(Message)] /\ \A v \in Viewer : Len(queue[v]) <= Buffer
    BY <1>1, BufferAssumption DEF DeliveryInit
  <2>2. 0 \in 0..MaxSample /\ 0 \in 0..MaxConfig
    BY StreamAssumption
  <2> QED
    BY <2>1, <2>2 DEF DeliveryInit, DeliveryTypeOK
<1>3. joined = {}
  BY DEF DeliveryInit
<1> QED
  BY <1>2, <1>3 DEF DeliveryIInv, NotAhead, NoTearing, BehindOrCurrent

(* A dispatched frame keeps the invariant: nothing but a sample right      *)
(* after the last one encoded is sent as a sample.                            *)
LEMMA DispatchStep ==
  ASSUME DeliveryIInv, NEW m \in Message, Dispatch(m),
         IsSample(m) => m.n = encoded + 1 /\ encoded' = encoded + 1,
         ~IsSample(m) => encoded' = encoded,
         encoded' \in 0..MaxSample
  PROVE  /\ queue' \in [Viewer -> Seq(Message)]
         /\ \A v \in Viewer : Len(queue'[v]) <= Buffer
         /\ needKey' \in [Viewer -> BOOLEAN]
         /\ NotAhead' /\ NoTearing' /\ BehindOrCurrent'
<1>1. /\ queue' = [v \in Viewer |-> QueueAfter(v, m)]
      /\ needKey' = [v \in Viewer |-> NeedKeyAfter(v, m)]
      /\ joined' = joined /\ shown' = shown
  BY DEF Dispatch
<1>2. encoded \in Nat /\ encoded' \in Nat /\ encoded <= encoded' /\ joined \subseteq Viewer
  BY StreamAssumption DEF DeliveryIInv, DeliveryTypeOK
<1>3. \A v \in Viewer : queue[v] \in Seq(Message) /\ shown[v] \in Nat /\ Len(queue[v]) <= Buffer
  BY StreamAssumption DEF DeliveryIInv, DeliveryTypeOK
<1>4. queue' \in [Viewer -> Seq(Message)]
  BY <1>1, <1>3 DEF QueueAfter
<1>5. ASSUME NEW v \in Viewer PROVE Len(queue'[v]) <= Buffer
  BY <1>1, <1>3, BufferAssumption DEF QueueAfter, Room
<1>6. needKey' \in [Viewer -> BOOLEAN]
  <2>1. \A v \in Viewer : needKey[v] \in BOOLEAN
    BY DEF DeliveryIInv, DeliveryTypeOK
  <2>2. \A v \in Viewer : NeedKeyAfter(v, m) \in BOOLEAN
    BY <2>1, Zenon DEF NeedKeyAfter
  <2> QED
    BY <1>1, <2>2
<1>7. ASSUME NEW v \in joined
      PROVE  /\ UpTo(queue'[v], shown'[v], encoded')
             /\ Chained(queue'[v], shown'[v])
             /\ ~needKey'[v] => InHand(queue'[v], shown'[v], encoded')
  <2> DEFINE q == queue[v]
             s == shown[v]
  <2>1. /\ v \in Viewer /\ q \in Seq(Message) /\ s \in Nat
        /\ UpTo(q, s, encoded) /\ Chained(q, s)
        /\ ~needKey[v] => InHand(q, s, encoded)
        /\ \A i \in 1..Len(q) : q[i].n \in Nat
    BY <1>2, <1>3, DeliveryNumbers DEF DeliveryIInv, NotAhead, NoTearing, BehindOrCurrent
  <2>2. m.n \in Nat
    BY StreamAssumption DEF Message
  <2>3. CASE Skipped(v, m) \/ ~Room(v)
    <3>1. queue'[v] = q /\ shown'[v] = s
      BY <1>1, <2>1, <2>3 DEF QueueAfter
    <3>2. needKey'[v]
      BY <1>1, <2>1, <2>3 DEF NeedKeyAfter, Skipped
    <3>3. UpTo(q, s, encoded')
      BY <1>2, <2>1 DEF UpTo
    <3> QED
      BY <2>1, <3>1, <3>2, <3>3
  <2>4. CASE ~Skipped(v, m) /\ Room(v)
    <3>1. queue'[v] = Append(q, m) /\ shown'[v] = s
      BY <1>1, <2>1, <2>4 DEF QueueAfter
    <3>2. needKey'[v] = (needKey[v] /\ m.type # "key")
      BY <1>1, <2>1, <2>4 DEF NeedKeyAfter
    <3>3. UpTo(Append(q, m), s, encoded')
      BY <1>2, <2>1, AppendUpTo
    <3>4. IsSample(m) => m.n > s /\ \A i \in 1..Len(q) : IsSample(q[i]) => q[i].n < m.n
      BY <1>2, <2>1, <2>2 DEF UpTo
    <3>5. m.type = "delta" => InHand(q, s, m.n - 1)
      <4>1. ASSUME m.type = "delta" PROVE ~needKey[v] /\ m.n - 1 = encoded
        BY <1>2, <2>4, <4>1 DEF Skipped, IsSample, Sample
      <4> QED
        BY <2>1, <4>1
    <3>6. Chained(Append(q, m), s)
      BY <2>1, <3>4, <3>5, AppendChained
    <3>7. ASSUME ~needKey'[v] PROVE InHand(Append(q, m), s, encoded')
      <4>1. CASE IsSample(m)
        BY <1>2, <2>1, <4>1, AppendInHand
      <4>2. CASE ~IsSample(m)
        <5>1. ~needKey[v] /\ encoded' = encoded
          BY <3>2, <3>7, <4>2 DEF IsSample, Sample
        <5> QED
          BY <1>2, <2>1, <5>1, AppendInHand
      <4> QED
        BY <4>1, <4>2
    <3> QED
      BY <3>1, <3>3, <3>6, <3>7
  <2> QED
    BY <2>3, <2>4
<1> QED
  BY <1>1, <1>4, <1>5, <1>6, <1>7 DEF NotAhead, NoTearing, BehindOrCurrent

(* The capture process's steps.                                            *)
LEMMA CaptureStep ==
  ASSUME DeliveryIInv, Description \/ Keyframe \/ Delta \/ Still
  PROVE  DeliveryIInv'
<1> USE StreamAssumption DEF DeliveryIInv, DeliveryTypeOK
<1>1. CASE Description
  <2>1. DescriptionMsg(description + 1) \in Message /\ ~IsSample(DescriptionMsg(description + 1))
    BY <1>1 DEF Description, DescriptionMsg, Message, IsSample, Sample
  <2> QED
    BY <1>1, <2>1, DispatchStep DEF Description, Dispatch
<1>2. CASE Keyframe
  <2> DEFINE m == [type |-> "key", n |-> encoded + 1, config |-> description]
  <2>1. m \in Message /\ IsSample(m) /\ m.n = encoded + 1
    BY <1>2 DEF Keyframe, Message, IsSample, Sample
  <2> QED
    BY <1>2, <2>1, DispatchStep DEF Keyframe, Dispatch
<1>3. CASE Delta
  <2> DEFINE m == [type |-> "delta", n |-> encoded + 1, config |-> description]
  <2>1. m \in Message /\ IsSample(m) /\ m.n = encoded + 1
    BY <1>3 DEF Delta, Message, IsSample, Sample
  <2> QED
    BY <1>3, <2>1, DispatchStep DEF Delta, Dispatch
<1>4. CASE Still
  <2>1. StillMsg \in Message /\ ~IsSample(StillMsg)
    BY DEF StillMsg, Message, IsSample, Sample
  <2> QED
    BY <1>4, <2>1, DispatchStep DEF Still, Dispatch
<1> QED
  BY <1>1, <1>2, <1>3, <1>4

(* A viewer that joins is preloaded with at most two frames, no sample.    *)
LEMMA JoinStep ==
  ASSUME DeliveryIInv, NEW v \in Viewer, Join(v)
  PROVE  DeliveryIInv'
<1> DEFINE d == IF description # 0 THEN <<DescriptionMsg(description)>> ELSE <<>>
           p == IF still THEN <<StillMsg>> ELSE <<>>
           q == d \o p
<1>1. /\ joined' = joined \cup {v} /\ queue' = [queue EXCEPT ![v] = q]
      /\ needKey' = [needKey EXCEPT ![v] = TRUE]
      /\ shown' = [shown EXCEPT ![v] = 0] /\ conf' = [conf EXCEPT ![v] = 0]
      /\ UNCHANGED capture
  BY DEF Join
<1>2. /\ DescriptionMsg(description) \in Message /\ ~IsSample(DescriptionMsg(description))
      /\ StillMsg \in Message /\ ~IsSample(StillMsg)
  BY StreamAssumption DEF DeliveryIInv, DeliveryTypeOK, DescriptionMsg, StillMsg, Message, IsSample, Sample
<1>3. /\ d \in Seq(Message) /\ Len(d) <= 1 /\ \A i \in 1..Len(d) : ~IsSample(d[i])
      /\ p \in Seq(Message) /\ Len(p) <= 1 /\ \A i \in 1..Len(p) : ~IsSample(p[i])
  BY <1>2
<1>4. q \in Seq(Message) /\ Len(q) <= 2 /\ \A i \in 1..Len(q) : ~IsSample(q[i])
  <2> HIDE DEF d, p
  <2> QED
    BY <1>3
<1> HIDE DEF q
<1>5. Chained(q, 0) /\ UpTo(q, 0, encoded)
  BY <1>4, StreamAssumption DEF Chained, UpTo, DeliveryIInv, DeliveryTypeOK
<1>6. DeliveryTypeOK'
  BY <1>1, <1>4, BufferAssumption, StreamAssumption DEF DeliveryIInv, DeliveryTypeOK, capture
<1>7. /\ queue'[v] = q /\ shown'[v] = 0 /\ needKey'[v] /\ encoded' = encoded
      /\ \A w \in Viewer \ {v} : /\ queue'[w] = queue[w] /\ shown'[w] = shown[w]
                                 /\ needKey'[w] = needKey[w] /\ (w \in joined' <=> w \in joined)
  BY <1>1 DEF DeliveryIInv, DeliveryTypeOK, capture
<1>8. joined' \subseteq Viewer
  BY <1>1 DEF DeliveryIInv, DeliveryTypeOK
<1>9. ASSUME NEW w \in joined'
      PROVE  /\ UpTo(queue'[w], shown'[w], encoded') /\ Chained(queue'[w], shown'[w])
             /\ ~needKey'[w] => InHand(queue'[w], shown'[w], encoded')
  <2>1. CASE w = v
    BY <1>5, <1>7, <2>1
  <2>2. CASE w # v
    BY <1>7, <1>8, <2>2 DEF DeliveryIInv, NotAhead, NoTearing, BehindOrCurrent
  <2> QED
    BY <2>1, <2>2
<1> QED
  BY <1>6, <1>9 DEF DeliveryIInv, NotAhead, NoTearing, BehindOrCurrent

(* A viewer that leaves takes its channel with it.                         *)
LEMMA LeaveStep ==
  ASSUME DeliveryIInv, NEW v \in Viewer, Leave(v)
  PROVE  DeliveryIInv'
<1>1. DeliveryTypeOK'
  BY BufferAssumption DEF DeliveryIInv, DeliveryTypeOK, Leave, capture
<1>2. \A w \in joined' : w \in joined /\ queue'[w] = queue[w]
  BY DEF DeliveryIInv, DeliveryTypeOK, Leave
<1> QED
  BY <1>1, <1>2 DEF DeliveryIInv, NotAhead, NoTearing, BehindOrCurrent, Leave, capture

(* A viewer that takes a frame.                                            *)
LEMMA TakeStep ==
  ASSUME DeliveryIInv, NEW v \in Viewer, Take(v)
  PROVE  DeliveryIInv'
<1> DEFINE q == queue[v]
           s == shown[v]
<1>1. /\ v \in joined /\ q # <<>> /\ q \in Seq(Message) /\ s \in Nat /\ encoded \in Nat
      /\ Len(q) <= Buffer
  BY StreamAssumption DEF DeliveryIInv, DeliveryTypeOK, Take
<1>2. Head(q) \in Message
  BY <1>1
<1>3. /\ queue' = [queue EXCEPT ![v] = Tail(q)]
      /\ shown' = [shown EXCEPT ![v] = TakenSample(q, s)]
      /\ joined' = joined /\ needKey' = needKey /\ UNCHANGED capture
  BY DEF Take, TakenSample, IsSample
<1>4. conf' \in [Viewer -> 0..MaxConfig]
  BY <1>2 DEF Take, DeliveryIInv, DeliveryTypeOK, Message
<1>5. TakenSample(q, s) \in 0..MaxSample
  BY <1>2 DEF DeliveryIInv, DeliveryTypeOK, TakenSample, Message
<1>6. Tail(q) \in Seq(Message) /\ Len(Tail(q)) <= Buffer
  BY <1>1, BufferAssumption
<1>7. DeliveryTypeOK'
  BY <1>3, <1>4, <1>5, <1>6 DEF DeliveryIInv, DeliveryTypeOK, capture
<1>8. /\ Chained(Tail(q), TakenSample(q, s))
      /\ UpTo(Tail(q), TakenSample(q, s), encoded)
      /\ InHand(q, s, encoded) => InHand(Tail(q), TakenSample(q, s), encoded)
  <2>1. Chained(q, s) /\ UpTo(q, s, encoded)
    BY <1>1 DEF DeliveryIInv, NotAhead, NoTearing
  <2> QED
    BY <1>1, <2>1, TakeOne
<1>9. ASSUME NEW w \in joined'
      PROVE  /\ UpTo(queue'[w], shown'[w], encoded') /\ Chained(queue'[w], shown'[w])
             /\ ~needKey'[w] => InHand(queue'[w], shown'[w], encoded')
  <2>1. CASE w = v
    BY <1>1, <1>3, <1>8, <2>1 DEF DeliveryIInv, DeliveryTypeOK, BehindOrCurrent, capture
  <2>2. CASE w # v
    BY <1>3, <2>2 DEF DeliveryIInv, DeliveryTypeOK, NotAhead, NoTearing, BehindOrCurrent, capture
  <2> QED
    BY <2>1, <2>2
<1> QED
  BY <1>7, <1>9 DEF DeliveryIInv, NotAhead, NoTearing, BehindOrCurrent

(* The invariant is inductive.                                             *)
LEMMA DeliveryNextInvariant == DeliveryIInv /\ [DeliveryNext]_deliveryVars => DeliveryIInv'
<1> SUFFICES ASSUME DeliveryIInv, [DeliveryNext]_deliveryVars PROVE DeliveryIInv'
  OBVIOUS
<1>1. CASE Description \/ Keyframe \/ Delta \/ Still
  BY <1>1, CaptureStep
<1>2. CASE Resize
  BY <1>2 DEF Resize, DeliveryIInv, DeliveryTypeOK, NotAhead, NoTearing, BehindOrCurrent
<1>3. ASSUME NEW v \in Viewer, Join(v) PROVE DeliveryIInv'
  BY <1>3, JoinStep
<1>4. ASSUME NEW v \in Viewer, Leave(v) PROVE DeliveryIInv'
  BY <1>4, LeaveStep
<1>5. ASSUME NEW v \in Viewer, Take(v) PROVE DeliveryIInv'
  BY <1>5, TakeStep
<1>6. CASE UNCHANGED deliveryVars
  BY <1>6 DEF deliveryVars, DeliveryIInv, DeliveryTypeOK, NotAhead, NoTearing, BehindOrCurrent
<1> QED
  BY <1>1, <1>2, <1>3, <1>4, <1>5, <1>6 DEF DeliveryNext

(* The strengthened invariant holds in every reachable state.              *)
THEOREM DeliveryInvariant == DeliverySpec => []DeliveryIInv
  BY DeliveryInitInvariant, DeliveryNextInvariant, PTL DEF DeliverySpec

(* Every variable keeps its range; in particular no channel is ever filled *)
(* past its capacity, so no send under Session.mu can block (Subscribe's   *)
(* preload, deliver).                                                      *)
THEOREM DeliveryTypeCorrect == DeliverySpec => []DeliveryTypeOK
<1>1. DeliveryIInv => DeliveryTypeOK
  BY DEF DeliveryIInv
<1> QED
  BY <1>1, DeliveryInvariant, PTL

(* A viewer never decodes a delta against a stale reference, however slow  *)
(* it is and whatever it lost (deliver's drop-to-keyframe).                *)
THEOREM NeverTears == DeliverySpec => []NoTearing
<1>1. DeliveryIInv => NoTearing
  BY DEF DeliveryIInv
<1> QED
  BY <1>1, DeliveryInvariant, PTL

(* A viewer that is not waiting for a keyframe has missed nothing (the     *)
(* meaning of subscriber.needKey).                                         *)
THEOREM FlagIsHonest == DeliverySpec => []BehindOrCurrent
<1>1. DeliveryIInv => BehindOrCurrent
  BY DEF DeliveryIInv
<1> QED
  BY <1>1, DeliveryInvariant, PTL
==================================================================================
