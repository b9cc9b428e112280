------------------------------ MODULE Engines ------------------------------
(***************************************************************************)
(* The tree engines of internal/runner/tree.go: one on-device automation   *)
(* engine per device, started by whoever needs it first, cached, and       *)
(* replaced when it fails.                                                 *)
(*                                                                         *)
(* Engines.mu is held for the whole of engine(), evict, Stop and StopAll,  *)
(* starting and stopping an engine included, so each is one step; the call *)
(* to the engine itself (SnapshotState) runs without the lock, so between  *)
(* getting an engine and using it, and between its failure and the         *)
(* eviction, any other caller may act and the engine may die.              *)
(***************************************************************************)
EXTENDS Naturals

CONSTANTS Caller,     \* requests that may be in flight at once
          Device,     \* devices
          MaxEngine   \* bound: the number of engines ever started

ASSUME MaxEngineAssumption == MaxEngine \in Nat

VARIABLES
  engines,   \* engines[d]: the engine cached for d, or NoEngine
  state,     \* state[e]: what became of the e-th engine started
  home,      \* home[e]: the device it runs on
  last,      \* the engines started so far
  callers,   \* callers[c]: where caller c is
  dev,       \* dev[c]: the device it asked for
  using,     \* using[c]: the engine it was handed, or NoEngine
  outcome    \* outcome[c]: how its last call of that engine ended

cacheVars == <<engines, state, home, last, callers, dev, using, outcome>>
cache == <<engines, state, home, last>>

NoEngine == 0
Engine == 1..MaxEngine

(* "dead" the process or its agent died and nobody noticed; "stopped" it   *)
(* was shut down; "released" DeviceDeck let go of it as it exited and its  *)
(* helper stays on the device.                                             *)
EngineState == {"unborn", "up", "dead", "stopped", "released"}
Runs(e) == state[e] \in {"up", "dead"}

(* SnapshotState: "engine" first lookup, "read" first call, "evict" that   *)
(* call failed, "again" second lookup, "reread" second call.  "warm" is    *)
(* the lookup alone: Warm, AndroidInjector and Idle evict nothing.         *)
Control == {"idle", "warm", "engine", "read", "evict", "again", "reread"}
Outcome == {"none", "answered", "cancelled", "failed"}

CacheInit ==
  /\ engines = [d \in Device |-> NoEngine]
  /\ state = [e \in Engine |-> "unborn"]
  /\ home \in [Engine -> Device]
  /\ last = 0
  /\ callers = [c \in Caller |-> "idle"]
  /\ dev \in [Caller -> Device]
  /\ using = [c \in Caller |-> NoEngine]
  /\ outcome = [c \in Caller |-> "none"]

(* A request arrives.                                                      *)
Ask(c, d, op) ==
  /\ callers[c] = "idle"
  /\ callers' = [callers EXCEPT ![c] = op]
  /\ dev' = [dev EXCEPT ![c] = d]
  /\ using' = [using EXCEPT ![c] = NoEngine]
  /\ outcome' = [outcome EXCEPT ![c] = "none"]
  /\ UNCHANGED cache

-----------------------------------------------------------------------------
(* engine(): the cached engine, or a new one, or the start's error, which  *)
(* ends the request.  The caller goes on to use what it was handed.        *)
After(step) ==
  CASE step = "engine" -> "read" [] step = "again" -> "reread" [] step = "warm" -> "idle"

Lookup == {"warm", "engine", "again"}

Cached(c) ==
  /\ callers[c] \in Lookup
  /\ engines[dev[c]] # NoEngine
  /\ using' = [using EXCEPT ![c] = engines[dev[c]]]
  /\ callers' = [callers EXCEPT ![c] = After(@)]
  /\ UNCHANGED <<cache, dev, outcome>>

Start(c) ==
  /\ callers[c] \in Lookup
  /\ engines[dev[c]] = NoEngine
  /\ last < MaxEngine
  /\ last' = last + 1
  /\ engines' = [engines EXCEPT ![dev[c]] = last + 1]
  /\ state' = [state EXCEPT ![last + 1] = "up"]
  /\ home' = [home EXCEPT ![last + 1] = dev[c]]
  /\ using' = [using EXCEPT ![c] = last + 1]
  /\ callers' = [callers EXCEPT ![c] = After(@)]
  /\ UNCHANGED <<dev, outcome>>

StartFails(c) ==
  /\ callers[c] \in Lookup
  /\ engines[dev[c]] = NoEngine
  /\ callers' = [callers EXCEPT ![c] = "idle"]
  /\ UNCHANGED <<cache, dev, using, outcome>>

-----------------------------------------------------------------------------
(* The call of the engine handed over.  A running agent answers, with a    *)
(* tree or a structured AgentError; the caller may be cancelled; and the   *)
(* call may fail, as it must when the engine is gone.                      *)
Answered(c) ==
  /\ callers[c] \in {"read", "reread"}
  /\ state[using[c]] \in {"up", "released"}
  /\ outcome' = [outcome EXCEPT ![c] = "answered"]
  /\ callers' = [callers EXCEPT ![c] = "idle"]
  /\ UNCHANGED <<cache, dev, using>>

Cancelled(c) ==
  /\ callers[c] \in {"read", "reread"}
  /\ outcome' = [outcome EXCEPT ![c] = "cancelled"]
  /\ callers' = [callers EXCEPT ![c] = "idle"]
  /\ UNCHANGED <<cache, dev, using>>

(* Only the first failure evicts: the error of the second is the caller's. *)
Failed(c) ==
  /\ callers[c] \in {"read", "reread"}
  /\ outcome' = [outcome EXCEPT ![c] = "failed"]
  /\ callers' = [callers EXCEPT ![c] = IF @ = "read" THEN "evict" ELSE "idle"]
  /\ UNCHANGED <<cache, dev, using>>

(* evict drops the failed engine and stops it, unless another caller has   *)
(* replaced it already.  Mutant: it only asks whether there is one.        *)
GoneNow(c) == engines[dev[c]] = NoEngine

Replaced(c) == engines[dev[c]] # using[c]

EvictFailed(c) ==
  /\ callers[c] = "evict" /\ ~Replaced(c)
  /\ engines' = [engines EXCEPT ![dev[c]] = NoEngine]
  /\ state' = [state EXCEPT ![engines[dev[c]]] = "stopped"]
  /\ callers' = [callers EXCEPT ![c] = "again"]
  /\ UNCHANGED <<home, last, dev, using, outcome>>

EvictNothing(c) ==
  /\ callers[c] = "evict" /\ Replaced(c)
  /\ callers' = [callers EXCEPT ![c] = "again"]
  /\ UNCHANGED <<cache, dev, using, outcome>>

-----------------------------------------------------------------------------
(* Stop, when the device's session ends.                                   *)
Stop(d) ==
  /\ engines[d] # NoEngine
  /\ state' = [state EXCEPT ![engines[d]] = "stopped"]
  /\ engines' = [engines EXCEPT ![d] = NoEngine]
  /\ UNCHANGED <<home, last, callers, dev, using, outcome>>

(* StopAll, as DeviceDeck exits: every cached engine is released, or       *)
(* stopped where its platform cannot release one (Android).                *)
StopAll(releasable) ==
  /\ \E d \in Device : engines[d] # NoEngine
  /\ state' = [e \in Engine |->
                 IF \E d \in Device : engines[d] = e
                 THEN IF home[e] \in releasable THEN "released" ELSE "stopped"
                 ELSE state[e]]
  /\ engines' = [d \in Device |-> NoEngine]
  /\ UNCHANGED <<home, last, callers, dev, using, outcome>>

(* An engine's process or on-device agent dies; nobody is told.            *)
Die(e) ==
  /\ state[e] = "up"
  /\ state' = [state EXCEPT ![e] = "dead"]
  /\ UNCHANGED <<engines, home, last, callers, dev, using, outcome>>

CacheNext ==
  \/ \E c \in Caller :
       \/ \E d \in Device, op \in {"warm", "engine"} : Ask(c, d, op)
       \/ Cached(c) \/ Start(c) \/ StartFails(c)
       \/ Answered(c) \/ Cancelled(c) \/ Failed(c)
       \/ EvictFailed(c) \/ EvictNothing(c)
  \/ \E d \in Device : Stop(d)
  \/ \E releasable \in SUBSET Device : StopAll(releasable)
  \/ \E e \in Engine : Die(e)

CacheSpec == CacheInit /\ [][CacheNext]_cacheVars

-----------------------------------------------------------------------------
(* The ranges of the variables; a caller that uses an engine was handed    *)
(* one.                                                                    *)
CacheTypeOK ==
  /\ engines \in [Device -> 0..MaxEngine]
  /\ state \in [Engine -> EngineState]
  /\ home \in [Engine -> Device]
  /\ last \in 0..MaxEngine
  /\ callers \in [Caller -> Control]
  /\ dev \in [Caller -> Device]
  /\ using \in [Caller -> 0..MaxEngine]
  /\ outcome \in [Caller -> Outcome]
  /\ \A c \in Caller : callers[c] \in {"read", "evict", "reread"} => using[c] # NoEngine

(* The cache is exactly the running engines: an engine that was started    *)
(* and not shut down is the one cached for its device, so no device ever   *)
(* has two and none is leaked, and no caller is handed one that was        *)
(* stopped or belongs to another device.                                   *)
CacheIsRunning ==
  /\ \A e \in Engine : Runs(e) => engines[home[e]] = e
  /\ \A d \in Device : engines[d] # NoEngine =>
       Runs(engines[d]) /\ home[engines[d]] = d

(* A caller's recovery costs nobody else: the only engine a caller's step  *)
(* ever stops is the one that failed that very caller.  A straggler still  *)
(* holding an engine that was replaced, a caller that was cancelled and    *)
(* one whose agent answered with an error stop nothing (evict).            *)
EvictsOnlyItsOwn ==
  [][\A e \in Engine :
       Runs(e) /\ state'[e] = "stopped" /\ callers' # callers =>
         \E c \in Caller : callers[c] = "evict" /\ using[c] = e /\ outcome[c] = "failed"]_cacheVars
=============================================================================
