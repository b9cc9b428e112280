---------------------------- MODULE DeviceSession ----------------------------
(***************************************************************************)
(* What the server holds for one device from the time it is opened to the  *)
(* end of its session: the engine's warm-up (internal/server/warmup.go),   *)
(* the record of launched apps and End session (internal/server/session.go *)
(* and sessionEnder in cmd/devicedeck/serve.go), between the other clients *)
(* of the device, who go on using it while it is being ended.              *)
(*                                                                         *)
(* A thing held - a recording, a driver's claim, an engine, a capture, an  *)
(* input sidecar - is a number, new for each one started, or 0.  Starting  *)
(* or stopping one is a step of its manager, taken under that manager's    *)
(* lock; End session stops them one after the other with no lock at all.   *)
(***************************************************************************)
EXTENDS Naturals, Sequences

CONSTANTS Client,    \* requests that take several steps, in flight at once
          Ender,     \* End session requests in flight at once
          MaxMade,   \* bound: things ever started
          MaxRun     \* bound: warm-ups ever started

ASSUME BoundAssumption == MaxMade \in Nat /\ MaxRun \in Nat

VARIABLES
  power,     \* the device is running
  held,      \* held[k]: the thing of kind k the server holds
  made,      \* numbers the things held
  launched,  \* launchedApps: the app was launched on the device
  pc,        \* pc[c]: the request c is in the middle of
  status,    \* warmups.status: the state the console is shown
  run,       \* run[r]: where the r-th warm-up's goroutine is
  warmed,    \* warmed[r]: the engine it was handed
  readyWith, \* the engine the record "ready" is about
  endAt,     \* endAt[e]: the step of End session e is at, 0 when not in one
  before,    \* before[e]: made, when e began
  ended      \* the last engine an End session stopped

warm == <<status, run, warmed, readyWith>>
ends == <<endAt, before, ended>>
vars == <<power, held, made, launched, pc, warm, ends>>

Kind == {"recording", "driver", "engine", "video", "sidecar"}
Run == 1..MaxRun
RunState == {"none", "waiting", "warming", "warm", "failed", "done"}

(* handleEndSession, then sessionEnder.End.                                *)
EndSteps == <<"recording", "driver", "launches", "warmup",
              "engine", "video", "sidecar", "power">>

Init ==
  /\ power \in BOOLEAN
  /\ held = [k \in Kind |-> 0]
  /\ made = 0 /\ launched = FALSE
  /\ pc = [c \in Client |-> "idle"]
  /\ status = "none" /\ readyWith = 0
  /\ run = [r \in Run |-> "none"]
  /\ warmed = [r \in Run |-> 0]
  /\ endAt = [e \in Ender |-> 0]
  /\ before = [e \in Ender |-> 0]
  /\ ended = 0

-----------------------------------------------------------------------------
(* The clients of the device.                                              *)
Boot ==
  /\ ~power /\ power' = TRUE
  /\ UNCHANGED <<held, made, launched, pc, warm, ends>>

New(k) ==
  /\ made < MaxMade
  /\ made' = made + 1
  /\ held' = [held EXCEPT ![k] = made + 1]

(* A request needs an engine, a sidecar or a capture and none is cached.   *)
(* The first two answer only once they found their device running.         *)
Use(k) ==
  /\ k \in {"engine", "sidecar", "video"} /\ held[k] = 0
  /\ k = "video" \/ power
  /\ New(k)
  /\ UNCHANGED <<power, launched, pc, warm, ends>>

(* A client claims the device, or takes it over.                           *)
Drive ==
  /\ New("driver")
  /\ UNCHANGED <<power, launched, pc, warm, ends>>

(* A driver leaves, a recording is stopped, a capture nobody watches ends, *)
(* an engine or a sidecar fails and is dropped.                            *)
Gone(k) ==
  /\ held[k] # 0
  /\ held' = [held EXCEPT ![k] = 0]
  /\ UNCHANGED <<power, made, launched, pc, warm, ends>>

(* Service.Start: a tree read, then the recorder is registered.            *)
RecordReads(c) ==
  /\ pc[c] = "idle" /\ power
  /\ held["recording"] = 0 /\ held["engine"] # 0
  /\ pc' = [pc EXCEPT ![c] = "recording"]
  /\ UNCHANGED <<power, held, made, launched, warm, ends>>

RecordStarts(c) ==
  /\ pc[c] = "recording"
  /\ IF held["recording"] = 0 THEN New("recording") ELSE UNCHANGED <<held, made>>
  /\ pc' = [pc EXCEPT ![c] = "idle"]
  /\ UNCHANGED <<power, launched, warm, ends>>

(* handleLaunchApp: with the engine running, the app is launched, waited   *)
(* for, and marked.                                                        *)
LaunchBegins(c) ==
  /\ pc[c] = "idle" /\ power
  /\ held["engine"] # 0
  /\ pc' = [pc EXCEPT ![c] = "launching"]
  /\ UNCHANGED <<power, held, made, launched, warm, ends>>

LaunchFails(c) ==
  /\ pc[c] = "launching"
  /\ pc' = [pc EXCEPT ![c] = "idle"]
  /\ UNCHANGED <<power, held, made, launched, warm, ends>>

LaunchAppeared(c) ==
  /\ pc[c] = "launching"
  /\ launched' = TRUE
  /\ pc' = [pc EXCEPT ![c] = "idle"]
  /\ UNCHANGED <<power, held, made, warm, ends>>

-----------------------------------------------------------------------------
(* The warm-up: start, and the goroutine it starts.                        *)
WarmUp(r) ==
  /\ status \notin {"starting", "ready"}
  /\ run[r] = "none" /\ \A q \in 1..(r - 1) : run[q] # "none"
  /\ status' = "starting" /\ readyWith' = 0
  /\ run' = [run EXCEPT ![r] = "waiting"]
  /\ UNCHANGED <<power, held, made, launched, pc, warmed, ends>>

(* The device finished booting, or was waited for long enough.             *)
RunBooted(r) ==
  /\ run[r] = "waiting" /\ power
  /\ run' = [run EXCEPT ![r] = "warming"]
  /\ UNCHANGED <<power, held, made, launched, pc, status, warmed, readyWith, ends>>

RunTimesOut(r) ==
  /\ run[r] = "waiting"
  /\ run' = [run EXCEPT ![r] = "failed"]
  /\ UNCHANGED <<power, held, made, launched, pc, status, warmed, readyWith, ends>>

(* Engines.Warm: the cached engine, a new one, or the start's error.       *)
RunWarms(r) ==
  /\ run[r] = "warming"
  /\ IF held["engine"] # 0 THEN UNCHANGED <<held, made>> ELSE power /\ New("engine")
  /\ run' = [run EXCEPT ![r] = "warm"]
  /\ warmed' = [warmed EXCEPT ![r] = held'["engine"]]
  /\ UNCHANGED <<power, launched, pc, status, readyWith, ends>>

RunFails(r) ==
  /\ run[r] = "warming" /\ held["engine"] = 0
  /\ run' = [run EXCEPT ![r] = "failed"]
  /\ UNCHANGED <<power, held, made, launched, pc, status, warmed, readyWith, ends>>

(* How the warm-up ended is recorded.  Mutant: a failed one returns early. *)
RunRecordsReady(r) ==
  /\ run[r] \in {"warm", "failed"}
  /\ IF run[r] = "warm" THEN status' = "ready" /\ readyWith' = warmed[r]
     ELSE UNCHANGED <<status, readyWith>>
  /\ run' = [run EXCEPT ![r] = "done"]
  /\ UNCHANGED <<power, held, made, launched, pc, warmed, ends>>

RunRecords(r) ==
  /\ run[r] \in {"warm", "failed"}
  /\ status' = IF run[r] = "warm" THEN "ready" ELSE "failed"
  /\ readyWith' = warmed[r]
  /\ run' = [run EXCEPT ![r] = "done"]
  /\ UNCHANGED <<power, held, made, launched, pc, warmed, ends>>

-----------------------------------------------------------------------------
(* End session.                                                            *)
Step(e) == IF endAt[e] = 0 THEN "none" ELSE EndSteps[endAt[e]]

EndBegins(e) ==
  /\ endAt[e] = 0
  /\ endAt' = [endAt EXCEPT ![e] = 1]
  /\ before' = [before EXCEPT ![e] = made]
  /\ UNCHANGED <<power, held, made, launched, pc, warm, ended>>

(* Mutant: a device still warming up is taken to hold nothing yet.         *)
EndDropsSettled(e) ==
  /\ Step(e) \in Kind
  /\ held' = [held EXCEPT ![Step(e)] = IF status = "starting" THEN @ ELSE 0]
  /\ ended' = IF Step(e) = "engine" /\ held["engine"] # 0 THEN held["engine"] ELSE ended
  /\ endAt' = [endAt EXCEPT ![e] = @ + 1]
  /\ UNCHANGED <<power, made, launched, pc, warm, before>>

EndDrops(e) ==
  /\ Step(e) \in Kind
  /\ held' = [held EXCEPT ![Step(e)] = 0]
  /\ ended' = IF Step(e) = "engine" /\ held["engine"] # 0 THEN held["engine"] ELSE ended
  /\ endAt' = [endAt EXCEPT ![e] = @ + 1]
  /\ UNCHANGED <<power, made, launched, pc, warm, before>>

EndForgetsLaunches(e) ==
  /\ Step(e) = "launches"
  /\ launched' = FALSE
  /\ endAt' = [endAt EXCEPT ![e] = @ + 1]
  /\ UNCHANGED <<power, held, made, pc, warm, before, ended>>

EndForgetsWarmUp(e) ==
  /\ Step(e) = "warmup"
  /\ status' = "none" /\ readyWith' = 0
  /\ endAt' = [endAt EXCEPT ![e] = @ + 1]
  /\ UNCHANGED <<power, held, made, launched, pc, run, warmed, before, ended>>

EndPowersOff(e) ==
  /\ Step(e) = "power"
  /\ power' \in {FALSE, power}
  /\ endAt' = [endAt EXCEPT ![e] = 0]
  /\ UNCHANGED <<held, made, launched, pc, warm, before, ended>>

-----------------------------------------------------------------------------
Running(r) == RunBooted(r) \/ RunTimesOut(r) \/ RunWarms(r) \/ RunFails(r) \/ RunRecords(r)

Next ==
  \/ Boot \/ Drive
  \/ \E k \in Kind : Use(k) \/ Gone(k)
  \/ \E c \in Client :
       \/ RecordReads(c) \/ RecordStarts(c)
       \/ LaunchBegins(c) \/ LaunchFails(c) \/ LaunchAppeared(c)
  \/ \E r \in Run :
       \/ WarmUp(r) \/ RunBooted(r) \/ RunTimesOut(r)
       \/ RunWarms(r) \/ RunFails(r) \/ RunRecords(r)
  \/ \E e \in Ender :
       \/ EndBegins(e) \/ EndDrops(e) \/ EndForgetsLaunches(e)
       \/ EndForgetsWarmUp(e) \/ EndPowersOff(e)

(* A warm-up's goroutine is scheduled, and everything it waits for is      *)
(* bounded: the boot, the driver's install, the agent's start.             *)
Fairness == \A r \in Run : WF_vars(Running(r))

Spec == Init /\ [][Next]_vars /\ Fairness

-----------------------------------------------------------------------------
(* The ranges of the variables; nothing is held that was not started, and  *)
(* a warm-up that succeeded was handed an engine.                          *)
TypeOK ==
  /\ power \in BOOLEAN /\ launched \in BOOLEAN
  /\ made \in 0..MaxMade
  /\ held \in [Kind -> Nat] /\ \A k \in Kind : held[k] <= made
  /\ pc \in [Client -> {"idle", "recording", "launching"}]
  /\ status \in {"none", "starting", "ready", "failed"}
  /\ run \in [Run -> RunState]
  /\ warmed \in [Run -> Nat] /\ readyWith \in Nat
  /\ \A r \in Run : warmed[r] <= made /\ (run[r] = "warm" => warmed[r] # 0)
  /\ endAt \in [Ender -> 0..Len(EndSteps)]
  /\ before \in [Ender -> Nat] /\ \A e \in Ender : before[e] <= made
  /\ readyWith <= made /\ ended \in 0..made

(* The console is never left showing a start that nobody is making: while  *)
(* a warm-up is shown as starting, one is under way, through forget and    *)
(* the warm-ups that overlap after it (warmups).                           *)
StartingIsRunning ==
  status = "starting" =>
    \E r \in Run : run[r] \in {"waiting", "warming", "warm", "failed"}

(* What End session has been past, it has cleared: by then nothing of that *)
(* kind is held that was there when it began, whatever the other clients   *)
(* and a second End session did meanwhile (handleEndSession, End).         *)
EndedIsGone ==
  \A e \in Ender : \A i \in 1..Len(EndSteps) :
    i < endAt[e] /\ EndSteps[i] \in Kind =>
      held[EndSteps[i]] = 0 \/ held[EndSteps[i]] > before[e]

(* The engine's loading screen ends: a warm-up is reported ready or failed *)
(* or its record is dropped (run).                                         *)
WarmUpReported == (status = "starting") ~> (status # "starting")

(* What the comment of warmups.forget says: once a session has ended, the  *)
(* device is not shown ready with the engine that was ended.  The code     *)
(* does not keep it: a warm-up that was under way records its end after    *)
(* its record was dropped.                                                 *)
ReadyIsFresh ==
  status = "ready" /\ (\A e \in Ender : endAt[e] = 0) => readyWith > ended
=============================================================================
