--------------------------------- MODULE Launch ---------------------------------
(***************************************************************************)
(* One launch request, from handleLaunchApp (internal/server/server.go)      *)
(* through apps.Ensure to the simulator's or emulator's client, against a    *)
(* device whose app may be running, keeps its data as it runs, and on        *)
(* Android is killed once more, late, by each task removal a force-stop      *)
(* starts.  Nobody else commands the device meanwhile.                       *)
(***************************************************************************)
EXTENDS Integers

CONSTANT Attempts   \* launchAttempts

VARIABLES
  platform,    \* "ios" or "android"
  faulty,      \* a command to the device may fail
  installed,   \* the device has the app
  build,       \* where Catalog.find has it: "here", "other" platform, "none"
  file,        \* the request brings its own build
  reset,       \* the request did not say reset=no
  stage,       \* where the handler is, its answers "done" and "failed" included
  try,         \* LaunchApp's attempt
  agent,       \* the device's UI engine runs (on iOS its agent is an app)
  app,         \* "none", "behind" or "front": the app's process and its window
  data,        \* the app's stored data: "fresh", or last used "before" or "after"
  mine,        \* the process is one this launch started
  kills        \* task removals that have yet to kill

launchVars == <<platform, faulty, installed, build, file, reset, stage, try, agent,
                app, data, mine, kills>>
request == <<platform, faulty, build, file, reset>>

LaunchInit ==
  /\ platform \in {"ios", "android"} /\ faulty \in BOOLEAN
  /\ installed \in BOOLEAN /\ build \in {"here", "other", "none"}
  /\ file \in BOOLEAN /\ reset \in BOOLEAN
  /\ stage = "boot" /\ try = 0 /\ agent \in BOOLEAN
  /\ app \in (IF installed THEN {"none", "behind", "front"} ELSE {"none"})
  /\ data = (IF installed THEN "before" ELSE "fresh") /\ mine = FALSE /\ kills = 0

-----------------------------------------------------------------------------
Fail == stage' = "failed"

(* Any command may fail, or the device operation's five minutes end.         *)
CommandFails ==
  /\ faulty /\ stage \notin {"done", "failed", "notAppeared"}
  /\ Fail
  /\ UNCHANGED <<request, installed, try, agent, app, data, mine, kills>>

(* WaitBooted.                                                               *)
Booted ==
  /\ stage = "boot" /\ stage' = "prepare"
  /\ UNCHANGED <<request, installed, try, agent, app, data, mine, kills>>

(* prepareApp: the request's own file, or Ensure what the catalog has.  An   *)
(* install over a running app ends it.                                       *)
Prepare ==
  /\ stage = "prepare"
  /\ \/ /\ file \/ (build = "here" /\ ~installed)
        /\ installed' = TRUE /\ app' = "none" /\ stage' = "engine"
     \/ /\ ~file /\ (build = "none" \/ installed)
        /\ stage' = "engine" /\ UNCHANGED <<installed, app>>
     \/ /\ ~file /\ build = "other" /\ ~installed
        /\ Fail /\ UNCHANGED <<installed, app>>
  /\ UNCHANGED <<request, try, agent, data, mine, kills>>

(* Mutant: the launch does not wait for the engine.                          *)
EngineLater ==
  /\ stage = "engine" /\ stage' = IF reset THEN "stop" ELSE "launch"
  /\ UNCHANGED <<request, installed, try, agent, app, data, mine, kills>>

(* Reading the tree starts the engine where it is not running; iOS's agent   *)
(* comes to the front as the app that it is.                                 *)
Covered == platform = "ios" /\ ~agent /\ app = "front"
StartEngine ==
  /\ stage = "engine" /\ stage' = IF reset THEN "stop" ELSE "launch"
  /\ agent' = TRUE /\ app' = IF Covered THEN "behind" ELSE app
  /\ UNCHANGED <<request, installed, try, data, mine, kills>>

(* A force-stop ends the app and removes its task; the simulator's           *)
(* terminate only ends it.                                                   *)
Removal == IF platform = "android" THEN 1 ELSE 0
EndsApp == app' = "none" /\ kills' = kills + Removal

(* ResetApp: both end the app, pm clear clearing in the same command, the    *)
(* simulator's container being wiped by the next one.  No app, no reset.     *)
ResetStops ==
  /\ stage = "stop"
  /\ IF installed THEN EndsApp /\ stage' = "wipe" ELSE UNCHANGED <<app, kills>> /\ Fail
  /\ UNCHANGED <<request, installed, try, agent, data, mine>>

ResetWipes ==
  /\ stage = "wipe" /\ stage' = "launch" /\ data' = "fresh"
  /\ UNCHANGED <<request, installed, try, agent, app, mine, kills>>

(* LaunchApp: the app is stopped and started; the simulator says it is.      *)
LaunchStops ==
  /\ stage = "launch" /\ stage' = "start" /\ try' = 1
  /\ IF installed THEN EndsApp ELSE UNCHANGED <<app, kills>>
  /\ UNCHANGED <<request, installed, agent, data, mine>>

(* startApp, and its answer when there is nothing to start.                  *)
Start ==
  /\ stage = "start"
  /\ IF installed
       THEN /\ app' = IF platform = "ios" THEN "front" ELSE IF app = "none" THEN "behind" ELSE app
            /\ mine' = (mine \/ app = "none")
            /\ stage' = IF platform = "ios" THEN "appear" ELSE "focus"
       ELSE Fail /\ UNCHANGED <<app, mine>>
  /\ UNCHANGED <<request, installed, try, agent, data, kills>>

(* awaitFocus sees the app's window in front, *)
Focused ==
  /\ stage = "focus" /\ app = "front" /\ stage' = "appear"
  /\ UNCHANGED <<request, installed, try, agent, app, data, mine, kills>>

(* or its two seconds end, by when a removal (about one) has killed: another *)
(* start, and after the last slowOrDead.                                     *)
MayRetry == try < Attempts
FocusCap ==
  /\ stage = "focus" /\ app # "front" /\ kills = 0
  /\ IF MayRetry THEN stage' = "start" /\ try' = try + 1
     ELSE /\ stage' = IF app = "none" THEN "failed" ELSE "appear"
          /\ UNCHANGED try
  /\ UNCHANGED <<request, installed, agent, app, data, mine, kills>>

(* AwaitLaunched: the app's screen is there, or its cap ends.  Android's     *)
(* tree is whatever is in front, the home screen when a removal killed the   *)
(* app after it was seen there.  The read starts a missing engine.           *)
Await ==
  /\ stage = "appear"
  /\ agent' = TRUE
  /\ app' = IF Covered THEN "behind" ELSE app
  /\ \/ stage' = "done" /\ (platform = "android" \/ app' = "front")
     \/ stage' = "notAppeared" /\ app' # "front"
  /\ UNCHANGED <<request, installed, try, data, mine, kills>>

(* External: the app draws its window, and uses its data, as it runs; a      *)
(* removal kills what process it finds.                                      *)
AppComes ==
  /\ platform = "android" /\ app = "behind" /\ stage = "focus"
  /\ app' = "front"
  /\ UNCHANGED <<request, installed, stage, try, agent, data, mine, kills>>
AppWrites ==
  /\ app # "none" /\ data' = IF mine THEN "after" ELSE "before"
  /\ UNCHANGED <<request, installed, stage, try, agent, app, mine, kills>>
RemovalKills ==
  /\ kills > 0 /\ kills' = kills - 1 /\ app' = "none"
  /\ UNCHANGED <<request, installed, stage, try, agent, data, mine>>

LaunchNext ==
  \/ CommandFails \/ Booted \/ Prepare \/ StartEngine \/ ResetStops \/ ResetWipes
  \/ LaunchStops \/ Start \/ Focused \/ FocusCap \/ Await
  \/ AppComes \/ AppWrites \/ RemovalKills

LaunchSpec == LaunchInit /\ [][LaunchNext]_launchVars

-----------------------------------------------------------------------------
(* While the device does as it is told, a launch of an app it has, or can    *)
(* be given, does not fail, and an iOS app is in front of the engine's agent *)
(* (readyToLaunch). An Android launch ends with its app running (LaunchApp's *)
(* attempts), but for one whose window the first attempt saw: the kill that  *)
(* its force-stop left behind may come after that, and nothing looks again.  *)
SeenAtOnce == platform = "android" /\ try = 1
LaunchNotLost ==
  ~faulty => /\ stage = "failed" => ~installed
             /\ platform = "ios" => stage # "notAppeared"
             /\ stage \in {"appear", "done", "notAppeared"} => app # "none" \/ SeenAtOnce

(* A launch answered with success, unless it asked to resume, shows nothing  *)
(* an earlier run stored (ResetApp stops the app before it wipes).           *)
FirstRun == stage = "done" /\ reset => data # "before"
=============================================================================
