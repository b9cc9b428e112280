---------------------------------- MODULE Start ----------------------------------
(***************************************************************************)
(* The start of a devicedeck process (cmd/devicedeck): the command it was    *)
(* given, and for serve the flags, the logs, the home folder, the sidecars'  *)
(* binaries, the builds of --app, the listener, the greeting, the wait for a *)
(* signal and the way out of each step that fails.  What serving is, and its *)
(* shutdown, are the subject of the other modules.                           *)
(***************************************************************************)
EXTENDS Integers

Commands == {"serve", "mcp", "doctor", "version", "help", "_video-android", "unknown"}
Binaries == {"devicedeck-hid", "devicedeck-video"}
Places == {"none", "flag", "env", "beside", "build"}

(* What a flag or a variable names: nothing, a file, or what is not one.     *)
Named == {"none", "file", "bad"}

VARIABLES
  at,        \* the step it is at
  cmd,       \* the command
  flag,      \* what --sidecar and --video-sidecar name
  env,       \* what DEVICEDECK_HID and DEVICEDECK_VIDEO name
  app,       \* the --app values: "none", "build", "id", or "bad", a path of no build
  ready,     \* --ready
  binary,    \* where each sidecar's binary was found
  logs,      \* the run's log folder: "none", "open", "closed"
  recorded,  \* what went wrong is in it
  bound,     \* the listener has the address
  welcomed,  \* the startup guide was printed
  code       \* the exit status: -1 before, 3 if a signal killed the process

startVars == <<at, cmd, flag, env, app, ready, binary, logs, recorded, bound, welcomed, code>>
given == <<cmd, flag, env, app, ready>>
Running == -1
KilledCode == 3

StartInit ==
  /\ at = "typed" /\ cmd = "serve" /\ app = "none" /\ ready = FALSE
  /\ flag = [b \in Binaries |-> "none"] /\ env = flag
  /\ binary = [b \in Binaries |-> "none"]
  /\ logs = "none" /\ recorded = FALSE /\ bound = FALSE /\ welcomed = FALSE /\ code = Running

-----------------------------------------------------------------------------
Ends(status) == at' = "exited" /\ code' = status
Goes(step) == at' = step /\ UNCHANGED code

(* A step that fails returns its error to main, which prints it: the logs of *)
(* a run that has them are closed on the way, whether or not it is in them.  *)
StepFails(inLogs) ==
  /\ Ends(1) /\ recorded' = inLogs
  /\ logs' = IF logs = "open" THEN "closed" ELSE logs

Typed(c, f, e, a, r) ==
  /\ at = "typed" /\ cmd' = c /\ flag' = f /\ env' = e /\ app' = a /\ ready' = r
  /\ Goes("main")
  /\ UNCHANGED <<binary, logs, recorded, bound, welcomed>>

(* main: an unknown command is told of and ends with 2.                      *)
Main ==
  /\ at = "main"
  /\ CASE cmd = "serve" -> Goes("flags")
       [] cmd = "mcp" -> Goes("mcp")
       [] cmd = "unknown" -> Ends(2)
       [] cmd = "_video-android" -> Ends(0) \/ Ends(1)
       [] OTHER -> Ends(0)
  /\ UNCHANGED <<given, binary, logs, recorded, bound, welcomed>>

(* runMCP: without its logs it serves all the same.                          *)
McpLogs ==
  /\ at = "mcp" /\ Goes("talking") /\ logs' \in {"none", "open"}
  /\ UNCHANGED <<given, binary, recorded, bound, welcomed>>

McpEnds ==
  /\ at = "talking" /\ (Ends(0) \/ Ends(1))
  /\ logs' = IF logs = "open" THEN "closed" ELSE logs
  /\ UNCHANGED <<given, binary, recorded, bound, welcomed>>

-----------------------------------------------------------------------------
(* parseServeFlags: a bundle id is only for --ready, and a flag may be no    *)
(* flag at all.                                                              *)
Flags ==
  /\ at = "flags"
  /\ \/ (app = "id" => ready) /\ Goes("logs") /\ UNCHANGED <<logs, recorded>>
     \/ StepFails(FALSE)
  /\ UNCHANGED <<given, binary, bound, welcomed>>

(* setupServe.                                                               *)
StartLogs ==
  /\ at = "logs"
  /\ \/ Goes("home") /\ logs' = "open" /\ UNCHANGED recorded
     \/ StepFails(FALSE)
  /\ UNCHANGED <<given, binary, bound, welcomed>>

PrepareHome ==
  /\ at = "home"
  /\ \/ Goes("devicedeck-hid") /\ UNCHANGED <<logs, recorded>>
     \/ StepFails(TRUE)
  /\ UNCHANGED <<given, binary, bound, welcomed>>

NextStep(b) == IF b = "devicedeck-hid" THEN "devicedeck-video" ELSE "stack"

(* Mutant: a name that is no file is passed over.                            *)
ResolveBinaryAny(b) ==
  /\ at = b
  /\ \E beside, built \in BOOLEAN :
       LET place == CASE flag[b] = "file" -> "flag"
                      [] flag[b] # "file" /\ env[b] = "file" -> "env"
                      [] flag[b] # "file" /\ env[b] # "file" /\ beside -> "beside"
                      [] flag[b] # "file" /\ env[b] # "file" /\ ~beside /\ built -> "build"
                      [] OTHER -> "none"
       IN IF place = "none" THEN StepFails(TRUE) /\ UNCHANGED binary
          ELSE /\ binary' = [binary EXCEPT ![b] = place]
               /\ Goes(NextStep(b)) /\ UNCHANGED <<logs, recorded>>
  /\ UNCHANGED <<given, bound, welcomed>>

(* resolveBinary: what the flag names, then the variable; only if neither    *)
(* names anything, what is next to this executable, then the local build.    *)
ResolveBinary(b) ==
  /\ at = b
  /\ \E beside, built \in BOOLEAN :
       LET place == CASE flag[b] = "file" -> "flag"
                      [] flag[b] = "none" /\ env[b] = "file" -> "env"
                      [] flag[b] = "none" /\ env[b] = "none" /\ beside -> "beside"
                      [] flag[b] = "none" /\ env[b] = "none" /\ ~beside /\ built -> "build"
                      [] OTHER -> "none"
       IN IF place = "none" THEN StepFails(TRUE) /\ UNCHANGED binary
          ELSE /\ binary' = [binary EXCEPT ![b] = place]
               /\ Goes(NextStep(b)) /\ UNCHANGED <<logs, recorded>>
  /\ UNCHANGED <<given, bound, welcomed>>

(* buildStack starts no process; a build it cannot identify is returned as   *)
(* it is.                                                                    *)
BuildStack ==
  /\ at = "stack"
  /\ IF app = "bad" THEN StepFails(FALSE) ELSE Goes("listen") /\ UNCHANGED <<logs, recorded>>
  /\ UNCHANGED <<given, binary, bound, welcomed>>

Listen ==
  /\ at = "listen"
  /\ \/ bound' = TRUE /\ Goes("greet") /\ UNCHANGED <<logs, recorded>>
     \/ UNCHANGED bound /\ StepFails(TRUE)
  /\ UNCHANGED <<given, binary, welcomed>>

(* greet: the guide, then --ready, for as long as the device takes.          *)
Greet ==
  /\ at = "greet" /\ welcomed' = TRUE /\ Goes(IF ready THEN "ready" ELSE "wait")
  /\ UNCHANGED <<given, binary, logs, recorded, bound>>

Readied ==
  /\ at = "ready" /\ Goes("wait")
  /\ UNCHANGED <<given, binary, logs, recorded, bound, welcomed>>

-----------------------------------------------------------------------------
(* waitForExit: the listener's failure, or a signal; one that comes before   *)
(* anybody waits for it, or when nobody does any more, kills the process     *)
(* where it is.                                                              *)
ListenFails ==
  /\ at = "wait" /\ StepFails(TRUE)
  /\ UNCHANGED <<given, binary, bound, welcomed>>

SignalComes ==
  /\ at \notin {"typed", "exited"}
  /\ IF at = "wait" THEN Goes("shutdown") ELSE Ends(KilledCode)
  /\ UNCHANGED <<given, binary, logs, recorded, bound, welcomed>>

Shutdown ==
  /\ at = "shutdown" /\ Ends(0) /\ bound' = FALSE /\ logs' = "closed"
  /\ UNCHANGED <<given, binary, recorded, welcomed>>

StartNext ==
  \/ \E c \in Commands \ {"serve"} : Typed(c, flag, env, app, ready)
  \/ \E f, e \in [Binaries -> Named], a \in {"none", "build", "id", "bad"}, r \in BOOLEAN :
        Typed("serve", f, e, a, r)
  \/ Main \/ McpLogs \/ McpEnds \/ Flags \/ StartLogs \/ PrepareHome
  \/ \E b \in Binaries : ResolveBinary(b)
  \/ BuildStack \/ Listen \/ Greet \/ Readied \/ ListenFails \/ SignalComes \/ Shutdown

StartSpec == StartInit /\ [][StartNext]_startVars

-----------------------------------------------------------------------------
(* A server that is up runs the binaries it was told to: "a path given       *)
(* deliberately must be honoured or refused, never quietly replaced"         *)
(* (resolveBinary); it is welcomed to only once it has its address, and one  *)
(* that was not killed leaves its logs closed, however it ended.             *)
StartsAsAsked ==
  /\ bound => \A b \in Binaries :
       /\ binary[b] # "none"
       /\ flag[b] # "none" => binary[b] = "flag"
       /\ flag[b] = "none" /\ env[b] # "none" => binary[b] = "env"
  /\ welcomed /\ at # "exited" => bound
  /\ at = "exited" /\ code # KilledCode => logs # "open"
  /\ code = 0 /\ cmd = "serve" => welcomed
=============================================================================
