-------------------------------- MODULE McpServe --------------------------------
(***************************************************************************)
(* The loop of the MCP server (Serve, internal/mcp/mcp.go): messages are     *)
(* read a line at a time, tool calls answered each from a goroutine of its   *)
(* own, everything else in the loop, over one output that may break.  What   *)
(* a tool does is the subject of Agent.                                      *)
(***************************************************************************)
EXTENDS Integers, Sequences, SequencesExt

CONSTANTS
  MaxLines    \* bound: lines the client writes

ASSUME LinesAssumption == MaxLines \in Nat

(* A tool call with an id; another request, or a line that does not parse; a *)
(* notification.                                                             *)
Kinds == {"call", "other", "note"}

VARIABLES
  stdin,     \* the lines scanned
  eof,       \* the client closed its end
  broken,    \* nobody reads the output any more
  loop,      \* "scan", "check", "reply", "wait", "returned"
  lineAt,    \* each line: "unread", "running", "ready", "answered", "done"
  calls,     \* the wait group
  ticking,   \* the calls whose ticker runs, which asked for progress
  out,       \* the answers written, each as its line: progress notes are left out
  unsent     \* lineWriter.err

mcpVars == <<stdin, eof, broken, loop, lineAt, calls, ticking, out, unsent>>
client == <<eof, broken>>
output == <<out, unsent>>

McpInit ==
  /\ stdin = <<>> /\ eof = FALSE /\ broken = FALSE
  /\ loop = "scan" /\ calls = 0
  /\ lineAt = [i \in 1..MaxLines |-> "unread"]
  /\ ticking = {}
  /\ out = <<>> /\ unsent = FALSE

-----------------------------------------------------------------------------
CloseStdin ==
  /\ ~eof /\ eof' = TRUE
  /\ UNCHANGED <<stdin, broken, loop, lineAt, calls, ticking, output>>

Breaks ==
  /\ ~broken /\ broken' = TRUE
  /\ UNCHANGED <<stdin, eof, loop, lineAt, calls, ticking, output>>

(* lineWriter.send: the first write that fails is the last one tried.        *)
Send(answers) ==
  IF unsent \/ broken THEN unsent' = TRUE /\ UNCHANGED out
  ELSE out' = out \o answers /\ UNCHANGED unsent

-----------------------------------------------------------------------------
line == Len(stdin)

(* A line is scanned before it is known whether its answer could be written. *)
Scan(kind) ==
  /\ loop = "scan" /\ ~eof /\ line < MaxLines
  /\ stdin' = Append(stdin, kind) /\ loop' = "check"
  /\ UNCHANGED <<client, lineAt, calls, ticking, output>>

ScanEnds ==
  /\ loop = "scan" /\ eof
  /\ loop' = "wait"
  /\ UNCHANGED <<client, stdin, lineAt, calls, ticking, output>>

GivesUp ==
  /\ loop = "check" /\ unsent
  /\ loop' = "wait"
  /\ UNCHANGED <<client, stdin, lineAt, calls, ticking, output>>

(* Mutant: the goroutine counts itself, when it comes to run.                *)
RouteLineUncounted ==
  /\ loop = "check" /\ ~unsent
  /\ IF stdin[line] = "call"
     THEN /\ lineAt' = [lineAt EXCEPT ![line] = "running"] /\ UNCHANGED calls
          /\ ticking' \in {ticking, ticking \cup {line}}
          /\ loop' = "scan"
     ELSE /\ loop' = IF stdin[line] = "note" THEN "scan" ELSE "reply"
          /\ UNCHANGED <<lineAt, calls, ticking>>
  /\ UNCHANGED <<client, stdin, output>>

(* route: a tool call with an id gets a goroutine, and a ticker if it gave a *)
(* progress token; a message without an id gets no reply.                    *)
RouteLine ==
  /\ loop = "check" /\ ~unsent
  /\ IF stdin[line] = "call"
     THEN /\ lineAt' = [lineAt EXCEPT ![line] = "running"] /\ calls' = calls + 1
          /\ ticking' \in {ticking, ticking \cup {line}}
          /\ loop' = "scan"
     ELSE /\ loop' = IF stdin[line] = "note" THEN "scan" ELSE "reply"
          /\ UNCHANGED <<lineAt, calls, ticking>>
  /\ UNCHANGED <<client, stdin, output>>

Reply ==
  /\ loop = "reply" /\ loop' = "scan"
  /\ Send(<<line>>)
  /\ UNCHANGED <<client, stdin, lineAt, calls, ticking>>

Return ==
  /\ loop = "wait" /\ calls = 0
  /\ loop' = "returned"
  /\ UNCHANGED <<client, stdin, lineAt, calls, ticking, output>>

-----------------------------------------------------------------------------
(* The goroutine of one call.                                                *)
ToolEnds(i) ==
  /\ lineAt[i] = "running" /\ lineAt' = [lineAt EXCEPT ![i] = "ready"]
  /\ UNCHANGED <<client, stdin, loop, calls, ticking, output>>

Answer(i) ==
  /\ lineAt[i] = "ready" /\ lineAt' = [lineAt EXCEPT ![i] = "answered"]
  /\ Send(<<i>>)
  /\ UNCHANGED <<client, stdin, loop, calls, ticking>>

(* Mutant: a call that failed to write does not count itself off.            *)
CallDoneIfSent(i) ==
  /\ lineAt[i] = "answered" /\ lineAt' = [lineAt EXCEPT ![i] = "done"]
  /\ calls' = IF unsent THEN calls ELSE calls - 1
  /\ UNCHANGED <<client, stdin, loop, ticking, output>>

(* The deferred stop and calls.Done.                                         *)
CallDone(i) ==
  /\ lineAt[i] = "answered" /\ lineAt' = [lineAt EXCEPT ![i] = "done"]
  /\ calls' = calls - 1
  /\ UNCHANGED <<client, stdin, loop, ticking, output>>

(* tickProgress: once done is closed and a tick is due, either is taken; one *)
(* that goes on to the next select may find the same choice.                 *)
Ticks(i) ==
  /\ i \in ticking
  /\ Send(<<>>)
  /\ UNCHANGED <<client, stdin, loop, lineAt, calls, ticking>>

TickerEnds(i) ==
  /\ i \in ticking /\ lineAt[i] = "done"
  /\ ticking' = ticking \ {i}
  /\ UNCHANGED <<client, stdin, loop, lineAt, calls, output>>

Loop == ScanEnds \/ GivesUp \/ RouteLine \/ Reply \/ Return
Goroutine(i) == ToolEnds(i) \/ Answer(i) \/ CallDone(i) \/ TickerEnds(i)

McpNext ==
  \/ \E k \in Kinds : Scan(k)
  \/ CloseStdin \/ Breaks \/ Loop
  \/ \E i \in 1..MaxLines : Goroutine(i) \/ Ticks(i)

McpSpec == McpInit /\ [][McpNext]_mcpVars

(* A tool ends: every request it makes to the server is bounded by           *)
(* callTimeout.                                                              *)
McpFairness ==
  /\ WF_mcpVars(Loop)
  /\ \A i \in 1..MaxLines : WF_mcpVars(Goroutine(i))

-----------------------------------------------------------------------------
(* No request is answered twice and no notification at all; what is not a    *)
(* tool call is answered in order, whatever the calls under way; and when    *)
(* Serve returns having written all it could, every request was answered,    *)
(* the slowest call included (calls.Wait).                                   *)
EachAnsweredOnce ==
  /\ IsInjective(out)
  /\ \A k \in DOMAIN out : stdin[out[k]] # "note"
  /\ \A j, k \in DOMAIN out :
       j < k /\ stdin[out[j]] # "call" /\ stdin[out[k]] # "call" => out[j] < out[k]
  /\ loop = "returned" /\ ~unsent =>
       ToSet(out) = {i \in DOMAIN stdin : stdin[i] # "note"}

(* Once the client is gone Serve returns, so that the process ends with it:  *)
(* whether the output broke, or when, does not keep it.                      *)
ServeReturns == eof ~> loop = "returned"
=============================================================================
