--------------------------------- MODULE Console ---------------------------------
(***************************************************************************)
(* What a serve process prints (CaptureConsole, Close and the terminal's     *)
(* handler, internal/logging): stdout and stderr are replaced by pipes that  *)
(* copies drain to the terminal and to console.log, until they are put back; *)
(* and the log lines shown on the terminal, repeats of which stay quiet for  *)
(* a while.  Printers are goroutines that take a stream and then write.      *)
(***************************************************************************)
EXTENDS Naturals, Sequences, SequencesExt, FiniteSets

CONSTANTS
  Printer,
  Key,       \* the lines a log may say, their time, "took" and "remote" left out
  Window,    \* repeatWindow
  MaxSeen,   \* terminalSeenMax
  MaxLine,   \* bound: lines printed
  MaxClock   \* bound

ASSUME ClockAssumption == Window \in Nat \ {0} /\ MaxClock \in Nat

Std == {"stdout", "stderr"}

VARIABLES
  captured,  \* "no", "stdout" (its pipe is there, not the other's), "yes", "restoring", "over"
  target,    \* where each stream goes: "tty" or "pipe"
  taken,     \* the stream each printer took, and where it went; NoStream
  pipe,      \* what each pipe holds
  open,      \* the pipes that may be written to
  copying,   \* the streams whose copy runs
  printed,   \* the lines written to each pipe, in order
  shown,     \* those of them that reached the terminal
  logged,    \* those that reached console.log
  lines,     \* how many there were
  clock,
  seen,      \* the terminal's memory: of each line, when it was shown, or Never
  repeatAsked,  \* when each was last logged
  said       \* when each was last shown

streams == <<captured, target, taken, pipe, open, copying, printed, shown, logged, lines>>
terminal == <<clock, seen, repeatAsked, said>>
consoleVars == <<streams, terminal>>

NoStream == [std |-> "none", to |-> "tty"]
Never == MaxClock + 1

ConsoleInit ==
  /\ captured = "no" /\ target = [s \in Std |-> "tty"]
  /\ taken = [p \in Printer |-> NoStream]
  /\ pipe = [s \in Std |-> <<>>] /\ printed = pipe /\ shown = pipe /\ logged = pipe
  /\ open = {} /\ copying = {} /\ lines = 0
  /\ clock = 0 /\ seen = [k \in Key |-> Never] /\ repeatAsked = seen /\ said = seen

-----------------------------------------------------------------------------
(* A pipe and its copy for one stream, then for the other.                   *)
Capture(s) ==
  /\ \/ s = "stdout" /\ captured = "no" /\ captured' = "stdout"
     \/ s = "stderr" /\ captured = "stdout" /\ captured' = "yes"
  /\ target' = [target EXCEPT ![s] = "pipe"]
  /\ open' = open \cup {s} /\ copying' = copying \cup {s}
  /\ UNCHANGED <<taken, pipe, printed, shown, logged, lines, terminal>>

(* restore: at Close, or because the second pipe could not be made.          *)
Restore ==
  /\ captured \in {"stdout", "yes"} /\ captured' = "restoring"
  /\ target' = [s \in Std |-> "tty"] /\ open' = {}
  /\ UNCHANGED <<taken, pipe, copying, printed, shown, logged, lines, terminal>>

(* Mutant: the copies are not waited for.                                    *)
CopiesDrainedAtOnce ==
  /\ captured = "restoring"
  /\ captured' = "over"
  /\ UNCHANGED <<target, taken, pipe, open, copying, printed, shown, logged, lines, terminal>>

(* done.Wait, after which the files are closed.                              *)
CopiesDrained ==
  /\ captured = "restoring" /\ copying = {}
  /\ captured' = "over"
  /\ UNCHANGED <<target, taken, pipe, open, copying, printed, shown, logged, lines, terminal>>

(* io.Copy: the terminal first, then the file, if it is open still.          *)
Copy(s) ==
  /\ s \in copying /\ pipe[s] # <<>>
  /\ pipe' = [pipe EXCEPT ![s] = Tail(@)]
  /\ shown' = [shown EXCEPT ![s] = Append(@, Head(pipe[s]))]
  /\ logged' = IF captured = "over" THEN logged
               ELSE [logged EXCEPT ![s] = Append(@, Head(pipe[s]))]
  /\ UNCHANGED <<captured, target, taken, open, copying, printed, lines, terminal>>

CopyEnds(s) ==
  /\ s \in copying \ open /\ pipe[s] = <<>>
  /\ copying' = copying \ {s}
  /\ UNCHANGED <<captured, target, taken, pipe, open, printed, shown, logged, lines, terminal>>

-----------------------------------------------------------------------------
(* A line is printed to the stream as it was when the printer took it: one   *)
(* that finds the pipe closed is lost.                                       *)
Takes(p, s) ==
  /\ taken[p] = NoStream /\ lines < MaxLine
  /\ taken' = [taken EXCEPT ![p] = [std |-> s, to |-> target[s]]]
  /\ lines' = lines + 1
  /\ UNCHANGED <<captured, target, pipe, open, copying, printed, shown, logged, terminal>>

Prints(p) ==
  LET s == taken[p].std IN
  /\ taken[p] # NoStream /\ taken' = [taken EXCEPT ![p] = NoStream]
  /\ IF taken[p].to = "pipe" /\ s \in open
     THEN /\ pipe' = [pipe EXCEPT ![s] = Append(@, p)]
          /\ printed' = [printed EXCEPT ![s] = Append(@, p)]
     ELSE UNCHANGED <<pipe, printed>>
  /\ UNCHANGED <<captured, target, open, copying, shown, logged, lines, terminal>>

-----------------------------------------------------------------------------
ClockTicks ==
  /\ clock < MaxClock /\ clock' = clock + 1
  /\ UNCHANGED <<streams, seen, repeatAsked, said>>

Repeated(k) == seen[k] # Never /\ clock - seen[k] < Window
Full == Cardinality({k \in Key : seen[k] # Never}) >= MaxSeen
Forgotten == IF Full THEN [k \in Key |-> Never] ELSE seen

(* Mutant: a repeat counts as shown.                                         *)
HandleLineMarks(k) ==
  /\ repeatAsked' = [repeatAsked EXCEPT ![k] = clock]
  /\ IF Repeated(k) THEN seen' = [seen EXCEPT ![k] = clock] /\ UNCHANGED said
     ELSE /\ seen' = [Forgotten EXCEPT ![k] = clock]
          /\ said' = [said EXCEPT ![k] = clock]
  /\ UNCHANGED <<streams, clock>>

(* Handle and repeated: the memory, when full, starts over.                  *)
HandleLine(k) ==
  /\ repeatAsked' = [repeatAsked EXCEPT ![k] = clock]
  /\ IF Repeated(k) THEN UNCHANGED <<seen, said>>
     ELSE /\ seen' = [Forgotten EXCEPT ![k] = clock]
          /\ said' = [said EXCEPT ![k] = clock]
  /\ UNCHANGED <<streams, clock>>

StreamsNext ==
  \/ \E s \in Std : Capture(s) \/ Copy(s) \/ CopyEnds(s)
  \/ Restore \/ CopiesDrained
  \/ \E p \in Printer : Prints(p) \/ \E s \in Std : Takes(p, s)

TerminalNext == ClockTicks \/ \E k \in Key : HandleLine(k)

ConsoleSpec == ConsoleInit /\ [][StreamsNext \/ TerminalNext]_consoleVars

-----------------------------------------------------------------------------
(* Close "restores them and drains the copies": once it has returned, and    *)
(* the files with it, every line that was printed to a captured stream is in *)
(* console.log and was shown, in its stream's order, that of a capture that  *)
(* failed halfway included.                                                  *)
NothingPrintedIsLost ==
  captured = "over" => \A s \in Std : logged[s] = printed[s] /\ shown[s] = printed[s]

(* A line that keeps happening is said again: whenever it was logged, it had *)
(* been shown within the window, then or before (repeated).                  *)
SaidLately ==
  \A k \in Key : repeatAsked[k] # Never => said[k] # Never /\ repeatAsked[k] - said[k] < Window
=============================================================================
