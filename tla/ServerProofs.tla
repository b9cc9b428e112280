------------------------------ MODULE ServerProofs ------------------------------
(**************************************************************************)
(* Proofs about the process as a server: how it starts and ends, what it  *)
(* keeps on disk and prints, and the requests it answers, from agents     *)
(* and over HTTP, for any number of handlers, lines, builds, devices and  *)
(* settings.                                                              *)
(*                                                                        *)
(* Each section states the inductive invariant of its module, why the     *)
(* property alone is not inductive, a lemma per action or per group of    *)
(* actions alike, and the theorem.                                        *)
(**************************************************************************)
EXTENDS Exit, Start, Home, Console, McpServe, Requests, Ready, Settings,
        SequenceTheorems, FiniteSetTheorems, TLAPS

-----------------------------------------------------------------------------
(* Sequences *)

(* What is moved from the head of a queue to the end of what was taken, and   *)
(* what is added to the queue, keep the whole in its order.                   *)
LEMMA MoveHead ==
  ASSUME NEW S, NEW done \in Seq(S), NEW rest \in Seq(S), rest # <<>>
  PROVE  Append(done, Head(rest)) \o Tail(rest) = done \o rest
<1> DEFINE whole == Append(done, Head(rest)) \o Tail(rest)
<1>1. /\ Head(rest) \in S /\ Tail(rest) \in Seq(S) /\ Len(Tail(rest)) = Len(rest) - 1
      /\ \A i \in 1 .. Len(Tail(rest)) : Tail(rest)[i] = rest[i + 1]
      /\ Head(rest) = rest[1]
  BY HeadTailProperties
<1>2. /\ Append(done, Head(rest)) \in Seq(S) /\ Len(Append(done, Head(rest))) = Len(done) + 1
      /\ \A i \in 1 .. Len(done) : Append(done, Head(rest))[i] = done[i]
      /\ Append(done, Head(rest))[Len(done) + 1] = Head(rest)
  BY <1>1, AppendProperties
<1>3. whole \in Seq(S) /\ done \o rest \in Seq(S) /\ Len(whole) = Len(done \o rest)
  BY <1>1, <1>2, ConcatProperties
<1>4. ASSUME NEW i \in 1 .. Len(whole) PROVE whole[i] = (done \o rest)[i]
  BY <1>1, <1>2, <1>3, ConcatProperties
<1> QED  BY <1>3, <1>4, SeqEqual

LEMMA AddLast ==
  ASSUME NEW S, NEW done \in Seq(S), NEW rest \in Seq(S), NEW x \in S
  PROVE  done \o Append(rest, x) = Append(done \o rest, x)
<1>1. <<x>> \in Seq(S)
  OBVIOUS
<1>2. done \o (rest \o <<x>>) = (done \o rest) \o <<x>>
  BY <1>1, ConcatAssociative
<1> QED  BY <1>2, AppendIsConcat, ConcatProperties

LEMMA HeadInWhole ==
  ASSUME NEW S, NEW done \in Seq(S), NEW rest \in Seq(S), rest # <<>>
  PROVE  /\ Head(rest) \in S /\ Len(done) + 1 \in DOMAIN (done \o rest)
         /\ (done \o rest)[Len(done) + 1] = Head(rest)
<1>1. Len(rest) \in Nat \ {0} /\ Len(done) \in Nat /\ Head(rest) = rest[1] /\ Head(rest) \in S
  BY LenProperties, HeadTailProperties
<1>2. /\ Len(done \o rest) = Len(done) + Len(rest) /\ DOMAIN (done \o rest) = 1 .. Len(done) + Len(rest)
      /\ (done \o rest)[Len(done) + 1] = rest[1]
  BY <1>1, ConcatProperties, LenProperties
<1> QED  BY <1>1, <1>2

LEMMA AppendElements ==
  ASSUME NEW S, NEW s \in Seq(S), NEW x \in S
  PROVE  /\ Append(s, x) \in Seq(S)
         /\ \A i \in DOMAIN Append(s, x) :
              (i \in DOMAIN s /\ Append(s, x)[i] = s[i]) \/ Append(s, x)[i] = x
         /\ \A i \in DOMAIN s : i \in DOMAIN Append(s, x) /\ Append(s, x)[i] = s[i]
         /\ \E i \in DOMAIN Append(s, x) : Append(s, x)[i] = x
<1>1. Len(s) \in Nat /\ DOMAIN s = 1 .. Len(s)
  BY LenProperties
<1>2. /\ Append(s, x) \in Seq(S) /\ DOMAIN Append(s, x) = 1 .. Len(s) + 1
      /\ \A i \in 1 .. Len(s) : Append(s, x)[i] = s[i]
      /\ Append(s, x)[Len(s) + 1] = x
  BY <1>1, AppendProperties, LenProperties
<1> QED  BY <1>1, <1>2

(* What is taken off the head leaves the others.                              *)
LEMMA TailElements ==
  ASSUME NEW S, NEW s \in Seq(S), s # <<>>
  PROVE  /\ Tail(s) \in Seq(S)
         /\ \A i \in DOMAIN s : s[i] = Head(s) \/ \E j \in DOMAIN Tail(s) : Tail(s)[j] = s[i]
<1>1. /\ Tail(s) \in Seq(S) /\ Len(s) \in Nat \ {0} /\ DOMAIN s = 1 .. Len(s) /\ Head(s) = s[1]
      /\ DOMAIN Tail(s) = 1 .. Len(s) - 1
      /\ \A j \in 1 .. Len(s) - 1 : Tail(s)[j] = s[j + 1]
  BY HeadTailProperties, LenProperties
<1>2. ASSUME NEW i \in DOMAIN s, i # 1 PROVE Tail(s)[i - 1] = s[i] /\ i - 1 \in DOMAIN Tail(s)
  BY <1>1, <1>2
<1> QED  BY <1>1, <1>2

(* The empty sequence has no element.                                         *)
LEMMA NothingIn == ASSUME NEW s, s = <<>> PROVE \A i \in DOMAIN s : FALSE
<1>1. s \in Seq(Nat) /\ Len(s) = 0
  BY EmptySeq
<1> QED  BY <1>1, LenProperties

-----------------------------------------------------------------------------
(* Exit: LetGoIsOff speaks of an exit that is over. What carries it      *)
(* there is Orderly: from the drain on no request has a device in hand,  *)
(* and what was on then is stopped by one of the two calls that follow.  *)

(* Once the drain is over, what an orderly exit has yet to do.               *)
Orderly ==
  orderly =>
    /\ serving \in {"closed", "listed", "stopped", "ended"}
    /\ serving # "ended" => InHand = {}
    /\ serving = "listed" => driven = engines
    /\ serving = "stopped" => stopped \cap on \subseteq refused \cup driven

ExitIInv == ExitTypeOK /\ Orderly /\ LetGoIsOff

LEMMA ExitInitInv == ExitInit => ExitIInv
  BY DEF ExitInit, ExitIInv, ExitTypeOK, Orderly, LetGoIsOff, Over, InHand

(* What a request does, by itself or the devices', an orderly exit has none  *)
(* of.                                                                       *)
LEMMA ExitRequestStep ==
  ASSUME ExitIInv, NEW h \in Handler,
         \/ \E d \in Driven : Ask(h, d)
         \/ Done(h) \/ Boots(h) \/ EngineStarts(h) \/ EngineFails(h) \/ EndSession(h)
  PROVE  ExitIInv'
<1> USE DEF ExitIInv, end
<1>1. ExitTypeOK'
  <2>1. CASE \E d \in Driven : Ask(h, d)
    BY <2>1 DEF Ask, ExitTypeOK
  <2>2. CASE Done(h) \/ EngineFails(h)
    BY <2>2 DEF Done, EngineFails, ExitTypeOK
  <2>3. CASE Boots(h) \/ EngineStarts(h)
    BY <2>3 DEF Boots, EngineStarts, ExitTypeOK
  <2>4. CASE EndSession(h)
    BY <2>4 DEF EndSession, ExitTypeOK
  <2> QED  BY <2>1, <2>2, <2>3, <2>4
<1>2. ~orderly
  BY NoneAssumption
     DEF Orderly, InHand, Ask, Done, Boots, EngineStarts, EngineFails, EndSession,
         Alive, ExitTypeOK
<1>3. ~orderly'
  BY <1>2 DEF Ask, Done, Boots, EngineStarts, EngineFails, EndSession
<1> QED  BY <1>1, <1>3 DEF Orderly, LetGoIsOff, Over

(* The steps of the process itself.                                          *)
LEMMA ExitProcessStep ==
  ASSUME ExitIInv, \/ Greeted \/ Signal \/ ListenerFails \/ Killed \/ Drained \/ List \/ StopAll \/ Exits
               \/ \E d \in Driven : PowerOff(d)
  PROVE  ExitIInv'
<1> USE DEF ExitIInv, end
<1>1. CASE Greeted \/ Signal \/ ListenerFails \/ Killed
  <2>1. ExitTypeOK'
    BY <1>1 DEF Greeted, Signal, ListenerFails, Killed, ExitTypeOK
  <2>2. ~orderly'
    BY <1>1 DEF Greeted, Signal, ListenerFails, Killed, Orderly
  <2> QED  BY <2>1, <2>2 DEF Orderly, LetGoIsOff, Over
<1>2. CASE Drained
  BY <1>2 DEF Drained, InHand, ExitTypeOK, Orderly, LetGoIsOff, Over
<1>3. CASE List
  BY <1>3 DEF List, InHand, ExitTypeOK, Orderly, LetGoIsOff, Over
<1>4. CASE StopAll
  BY <1>4 DEF StopAll, InHand, ExitTypeOK, Orderly, LetGoIsOff, Over
<1>5. ASSUME NEW d \in Driven, PowerOff(d) PROVE ExitIInv'
  BY <1>5 DEF PowerOff, InHand, ExitTypeOK, Orderly, LetGoIsOff, Over
<1>6. CASE Exits
  BY <1>6 DEF Exits, InHand, ExitTypeOK, Orderly, LetGoIsOff, Over
<1> QED  BY <1>1, <1>2, <1>3, <1>4, <1>5, <1>6

LEMMA ExitStepInv == ExitIInv /\ [ExitNext]_exitVars => ExitIInv'
<1> SUFFICES ASSUME ExitIInv, [ExitNext]_exitVars PROVE ExitIInv'
  OBVIOUS
<1>1. CASE UNCHANGED exitVars
  BY <1>1 DEF exitVars, ExitIInv, ExitTypeOK, Orderly, LetGoIsOff, Over, InHand
<1> QED  BY <1>1, ExitRequestStep, ExitProcessStep DEF ExitNext

(* However many devices and requests: a device whose engine an orderly exit  *)
(* let go of is off when the process is gone, unless powering it off failed  *)
(* (shutdown).                                                               *)
THEOREM ExitLeavesNothingOn == ExitSpec => []LetGoIsOff
<1>1. ExitIInv => LetGoIsOff  BY DEF ExitIInv
<1> QED  BY <1>1, ExitInitInv, ExitStepInv, PTL DEF ExitSpec

-----------------------------------------------------------------------------
(* Start: what StartsAsAsked says of a server that is up was settled     *)
(* long before it is; WayIn carries it from where each binary was looked *)
(* for to the address, WayOut follows the logs, the code and the welcome *)
(* to the exit.                                                          *)

(* Where a start of serve is once a binary was looked for, in order, and once *)
(* it has its address.                                                        *)
HidFound == {"devicedeck-video", "stack", "listen", "greet", "ready", "wait", "shutdown"}
BothFound == HidFound \ {"devicedeck-video"}
HasAddress == {"greet", "ready", "wait", "shutdown"}
Steps == HidFound \cup {"typed", "main", "mcp", "talking", "flags", "logs", "home",
                        "devicedeck-hid", "exited"}

StartTypeOK ==
  /\ at \in Steps /\ cmd \in Commands
  /\ flag \in [Binaries -> Named] /\ env \in [Binaries -> Named]
  /\ binary \in [Binaries -> Places]
  /\ logs \in {"none", "open", "closed"} /\ code \in Int
  /\ bound \in BOOLEAN /\ welcomed \in BOOLEAN

(* What was asked of a binary is what was found.                              *)
FoundAsAsked(b) ==
  /\ binary[b] # "none"
  /\ flag[b] # "none" => binary[b] = "flag"
  /\ flag[b] = "none" /\ env[b] # "none" => binary[b] = "env"

WayIn ==
  /\ at \in HidFound => FoundAsAsked("devicedeck-hid")
  /\ at \in BothFound \/ bound => \A b \in Binaries : FoundAsAsked(b)
  /\ at \in HasAddress => bound
  /\ bound \/ welcomed => at \in HasAddress \cup {"exited"}
  /\ at \in HasAddress \ {"greet"} => welcomed
  /\ welcomed /\ at # "exited" => bound

WayOut ==
  /\ at \in {"typed", "main", "mcp", "flags", "logs"} => logs = "none"
  /\ at # "exited" => code = Running
  /\ at \in {"mcp", "talking"} => cmd = "mcp"
  /\ at = "exited" /\ code # KilledCode => logs # "open"
  /\ code = 0 /\ cmd = "serve" => welcomed

StartIInv == StartTypeOK /\ WayIn /\ WayOut

LEMMA StartInitInv == StartInit => StartIInv
<1> SUFFICES ASSUME StartInit PROVE StartIInv
  OBVIOUS
<1> USE DEF StartInit
<1>1. at \in Steps /\ cmd \in Commands
  BY DEF Steps, HidFound, Commands
<1>2. flag \in [Binaries -> Named] /\ env \in [Binaries -> Named]
  BY DEF Named
<1>3. binary \in [Binaries -> Places] /\ logs \in {"none", "open", "closed"} /\ code \in Int
  BY DEF Places, Running
<1>4. bound \in BOOLEAN /\ welcomed \in BOOLEAN
  OBVIOUS
<1>5. WayIn /\ WayOut
  BY DEF WayIn, WayOut, HidFound, BothFound, HasAddress, Running, KilledCode
<1> QED  BY <1>1, <1>2, <1>3, <1>4, <1>5 DEF StartIInv, StartTypeOK

(* What ResolveBinary does of one binary.                                     *)
LEMMA ResolveBinaryStep ==
  ASSUME NEW b \in Binaries, StartTypeOK, ResolveBinary(b)
  PROVE  /\ at = b /\ UNCHANGED <<cmd, flag, env, bound, welcomed>>
         /\ \/ at' = "exited" /\ code' = 1 /\ UNCHANGED binary
               /\ logs' = IF logs = "open" THEN "closed" ELSE logs
            \/ at' = NextStep(b) /\ UNCHANGED <<code, logs>>
               /\ \E place \in Places \ {"none"} :
                    /\ binary' = [binary EXCEPT ![b] = place]
                    /\ flag[b] # "none" => place = "flag"
                    /\ flag[b] = "none" /\ env[b] # "none" => place = "env"
BY DEF ResolveBinary, StartTypeOK, Places, Named, given, Ends, Goes, StepFails

LEMMA StartTypeStep == StartTypeOK /\ [StartNext]_startVars => StartTypeOK'
<1> SUFFICES ASSUME StartTypeOK, [StartNext]_startVars PROVE StartTypeOK'
  OBVIOUS
<1> USE DEF StartTypeOK, given, Ends, Goes, StepFails
<1>1. CASE UNCHANGED startVars
  BY <1>1 DEF startVars
<1>2. ASSUME NEW c \in Commands, NEW f \in [Binaries -> Named], NEW e \in [Binaries -> Named],
             NEW a, NEW r, Typed(c, f, e, a, r)
      PROVE  StartTypeOK'
  BY <1>2 DEF Typed, Steps
<1>3. CASE Main \/ McpLogs \/ McpEnds
  BY <1>3 DEF Main, McpLogs, McpEnds, Steps
<1>4. CASE Flags \/ StartLogs \/ PrepareHome
  BY <1>4 DEF Flags, StartLogs, PrepareHome, Steps
<1>5. ASSUME NEW b \in Binaries, ResolveBinary(b) PROVE StartTypeOK'
  BY <1>5, ResolveBinaryStep DEF NextStep, Steps, HidFound
<1>6. CASE BuildStack \/ Listen \/ Greet \/ Readied
  <2>1. bound' \in BOOLEAN /\ welcomed' \in BOOLEAN
    BY <1>6 DEF BuildStack, Listen, Greet, Readied
  <2>2. at' \in Steps /\ code' \in Int /\ logs' \in {"none", "open", "closed"}
    BY <1>6 DEF BuildStack, Listen, Greet, Readied, Steps, HidFound
  <2>3. UNCHANGED <<cmd, flag, env, binary>>
    BY <1>6 DEF BuildStack, Listen, Greet, Readied
  <2> QED  BY <2>1, <2>2, <2>3
<1>7. CASE ListenFails \/ SignalComes \/ Shutdown
  <2>1. bound' \in BOOLEAN /\ welcomed' \in BOOLEAN
    BY <1>7 DEF ListenFails, SignalComes, Shutdown
  <2>2. at' \in Steps /\ code' \in Int /\ logs' \in {"none", "open", "closed"}
    BY <1>7 DEF ListenFails, SignalComes, Shutdown, Steps, HidFound, KilledCode
  <2>3. UNCHANGED <<cmd, flag, env, binary>>
    BY <1>7 DEF ListenFails, SignalComes, Shutdown
  <2> QED  BY <2>1, <2>2, <2>3
<1> QED
  BY <1>1, <1>2, <1>3, <1>4, <1>5, <1>6, <1>7 DEF StartNext, Commands

LEMMA StartStepInv == StartIInv /\ [StartNext]_startVars => StartIInv'
<1> SUFFICES ASSUME StartIInv, [StartNext]_startVars PROVE WayIn' /\ WayOut'
  BY StartTypeStep DEF StartIInv
<1> USE DEF StartIInv, WayIn, WayOut, FoundAsAsked, HidFound, BothFound, HasAddress, Running,
            KilledCode, given, Ends, Goes, StepFails
<1>1. CASE UNCHANGED startVars
  BY <1>1 DEF startVars
<1>2. ASSUME NEW c, NEW f, NEW e, NEW a, NEW r, Typed(c, f, e, a, r) PROVE WayIn' /\ WayOut'
  <2>1. /\ at = "typed" /\ at' = "main" /\ ~bound /\ ~welcomed
        /\ UNCHANGED <<binary, logs, bound, welcomed, code>>
    BY <1>2 DEF Typed
  <2> QED  BY <2>1
<1>3. CASE Main \/ McpLogs \/ McpEnds
  BY <1>3 DEF Main, McpLogs, McpEnds
<1>4. CASE Flags \/ StartLogs \/ PrepareHome
  BY <1>4 DEF Flags, StartLogs, PrepareHome
<1>5. ASSUME NEW b \in Binaries, ResolveBinary(b) PROVE WayIn' /\ WayOut'
  BY <1>5, ResolveBinaryStep DEF NextStep, Places, Binaries, StartTypeOK
<1>6. CASE BuildStack \/ Listen \/ Greet \/ Readied
  BY <1>6 DEF BuildStack, Listen, Greet, Readied
<1>7. CASE ListenFails \/ SignalComes \/ Shutdown
  BY <1>7 DEF ListenFails, SignalComes, Shutdown
<1> QED
  BY <1>1, <1>2, <1>3, <1>4, <1>5, <1>6, <1>7 DEF StartNext

(* However it is started and wherever it fails, a server that is up runs *)
(* the binaries its flags and environment name, it is welcomed to only   *)
(* with its address, and its logs are closed when it ends (runServe,     *)
(* setupServe, resolveBinary, listen).                                   *)
THEOREM ServerStartsAsAsked == StartSpec => []StartsAsAsked
<1>1. StartIInv => StartsAsAsked
  BY DEF StartIInv, StartTypeOK, WayIn, WayOut, FoundAsAsked, StartsAsAsked, Running
<1> QED  BY <1>1, StartInitInv, StartStepInv, PTL DEF StartSpec

-----------------------------------------------------------------------------
(* Home: that the folders hold the build once a process is ready follows *)
(* from how far it is with each folder (Installed) and from what the     *)
(* file it has open is and will be renamed to (InstallUnderWay). A crash *)
(* forgets the latter and leaves the former to be done again.            *)

At == {"off", "files", "opened", "written", "stale", "ready", "failed"}

HomeTypeOK ==
  /\ bytes \in [Paths -> Int]
  /\ installer \in [Process -> At]
  /\ build \in [Process -> Build \cup {AnyBuild}]
  /\ folder \in [Process -> {"android", "ios"}]
  /\ files \in [Process -> SUBSET Files] /\ writing \in [Process -> Files \cup {AnyFile}]
  /\ fd \in [Process -> Paths \cup {NoPath}] /\ stale \in [Process -> SUBSET Paths]

(* A folder holds what a build ships of it, but the files not done yet, and   *)
(* nothing else that its drivers' installer would take.                       *)
HoldsAll(b, place, but) == \A f \in Shipped(b, place) \ but : Holds(f, b)
HoldsOnly(b, place, but) ==
  \A q \in (In(place) \X {"file", "tmp"}) \ but :
    bytes[q] # NoBytes =>
      \/ \E f \in Shipped(b, place) : q = File(f)
      \/ place = "android" /\ q[2] = "tmp"

(* How far a process has come with the folders.                               *)
Installed(p) ==
  /\ installer[p] \in At \ {"off", "failed"} => build[p] \in Build
  /\ installer[p] \in {"files", "opened", "written", "stale", "ready"} =>
       /\ HoldsAll(build[p], folder[p], files[p])
       /\ folder[p] = "ios" =>
            HoldsAll(build[p], "android", {}) /\ HoldsOnly(build[p], "android", {})
  /\ installer[p] \in {"stale", "ready"} =>
       files[p] = {} /\ HoldsOnly(build[p], folder[p], stale[p])
  /\ installer[p] = "stale" =>
       \A q \in stale[p] : /\ q[1] \in In(folder[p])
                           /\ \A f \in Shipped(build[p], folder[p]) : q # File(f)
  /\ installer[p] = "ready" => folder[p] = "ios" /\ stale[p] = {}

(* What a process has opened is the temporary file of what it writes, which   *)
(* is whole once written.                                                     *)
InstallUnderWay(p) ==
  /\ installer[p] \in {"files", "opened", "written"} =>
       files[p] \subseteq Shipped(build[p], folder[p])
  /\ installer[p] \in {"opened", "written"} => writing[p] \in files[p]
  /\ installer[p] = "opened" => fd[p] = Tmp(writing[p])
  /\ installer[p] # "opened" => fd[p] = NoPath
  /\ installer[p] = "written" => bytes[Tmp(writing[p])] = Ships[build[p]][writing[p]]

HomeIInv ==
  HomeTypeOK /\ NeverTruncated /\ \A p \in Process : Installed(p) /\ InstallUnderWay(p)

LEMMA HomeInitInv == HomeInit => HomeIInv
  BY DEF HomeInit, HomeIInv, HomeTypeOK, NeverTruncated, Installed, InstallUnderWay, At, Paths, File,
         NoBytes, Partial, NoPath

(* Where a file is, and where it is written first.                            *)
LEMMA PathsApart ==
  /\ \A f \in Files : File(f) \in Paths /\ Tmp(f) \in Paths
  /\ \A f, g : File(f) # Tmp(g) /\ (File(f) = File(g) => f = g) /\ (Tmp(f) = Tmp(g) => f = g)
  /\ \A f : File(f) # NoPath /\ Tmp(f) # NoPath /\ File(f)[2] = "file" /\ Tmp(f)[2] = "tmp"
  /\ \A f : File(f)[1] = f /\ Tmp(f)[1] = f
  BY DEF Paths, File, Tmp, NoPath

(* The two folders share nothing, and what a build ships is of one of them.   *)
LEMMA FoldersApart ==
  /\ In("android") \cap In("ios") = {} /\ In("android") \cup In("ios") = Files
  /\ \A b \in Build : DOMAIN Ships[b] \subseteq Files
  /\ \A b, place : Shipped(b, place) \subseteq In(place) /\ Shipped(b, place) \subseteq DOMAIN Ships[b]
  BY ShipsAssumption DEF In, Files, Shipped

(* A single process, and what one of its steps has to keep.                   *)
LEMMA OneProcess ==
  ASSUME \A p, q \in Process : p = q, NEW p \in Process,
         HomeTypeOK', NeverTruncated', Installed(p)', InstallUnderWay(p)'
  PROVE  HomeIInv'
  BY DEF HomeIInv

(* Steps that leave every path as it is.                                      *)
LEMMA LooksStep ==
  ASSUME HomeIInv, NEW p \in Process, \A q \in Process : p = q,
         \/ \E b \in Build : Starts(p, b)
         \/ \E f \in Files : Unchanged(p, f)
         \/ WriteFails(p) \/ FindsStale(p) \/ AgentFolder(p) \/ Prepared(p) \/ Dies(p)
         \/ \E q \in Paths : RemoveFails(p, q)
  PROVE  HomeIInv'
<1> USE DEF HomeIInv
<1>1. UNCHANGED bytes /\ NeverTruncated'
  BY DEF Starts, Unchanged, WriteFails, FindsStale, AgentFolder, Prepared, Dies, RemoveFails,
         NeverTruncated
<1>2. CASE \E b \in Build : Starts(p, b)
  <2> PICK b \in Build : Starts(p, b)
    BY <1>2
  <2>1. HomeTypeOK'
    BY FoldersApart DEF Starts, HomeTypeOK, At
  <2>2. Installed(p)' /\ InstallUnderWay(p)'
    BY <1>1 DEF Starts, HomeTypeOK, Installed, InstallUnderWay, HoldsAll, At
  <2> QED  BY <1>1, <2>1, <2>2
<1>3. CASE \E f \in Files : Unchanged(p, f)
  <2> PICK f \in Files : Unchanged(p, f)
    BY <1>3
  <2>1. HomeTypeOK'
    BY DEF Unchanged, HomeTypeOK
  <2>2. Installed(p)' /\ InstallUnderWay(p)'
    BY <1>1 DEF Unchanged, HomeTypeOK, Installed, InstallUnderWay, HoldsAll, HoldsOnly, Holds, At
  <2> QED  BY <1>1, <2>1, <2>2
<1>4. CASE WriteFails(p)
  <2>1. HomeTypeOK'
    BY <1>4 DEF WriteFails, HomeTypeOK, At
  <2>2. Installed(p)' /\ InstallUnderWay(p)'
    BY <1>4 DEF WriteFails, HomeTypeOK, Installed, InstallUnderWay
  <2> QED  BY <1>1, <2>1, <2>2
<1>5. CASE FindsStale(p)
  <2>1. /\ installer[p] = "files" /\ files[p] = {} /\ UNCHANGED <<build, folder, files, writing, fd>>
        /\ installer' = [installer EXCEPT ![p] = "stale"]
        /\ stale' \in [Process -> SUBSET Paths]
        /\ \A q : q \in stale'[p] <=>
              /\ q \in In(folder[p]) \X {"file", "tmp"} /\ bytes[q] # NoBytes
              /\ folder[p] = "android" => q[2] = "file"
              /\ \A f \in Shipped(build[p], folder[p]) : q # File(f)
    BY <1>5, FoldersApart DEF FindsStale, HomeTypeOK, Paths
  <2>2. HomeTypeOK'
    BY <1>1, <2>1 DEF HomeTypeOK, At
  <2>3. HoldsOnly(build[p], folder[p], stale'[p])
    BY <2>1 DEF HoldsOnly, HomeTypeOK
  <2>4. Installed(p)'
    BY <1>1, <2>1, <2>3 DEF HomeTypeOK, Installed, HoldsAll, HoldsOnly, Holds, At
  <2>5. InstallUnderWay(p)'
    BY <2>1 DEF HomeTypeOK, InstallUnderWay
  <2> QED  BY <1>1, <2>2, <2>4, <2>5
<1>6. CASE AgentFolder(p)
  <2>1. HomeTypeOK'
    BY <1>6, FoldersApart DEF AgentFolder, HomeTypeOK, At, Installed
  <2>2. Installed(p)' /\ InstallUnderWay(p)'
    BY <1>1, <1>6 DEF AgentFolder, HomeTypeOK, Installed, InstallUnderWay, HoldsAll, HoldsOnly, Holds, At
  <2> QED  BY <1>1, <2>1, <2>2
<1>7. CASE Prepared(p)
  <2>1. HomeTypeOK'
    BY <1>7 DEF Prepared, HomeTypeOK, At
  <2>2. Installed(p)' /\ InstallUnderWay(p)'
    BY <1>1, <1>7 DEF Prepared, HomeTypeOK, Installed, InstallUnderWay, HoldsAll, HoldsOnly, Holds, At
  <2> QED  BY <1>1, <2>1, <2>2
<1>8. CASE Dies(p)
  <2>1. HomeTypeOK'
    BY <1>8 DEF Dies, HomeTypeOK, At, NoPath
  <2>2. Installed(p)' /\ InstallUnderWay(p)'
    BY <1>8 DEF Dies, HomeTypeOK, Installed, InstallUnderWay, NoPath
  <2> QED  BY <1>1, <2>1, <2>2
<1>9. CASE \E q \in Paths : RemoveFails(p, q)
  <2>1. HomeTypeOK'
    BY <1>9 DEF RemoveFails, HomeTypeOK, At
  <2>2. Installed(p)' /\ InstallUnderWay(p)'
    BY <1>9 DEF RemoveFails, HomeTypeOK, Installed, InstallUnderWay
  <2> QED  BY <1>1, <2>1, <2>2
<1> QED  BY <1>2, <1>3, <1>4, <1>5, <1>6, <1>7, <1>8, <1>9

LEMMA OpensStep ==
  ASSUME HomeIInv, NEW p \in Process, \A q \in Process : p = q, NEW f \in Files, Opens(p, f)
  PROVE  HomeIInv'
<1> USE PathsApart DEF HomeIInv
<1>1. /\ installer[p] = "files" /\ f \in files[p] /\ Tmp(f) \in Paths
      /\ bytes' = [bytes EXCEPT ![Tmp(f)] = Partial] /\ fd' = [fd EXCEPT ![p] = Tmp(f)]
      /\ writing' = [writing EXCEPT ![p] = f] /\ installer' = [installer EXCEPT ![p] = "opened"]
      /\ UNCHANGED <<build, folder, files, stale>>
  BY DEF Opens, OpenAt
<1>2. HomeTypeOK'
  BY <1>1 DEF HomeTypeOK, At, Partial
<1>3. \A g \in Files : bytes'[File(g)] = bytes[File(g)]
  BY <1>1 DEF HomeTypeOK
<1>4. NeverTruncated'
  BY <1>3 DEF NeverTruncated
<1>5. folder[p] = "ios" => HoldsOnly(build[p], "android", {})'
  BY <1>1, FoldersApart DEF Installed, InstallUnderWay, HoldsOnly, HomeTypeOK
<1>6. Installed(p)'
  BY <1>1, <1>3, <1>5, FoldersApart DEF HomeTypeOK, Installed, HoldsAll, Holds, At
<1>7. InstallUnderWay(p)'
  BY <1>1 DEF HomeTypeOK, InstallUnderWay
<1> QED  BY <1>2, <1>4, <1>6, <1>7

LEMMA WritesStep ==
  ASSUME HomeIInv, NEW p \in Process, \A q \in Process : p = q, Writes(p)
  PROVE  HomeIInv'
<1> USE PathsApart DEF HomeIInv
<1> DEFINE f == writing[p]
<1>1. /\ installer[p] = "opened" /\ f \in Files /\ build[p] \in Build
      /\ f \in Shipped(build[p], folder[p]) /\ fd[p] = Tmp(f) /\ Tmp(f) \in Paths
  BY FoldersApart DEF Writes, Installed, InstallUnderWay, HomeTypeOK, At
<1>2. /\ bytes' = [q \in Paths |-> IF q = Tmp(f) THEN Ships[build[p]][f] ELSE bytes[q]]
      /\ installer' = [installer EXCEPT ![p] = "written"] /\ fd' = [fd EXCEPT ![p] = NoPath]
      /\ UNCHANGED <<build, folder, files, writing, stale>>
  BY <1>1 DEF Writes, HomeTypeOK
<1>3. Ships[build[p]][f] \in Nat
  BY <1>1, FoldersApart, ShipsAssumption
<1> HIDE DEF f
<1>4. HomeTypeOK'
  BY <1>1, <1>2, <1>3 DEF HomeTypeOK, At, NoPath
<1>5. \A g \in Files : bytes'[File(g)] = bytes[File(g)]
  BY <1>1, <1>2 DEF HomeTypeOK
<1>6. NeverTruncated'
  BY <1>5 DEF NeverTruncated
<1>7. folder[p] = "ios" => HoldsOnly(build[p], "android", {})'
  <2>1. \A q \in Paths : q # Tmp(f) => bytes'[q] = bytes[q]
    BY <1>2
  <2>2. folder[p] = "ios" => Tmp(f) \notin In("android") \X {"file", "tmp"}
    BY <1>1, FoldersApart
  <2>3. folder[p] = "ios" => HoldsOnly(build[p], "android", {}) /\ build'[p] = build[p]
    BY <1>1, <1>2 DEF Installed
  <2>4. In("android") \X {"file", "tmp"} \subseteq Paths
    BY FoldersApart DEF Paths
  <2> QED  BY <2>1, <2>2, <2>3, <2>4 DEF HoldsOnly
<1>8. Installed(p)'
  BY <1>1, <1>2, <1>5, <1>7, FoldersApart DEF HomeTypeOK, Installed, HoldsAll, Holds, At
<1>9. InstallUnderWay(p)'
  BY <1>1, <1>2 DEF HomeTypeOK, InstallUnderWay, f
<1> QED  BY <1>4, <1>6, <1>8, <1>9

LEMMA RenamesStep ==
  ASSUME HomeIInv, NEW p \in Process, \A q \in Process : p = q, Renames(p)
  PROVE  HomeIInv'
<1> USE PathsApart DEF HomeIInv
<1> DEFINE f == writing[p]
<1>1. /\ installer[p] = "written" /\ f \in Files /\ build[p] \in Build /\ f \in files[p]
      /\ f \in Shipped(build[p], folder[p]) /\ Tmp(f) \in Paths /\ File(f) \in Paths
      /\ bytes[Tmp(f)] = Ships[build[p]][f] /\ fd[p] = NoPath
  BY FoldersApart DEF Renames, Installed, InstallUnderWay, HomeTypeOK, At
<1>2. /\ bytes' = [bytes EXCEPT ![File(f)] = bytes[Tmp(f)], ![Tmp(f)] = NoBytes]
      /\ installer' = [installer EXCEPT ![p] = "files"]
      /\ files' = [files EXCEPT ![p] = files[p] \ {f}]
      /\ UNCHANGED <<build, folder, writing, stale>>
  BY DEF Renames
<1>3. UNCHANGED fd
  BY <1>1 DEF Renames, Moved, HomeTypeOK
<1>4. Ships[build[p]][f] \in Nat
  BY <1>1, FoldersApart, ShipsAssumption
<1> HIDE DEF f
<1>5. /\ bytes'[File(f)] = Ships[build[p]][f]
      /\ \A q \in Paths \ {File(f), Tmp(f)} : bytes'[q] = bytes[q]
      /\ bytes' \in [Paths -> Int]
  BY <1>1, <1>2, <1>4 DEF HomeTypeOK, NoBytes
<1>6. HomeTypeOK'
  BY <1>1, <1>2, <1>3, <1>5 DEF HomeTypeOK, At
<1>7. \A g \in Files \ {f} : bytes'[File(g)] = bytes[File(g)]
  BY <1>1, <1>5
<1>8. NeverTruncated'
  BY <1>4, <1>5, <1>7 DEF NeverTruncated, Partial
<1>9. folder[p] = "ios" => HoldsOnly(build[p], "android", {})' /\ HoldsAll(build[p], "android", {})'
  <2> SUFFICES ASSUME folder[p] = "ios"
               PROVE  HoldsOnly(build[p], "android", {})' /\ HoldsAll(build[p], "android", {})'
    OBVIOUS
  <2>1. /\ HoldsOnly(build[p], "android", {}) /\ HoldsAll(build[p], "android", {})
        /\ f \in In("ios") /\ build'[p] = build[p]
    BY <1>1, <1>2, FoldersApart DEF Installed
  <2>2. \A q \in In("android") \X {"file", "tmp"} : bytes'[q] = bytes[q]
    BY <1>5, <2>1, FoldersApart DEF Paths
  <2>3. HoldsOnly(build[p], "android", {})'
    BY <2>1, <2>2 DEF HoldsOnly
  <2>4. HoldsAll(build[p], "android", {})'
    BY <1>7, <2>1, FoldersApart DEF HoldsAll, Holds
  <2> QED  BY <2>3, <2>4
<1>10. HoldsAll(build[p], folder[p], files[p])'
  <2>1. HoldsAll(build[p], folder[p], files[p]) /\ build'[p] = build[p] /\ folder'[p] = folder[p]
    BY <1>1, <1>2 DEF Installed
  <2>2. files'[p] = files[p] \ {f}
    BY <1>2 DEF HomeTypeOK
  <2>3. ASSUME NEW g \in Shipped(build[p], folder[p]), g \notin files[p] \ {f}
        PROVE  bytes'[File(g)] = Ships[build[p]][g]
    BY <1>1, <1>5, <1>7, <2>1, <2>3, FoldersApart DEF HoldsAll, Holds
  <2> QED  BY <2>1, <2>2, <2>3 DEF HoldsAll, Holds
<1>11. Installed(p)'
  BY <1>1, <1>2, <1>9, <1>10 DEF HomeTypeOK, Installed, HoldsAll, At
<1>12. InstallUnderWay(p)'
  BY <1>1, <1>2, <1>3 DEF HomeTypeOK, InstallUnderWay
<1> QED  BY <1>6, <1>8, <1>11, <1>12

LEMMA RenameFailsStep ==
  ASSUME HomeIInv, NEW p \in Process, \A q \in Process : p = q, RenameFails(p)
  PROVE  HomeIInv'
<1> USE PathsApart DEF HomeIInv
<1>1. installer[p] = "written" /\ writing[p] \in Files /\ fd[p] = NoPath
  BY DEF RenameFails, InstallUnderWay, HomeTypeOK
<1>2. UNCHANGED fd
  BY <1>1 DEF RenameFails, Moved, HomeTypeOK
<1>3. HomeTypeOK' /\ NeverTruncated'
  BY <1>1, <1>2 DEF RenameFails, HomeTypeOK, At, NoBytes, NeverTruncated
<1>4. Installed(p)' /\ InstallUnderWay(p)'
  BY <1>1, <1>2 DEF RenameFails, HomeTypeOK, Installed, InstallUnderWay
<1> QED  BY <1>3, <1>4

LEMMA RemovesStep ==
  ASSUME HomeIInv, NEW p \in Process, \A q \in Process : p = q, NEW q \in Paths, Removes(p, q)
  PROVE  HomeIInv'
<1> USE PathsApart DEF HomeIInv
<1>1. /\ installer[p] = "stale" /\ q \in stale[p] /\ fd[p] = NoPath
      /\ q[1] \in In(folder[p]) /\ \A f \in Shipped(build[p], folder[p]) : q # File(f)
      /\ bytes' = [bytes EXCEPT ![q] = NoBytes] /\ stale' = [stale EXCEPT ![p] = stale[p] \ {q}]
      /\ UNCHANGED <<installer, build, folder, files, writing>>
  BY DEF Removes, Installed, InstallUnderWay
<1>2. UNCHANGED fd
  BY <1>1 DEF Removes, Moved, HomeTypeOK, Paths, NoPath
<1>3. HomeTypeOK'
  BY <1>1, <1>2 DEF HomeTypeOK, NoBytes
<1>4. \A r \in Paths : bytes'[r] = (IF r = q THEN NoBytes ELSE bytes[r])
  BY <1>1 DEF HomeTypeOK
<1>5. NeverTruncated'
  BY <1>4 DEF NeverTruncated, NoBytes, Partial
<1>6. \A place \in {"android", "ios"} : \A f \in Shipped(build[p], place) :
        (place = "android" /\ folder[p] = "ios") \/ place = folder[p] => bytes'[File(f)] = bytes[File(f)]
  BY <1>1, <1>4, FoldersApart DEF Installed, HomeTypeOK, At
<1>7. Installed(p)'
  <2>1. HoldsAll(build[p], folder[p], {})' /\ (folder[p] = "ios" => HoldsAll(build[p], "android", {})')
    BY <1>1, <1>6 DEF Installed, HoldsAll, Holds, HomeTypeOK
  <2>2. HoldsOnly(build[p], folder[p], stale[p] \ {q})'
    BY <1>1, <1>4, FoldersApart DEF Installed, HoldsOnly, HomeTypeOK, Paths
  <2>3. folder[p] = "ios" => HoldsOnly(build[p], "android", {})'
    BY <1>1, <1>4, FoldersApart DEF Installed, HoldsOnly, HomeTypeOK, Paths
  <2>4. /\ stale'[p] = stale[p] \ {q} /\ files'[p] = {} /\ installer'[p] = "stale"
        /\ build'[p] = build[p] /\ folder'[p] = folder[p] /\ build[p] \in Build
    BY <1>1 DEF Installed, HomeTypeOK, At
  <2> QED  BY <1>1, <2>1, <2>2, <2>3, <2>4, ZenonT(30) DEF Installed
<1>8. InstallUnderWay(p)'
  BY <1>1, <1>2 DEF HomeTypeOK, InstallUnderWay
<1> QED  BY <1>3, <1>5, <1>7, <1>8

LEMMA HomeStepInv ==
  ASSUME \A p, q \in Process : p = q
  PROVE  HomeIInv /\ [HomeNext]_homeVars => HomeIInv'
<1> SUFFICES ASSUME HomeIInv, [HomeNext]_homeVars PROVE HomeIInv'
  OBVIOUS
<1>1. CASE UNCHANGED homeVars
  BY <1>1 DEF homeVars, HomeIInv, HomeTypeOK, NeverTruncated, Installed, InstallUnderWay, HoldsAll,
              HoldsOnly, Holds
<1>2. CASE HomeNext
  BY <1>2, LooksStep, OpensStep, WritesStep, RenamesStep, RenameFailsStep, RemovesStep DEF HomeNext
<1> QED  BY <1>1, <1>2

(* One process at a time, of any sequence of builds and whatever fails   *)
(* or crashes in between, finds the drivers of its own build, whole, and *)
(* nothing else in their folders (writeIfChanged, removeStale). Of two   *)
(* processes at once it is not true: they share the temporary file.      *)
THEOREM HomeDriversWhole ==
  ASSUME \A p, q \in Process : p = q
  PROVE  HomeSpec => []DriversWhole
<1>1. HomeIInv => DriversWhole
  <2> SUFFICES ASSUME HomeIInv PROVE HoldsTheBuild
    BY DEF HomeIInv, DriversWhole
  <2> SUFFICES ASSUME NEW p \in Process, installer[p] = "ready"
               PROVE  /\ \A f \in DOMAIN Ships[build[p]] : Holds(f, build[p])
                      /\ \A f \in Files \ DOMAIN Ships[build[p]] : bytes[File(f)] = NoBytes
                      /\ \A f \in Files \ Apk : bytes[Tmp(f)] = NoBytes
    BY DEF HoldsTheBuild
  <2>1. /\ build[p] \in Build
        /\ HoldsAll(build[p], "ios", {}) /\ HoldsOnly(build[p], "ios", {})
        /\ HoldsAll(build[p], "android", {}) /\ HoldsOnly(build[p], "android", {})
    BY DEF HomeIInv, Installed, At
  <2>2. \A f \in DOMAIN Ships[build[p]] : Holds(f, build[p])
    BY <2>1, FoldersApart DEF HoldsAll, Shipped
  <2>3. \A f \in Files \ DOMAIN Ships[build[p]] : bytes[File(f)] = NoBytes
    <3> SUFFICES ASSUME NEW f \in Files \ DOMAIN Ships[build[p]], NEW place \in {"android", "ios"},
                        f \in In(place)
                 PROVE  bytes[File(f)] = NoBytes
      BY FoldersApart
    <3>1. HoldsOnly(build[p], place, {}) /\ File(f) \in In(place) \X {"file", "tmp"}
      BY <2>1 DEF File
    <3>2. \A g \in Shipped(build[p], place) : File(f) # File(g)
      BY <2>1, FoldersApart, PathsApart
    <3> QED  BY <3>1, <3>2, PathsApart DEF HoldsOnly
  <2>4. \A f \in Files \ Apk : bytes[Tmp(f)] = NoBytes
    <3> SUFFICES ASSUME NEW f \in Files \ Apk PROVE bytes[Tmp(f)] = NoBytes
      OBVIOUS
    <3>1. f \in In("ios") /\ Tmp(f) \in In("ios") \X {"file", "tmp"}
      BY DEF In, Tmp
    <3> QED  BY <2>1, <3>1, PathsApart DEF HoldsOnly
  <2> QED  BY <2>2, <2>3, <2>4
<1> QED  BY <1>1, HomeInitInv, HomeStepInv, PTL DEF HomeSpec

-----------------------------------------------------------------------------
(* Console: each line is in its pipe or was shown and logged, and a copy *)
(* runs as long as something may still come through its pipe; so nothing *)
(* is left when restore has waited for it.                               *)

CopiesTypeOK ==
  /\ pipe \in [Std -> Seq(Printer)] /\ printed \in [Std -> Seq(Printer)]
  /\ shown \in [Std -> Seq(Printer)] /\ logged \in [Std -> Seq(Printer)]

(* Each stream's lines are in order, those a pipe still holds last; a copy    *)
(* runs as long as its pipe may be written to or holds something, and logs    *)
(* what it shows until the files are closed.                                  *)
InPipe ==
  /\ \A s \in Std : printed[s] = shown[s] \o pipe[s]
  /\ \A s \in Std : s \notin copying => pipe[s] = <<>>
  /\ open \subseteq copying /\ copying \subseteq Std
  /\ captured \in {"restoring", "over"} => open = {}
  /\ captured = "over" => copying = {}
  /\ logged = shown

StreamsIInv == CopiesTypeOK /\ InPipe

LEMMA StreamsInit == ConsoleInit => StreamsIInv
<1> SUFFICES ASSUME ConsoleInit PROVE StreamsIInv
  OBVIOUS
<1>1. <<>> \in Seq(Printer) /\ <<>> \o <<>> = <<>>
  BY EmptySeq, ConcatEmptySeq
<1> QED  BY <1>1 DEF ConsoleInit, StreamsIInv, CopiesTypeOK, InPipe

LEMMA CopyStep ==
  ASSUME StreamsIInv, NEW s \in Std, Copy(s)
  PROVE  StreamsIInv'
<1> USE DEF StreamsIInv, CopiesTypeOK, InPipe
<1>1. /\ Head(pipe[s]) \in Printer /\ Tail(pipe[s]) \in Seq(Printer)
      /\ Append(shown[s], Head(pipe[s])) \in Seq(Printer)
  BY HeadTailProperties, AppendProperties DEF Copy
<1>2. /\ pipe' = [pipe EXCEPT ![s] = Tail(pipe[s])]
      /\ shown' = [shown EXCEPT ![s] = Append(shown[s], Head(pipe[s]))]
      /\ logged' = shown' /\ captured # "over"
      /\ UNCHANGED <<captured, open, copying, printed>> /\ s \in copying
  BY DEF Copy
<1>3. CopiesTypeOK'
  BY <1>1, <1>2
<1>4. printed[s] = shown'[s] \o pipe'[s]
  <2>1. Append(shown[s], Head(pipe[s])) \o Tail(pipe[s]) = shown[s] \o pipe[s]
    BY MoveHead, SMTT(30) DEF Copy
  <2> QED  BY <1>2, <2>1
<1> QED  BY <1>2, <1>3, <1>4

LEMMA PrintsStep ==
  ASSUME StreamsIInv, NEW p \in Printer, Prints(p)
  PROVE  StreamsIInv'
<1> USE DEF StreamsIInv, CopiesTypeOK, InPipe
<1>1. CASE UNCHANGED <<pipe, printed>>
  BY <1>1 DEF Prints
<1>2. CASE taken[p].to = "pipe" /\ taken[p].std \in open
  <2> DEFINE s == taken[p].std
  <2>1. /\ s \in Std /\ s \in copying
        /\ pipe' = [pipe EXCEPT ![s] = Append(pipe[s], p)]
        /\ printed' = [printed EXCEPT ![s] = Append(printed[s], p)]
        /\ UNCHANGED <<captured, open, copying, shown, logged>>
    BY <1>2 DEF Prints
  <2> HIDE DEF s
  <2>2. Append(pipe[s], p) \in Seq(Printer) /\ Append(printed[s], p) \in Seq(Printer)
    BY <2>1, AppendProperties
  <2>3. shown[s] \o Append(pipe[s], p) = Append(printed[s], p)
    BY <2>1, AddLast
  <2> QED  BY <2>1, <2>2, <2>3
<1> QED  BY <1>1, <1>2 DEF Prints

LEMMA StreamsStep == StreamsIInv /\ [StreamsNext \/ TerminalNext]_consoleVars => StreamsIInv'
<1> SUFFICES ASSUME StreamsIInv, [StreamsNext \/ TerminalNext]_consoleVars PROVE StreamsIInv'
  OBVIOUS
<1> USE DEF StreamsIInv, CopiesTypeOK, InPipe
<1>1. CASE UNCHANGED streams \/ TerminalNext
  BY <1>1 DEF streams, TerminalNext, ClockTicks, HandleLine
<1>2. ASSUME NEW s \in Std, Capture(s) \/ CopyEnds(s) PROVE StreamsIInv'
  BY <1>2 DEF Capture, CopyEnds
<1>3. CASE Restore \/ CopiesDrained
  BY <1>3 DEF Restore, CopiesDrained
<1>4. ASSUME NEW p \in Printer, NEW s \in Std, Takes(p, s) PROVE StreamsIInv'
  BY <1>4 DEF Takes
<1> QED
  BY <1>1, <1>2, <1>3, <1>4, CopyStep, PrintsStep DEF StreamsNext, consoleVars, streams

(* Whatever the order in which lines are printed, captures start or fail *)
(* halfway and the streams are restored, every line that was printed to  *)
(* a captured stream was shown and is in the file (CaptureConsole,       *)
(* restore, Close).                                                      *)
THEOREM ConsoleLosesNothing == ConsoleSpec => []NothingPrintedIsLost
<1>1. StreamsIInv => NothingPrintedIsLost
  <2> SUFFICES ASSUME StreamsIInv, captured = "over", NEW s \in Std
               PROVE  logged[s] = printed[s] /\ shown[s] = printed[s]
    BY DEF NothingPrintedIsLost
  <2> QED  BY ConcatEmptySeq DEF StreamsIInv, CopiesTypeOK, InPipe
<1> QED  BY <1>1, StreamsInit, StreamsStep, PTL DEF ConsoleSpec

(* What the terminal remembers is when it showed a line, if it remembers.     *)
Remembers ==
  /\ clock \in 0..MaxClock
  /\ seen \in [Key -> 0..Never] /\ said \in [Key -> 0..Never]
  /\ repeatAsked \in [Key -> 0..Never]
  /\ \A k \in Key : seen[k] # Never => said[k] = seen[k]

TerminalIInv == Remembers /\ SaidLately

LEMMA TerminalInit == ConsoleInit => TerminalIInv
  BY ClockAssumption DEF ConsoleInit, TerminalIInv, Remembers, SaidLately, Never

LEMMA HandleLineStep ==
  ASSUME TerminalIInv, NEW k \in Key, HandleLine(k)
  PROVE  TerminalIInv'
<1> USE ClockAssumption DEF TerminalIInv, Remembers, SaidLately, Never
<1>1. CASE Repeated(k)
  BY <1>1 DEF HandleLine, Repeated
<1>2. CASE ~Repeated(k)
  BY <1>2 DEF HandleLine, Forgotten
<1> QED  BY <1>1, <1>2

LEMMA TerminalStep == TerminalIInv /\ [StreamsNext \/ TerminalNext]_consoleVars => TerminalIInv'
<1> SUFFICES ASSUME TerminalIInv, [StreamsNext \/ TerminalNext]_consoleVars PROVE TerminalIInv'
  OBVIOUS
<1> USE DEF TerminalIInv, Remembers, SaidLately, terminal
<1>1. CASE UNCHANGED terminal
  BY <1>1
<1>2. CASE StreamsNext
  BY <1>2 DEF StreamsNext, Capture, Copy, CopyEnds, Restore, CopiesDrained, Prints, Takes
<1>3. CASE ClockTicks
  BY <1>3, ClockAssumption DEF ClockTicks
<1> QED  BY <1>1, <1>2, <1>3, HandleLineStep DEF TerminalNext, consoleVars

(* A line that repeats is held back only within the window of one that   *)
(* was shown, with any keys, clock and limit of remembered keys          *)
(* (repeated).                                                           *)
THEOREM TerminalSaysLately == ConsoleSpec => []SaidLately
<1>1. TerminalIInv => SaidLately  BY DEF TerminalIInv
<1> QED  BY <1>1, TerminalInit, TerminalStep, PTL DEF ConsoleSpec

-----------------------------------------------------------------------------
(* McpServe: that nothing is answered twice needs who answers what       *)
(* (OnlyAnswers) and where each line is (LinesRouted); that nothing is   *)
(* missing at the end needs that the wait group counts exactly the calls *)
(* under way (CallsCounted).                                             *)

Under == {"running", "ready", "answered"}
Pending == {i \in 1 .. MaxLines : lineAt[i] \in Under}

McpTypeOK ==
  /\ stdin \in Seq(Kinds) /\ Len(stdin) <= MaxLines
  /\ out \in Seq(1 .. MaxLines)
  /\ loop \in {"scan", "check", "reply", "wait", "returned"}
  /\ lineAt \in [1 .. MaxLines -> {"unread", "done"} \cup Under]
  /\ unsent \in BOOLEAN /\ broken \in BOOLEAN

(* Serve is at the last line it read; a line is given to a goroutine only if  *)
(* it is a call that was routed.                                              *)
LinesRouted ==
  /\ loop \in {"check", "reply"} => line >= 1
  /\ loop = "reply" => stdin[line] = "other"
  /\ \A i \in 1 .. MaxLines : lineAt[i] # "unread" =>
       i <= line /\ stdin[i] = "call" /\ ~(i = line /\ loop = "check")

(* The wait group counts the calls under way; none is when Serve returns.     *)
CallsCounted == calls = Cardinality(Pending) /\ (loop = "returned" => Pending = {})

(* What has been answered: a call by its goroutine, anything else by Serve.   *)
Answered(i) ==
  \/ stdin[i] = "call" /\ lineAt[i] \in {"answered", "done"}
  \/ stdin[i] = "other" /\ ~(i = line /\ loop \in {"check", "reply"})

OnlyAnswers ==
  \A k \in DOMAIN out : out[k] \in 1 .. line /\ \A i \in 1 .. line : i = out[k] => Answered(i)
AnsweredOnce == \A j, k \in DOMAIN out : out[j] = out[k] => j = k
AnsweredInOrder ==
  \A j, k \in DOMAIN out :
    j < k /\ stdin[out[j]] # "call" /\ stdin[out[k]] # "call" => out[j] < out[k]

(* As long as the output takes what it is given, no answer is missing and no  *)
(* call but the one just read is yet to be routed.                            *)
NoneMissing ==
  ~unsent => \A i \in 1 .. line :
    /\ Answered(i) => \E k \in DOMAIN out : out[k] = i
    /\ stdin[i] = "call" /\ lineAt[i] = "unread" => i = line /\ loop = "check"

McpIInv ==
  /\ McpTypeOK /\ LinesRouted /\ CallsCounted
  /\ OnlyAnswers /\ AnsweredOnce /\ AnsweredInOrder /\ NoneMissing

LEMMA McpInitInv == McpInit => McpIInv
<1> SUFFICES ASSUME McpInit PROVE McpIInv
  OBVIOUS
<1>1. /\ Len(stdin) = 0 /\ stdin \in Seq(Kinds) /\ out \in Seq(1 .. MaxLines) /\ DOMAIN out = {}
  <2>1. \A S : <<>> \in Seq(S) /\ Len(<<>>) = 0
    BY EmptySeq
  <2>2. stdin = <<>> /\ out = <<>>
    BY DEF McpInit
  <2>3. out \in Seq(1 .. MaxLines) /\ Len(out) = 0
    BY <2>1, <2>2
  <2>4. DOMAIN out = 1 .. 0
    BY <2>3, LenProperties
  <2> QED  BY <2>1, <2>2, <2>3, <2>4
<1>2. McpTypeOK
  <2>1. unsent \in BOOLEAN /\ broken \in BOOLEAN
    BY DEF McpInit
  <2>2. stdin \in Seq(Kinds) /\ Len(stdin) <= MaxLines /\ out \in Seq(1 .. MaxLines)
    BY <1>1, LinesAssumption
  <2>3. lineAt \in [1 .. MaxLines -> {"unread", "done"} \cup Under] /\ loop = "scan"
    BY DEF McpInit
  <2> QED  BY <2>1, <2>2, <2>3 DEF McpTypeOK
<1>3. LinesRouted
  BY DEF McpInit, LinesRouted
<1>4. CallsCounted
  <2>1. Pending = {}
    BY DEF McpInit, Pending, Under
  <2> QED  BY <2>1, FS_EmptySet DEF McpInit, CallsCounted
<1>5. OnlyAnswers /\ AnsweredOnce /\ AnsweredInOrder
  BY <1>1 DEF OnlyAnswers, AnsweredOnce, AnsweredInOrder
<1>6. NoneMissing
  BY <1>1 DEF NoneMissing, line
<1> QED  BY <1>2, <1>3, <1>4, <1>5, <1>6 DEF McpIInv

LEMMA PendingFinite == IsFiniteSet(Pending)
<1>1. IsFiniteSet(1 .. MaxLines)
  BY LinesAssumption, FS_Interval
<1> QED  BY <1>1, FS_Subset DEF Pending

(* An answer that is sent is the last of those that were, or is lost.         *)
LEMMA SendOne ==
  ASSUME McpTypeOK, NEW x \in 1 .. MaxLines, Send(<<x>>)
  PROVE  /\ out' \in Seq(1 .. MaxLines) /\ unsent' \in BOOLEAN
         /\ \/ unsent' = TRUE /\ out' = out
            \/ /\ unsent' = unsent
               /\ DOMAIN out = 1 .. Len(out) /\ DOMAIN out' = 1 .. Len(out) + 1 /\ Len(out) \in Nat
               /\ \A k \in 1 .. Len(out) : out'[k] = out[k]
               /\ out'[Len(out) + 1] = x
<1>1. out \in Seq(1 .. MaxLines) /\ unsent \in BOOLEAN
  BY DEF McpTypeOK
<1>2. CASE unsent' = TRUE /\ out' = out
  BY <1>1, <1>2
<1>3. CASE unsent' = unsent /\ out' = out \o <<x>>
  <2>1. out \o <<x>> = Append(out, x)
    BY <1>1, AppendIsConcat
  <2>2. /\ Append(out, x) \in Seq(1 .. MaxLines) /\ DOMAIN Append(out, x) = 1 .. Len(out) + 1
        /\ \A k \in 1 .. Len(out) : Append(out, x)[k] = out[k]
        /\ Append(out, x)[Len(out) + 1] = x
    BY <1>1, AppendProperties, LenProperties
  <2>3. DOMAIN out = 1 .. Len(out) /\ Len(out) \in Nat
    BY <1>1, LenProperties
  <2> QED  BY <1>1, <1>3, <2>1, <2>2, <2>3
<1> QED  BY <1>2, <1>3 DEF Send

(* What was answered stays so while no answer is written.                     *)
LEMMA AnswersKept ==
  ASSUME McpTypeOK, OnlyAnswers, AnsweredOnce, AnsweredInOrder,
         out' = out, line' \in Nat, line' >= line,
         \A i \in 1 .. line : stdin'[i] = stdin[i] /\ (Answered(i) => Answered(i)')
  PROVE  OnlyAnswers' /\ AnsweredOnce' /\ AnsweredInOrder'
<1>1. line \in Nat
  BY LenProperties DEF McpTypeOK, line
<1>2. OnlyAnswers'
  BY <1>1 DEF OnlyAnswers
<1>3. AnsweredOnce'
  BY DEF AnsweredOnce
<1>4. AnsweredInOrder'
  BY <1>1 DEF AnsweredInOrder, OnlyAnswers
<1> QED  BY <1>2, <1>3, <1>4

(* One more answer is the first of its line, and is in its order.             *)
LEMMA AnswerAdded ==
  ASSUME McpTypeOK, OnlyAnswers, AnsweredOnce, AnsweredInOrder, stdin' = stdin,
         NEW x \in 1 .. line, ~Answered(x), Answered(x)', stdin[x] # "call" => x = line,
         \A i \in 1 .. line : Answered(i) => Answered(i)',
         DOMAIN out = 1 .. Len(out), DOMAIN out' = 1 .. Len(out) + 1, Len(out) \in Nat,
         \A k \in 1 .. Len(out) : out'[k] = out[k], out'[Len(out) + 1] = x
  PROVE  OnlyAnswers' /\ AnsweredOnce' /\ AnsweredInOrder'
<1>1. line' = line /\ line \in Nat
  BY LenProperties DEF McpTypeOK, line
<1>2. \A k \in 1 .. Len(out) :
        /\ out[k] \in 1 .. line /\ out[k] # x
        /\ \A i \in 1 .. line : i = out[k] => Answered(i)
  BY DEF OnlyAnswers
<1>3. OnlyAnswers'
  <2> SUFFICES ASSUME NEW k \in DOMAIN out'
               PROVE  out'[k] \in 1 .. line /\ \A i \in 1 .. line : i = out'[k] => Answered(i)'
    BY <1>1 DEF OnlyAnswers
  <2>1. CASE k = Len(out) + 1
    BY <2>1
  <2>2. CASE k \in 1 .. Len(out)
    BY <1>2, <2>2
  <2> QED  BY <2>1, <2>2
<1>4. AnsweredOnce'
  BY <1>2 DEF AnsweredOnce
<1>5. AnsweredInOrder'
  <2> SUFFICES ASSUME NEW j \in DOMAIN out', NEW k \in DOMAIN out', j < k,
                      stdin[out'[j]] # "call", stdin[out'[k]] # "call"
               PROVE  out'[j] < out'[k]
    BY DEF AnsweredInOrder
  <2>1. j \in 1 .. Len(out)
    OBVIOUS
  <2>2. CASE k \in 1 .. Len(out)
    BY <2>1, <2>2 DEF AnsweredInOrder
  <2>3. CASE k = Len(out) + 1
    BY <1>1, <1>2, <2>1, <2>3
  <2> QED  BY <2>2, <2>3
<1> QED  BY <1>3, <1>4, <1>5

(* The steps that neither route a line nor end a call nor answer.             *)
LEMMA QuietStep ==
  ASSUME McpIInv, CloseStdin \/ Breaks \/ ScanEnds \/ GivesUp \/ Return \/
                  \E i \in 1 .. MaxLines : ToolEnds(i) \/ Ticks(i) \/ TickerEnds(i)
  PROVE  McpIInv'
<1>1. McpTypeOK /\ line \in Nat
  BY LenProperties DEF McpIInv, McpTypeOK, line
<1>2. /\ stdin' = stdin /\ calls' = calls /\ out' = out /\ unsent' \in {unsent, TRUE} /\ broken' \in BOOLEAN
      /\ \/ loop' = loop
         \/ loop = "scan" /\ loop' = "wait"
         \/ loop = "check" /\ unsent /\ loop' = "wait"
         \/ loop = "wait" /\ calls = 0 /\ loop' = "returned"
      /\ \/ lineAt' = lineAt
         \/ loop' = loop /\ \E i \in 1 .. MaxLines : lineAt[i] = "running" /\ lineAt' = [lineAt EXCEPT ![i] = "ready"]
  <2>1. CASE CloseStdin \/ Breaks
    <3>1. broken' \in BOOLEAN
      BY <1>1, <2>1 DEF CloseStdin, Breaks, McpTypeOK
    <3>2. UNCHANGED <<stdin, loop, lineAt, calls, out, unsent>>
      BY <2>1 DEF CloseStdin, Breaks, client, output
    <3> QED  BY <3>1, <3>2
  <2>2. CASE ScanEnds \/ GivesUp \/ Return
    <3>1. broken' \in BOOLEAN
      BY <1>1, <2>2 DEF ScanEnds, GivesUp, Return, client, McpTypeOK
    <3>2. UNCHANGED <<stdin, lineAt, calls, out, unsent>>
      BY <2>2 DEF ScanEnds, GivesUp, Return, client, output
    <3>3. \/ loop = "scan" /\ loop' = "wait"
          \/ loop = "check" /\ unsent /\ loop' = "wait"
          \/ loop = "wait" /\ calls = 0 /\ loop' = "returned"
      BY <2>2 DEF ScanEnds, GivesUp, Return
    <3> QED  BY <3>1, <3>2, <3>3
  <2>3. CASE \E i \in 1 .. MaxLines : ToolEnds(i)
    BY <1>1, <2>3 DEF ToolEnds, client, output, McpTypeOK
  <2>4. CASE \E i \in 1 .. MaxLines : TickerEnds(i)
    BY <1>1, <2>4 DEF TickerEnds, client, output, McpTypeOK
  <2>5. CASE \E i \in 1 .. MaxLines : Ticks(i)
    <3>1. out \o <<>> = out
      BY <1>1, ConcatEmptySeq DEF McpTypeOK
    <3> QED  BY <1>1, <2>5, <3>1 DEF Ticks, Send, client, McpTypeOK
  <2> QED  BY <2>1, <2>2, <2>3, <2>4, <2>5
<1>3. lineAt' \in [1 .. MaxLines -> {"unread", "done"} \cup Under]
      /\ \A i \in 1 .. MaxLines : lineAt'[i] = lineAt[i] \/ (lineAt[i] = "running" /\ lineAt'[i] = "ready")
  BY <1>1, <1>2 DEF McpTypeOK, Under
<1>4. McpTypeOK'
  BY <1>1, <1>2, <1>3 DEF McpTypeOK
<1>5. line' = line
  BY <1>2 DEF line
<1>6. LinesRouted'
  BY <1>2, <1>3, <1>5 DEF McpIInv, LinesRouted
<1>7. CallsCounted'
  <2>1. Pending' = Pending
    BY <1>3 DEF Pending, Under
  <2>2. calls = 0 => Pending = {}
    BY PendingFinite, FS_EmptySet DEF McpIInv, CallsCounted
  <2> QED  BY <1>2, <2>1, <2>2 DEF McpIInv, CallsCounted
<1>8. \A i \in 1 .. line : i \in 1 .. MaxLines /\ (Answered(i) => Answered(i)')
  <2> SUFFICES ASSUME NEW i \in 1 .. line PROVE i \in 1 .. MaxLines /\ (Answered(i) => Answered(i)')
    OBVIOUS
  <2>1. i \in 1 .. MaxLines
    BY <1>1, LinesAssumption DEF McpTypeOK, line
  <2>2. stdin'[i] = stdin[i] /\ (lineAt[i] \in {"answered", "done"} => lineAt'[i] = lineAt[i])
    BY <1>2, <1>3, <2>1
  <2>3. loop' \in {"check", "reply"} => loop' = loop
    BY <1>2
  <2> QED  BY <1>5, <2>1, <2>2, <2>3 DEF Answered
<1>9. OnlyAnswers' /\ AnsweredOnce' /\ AnsweredInOrder'
  BY <1>1, <1>2, <1>5, <1>8, AnswersKept DEF McpIInv
<1>10. NoneMissing'
  <2> SUFFICES ASSUME ~unsent' PROVE NoneMissing'
    BY DEF NoneMissing
  <2>1. ~unsent
    BY <1>1, <1>2 DEF McpTypeOK
  <2>2. \A i \in 1 .. line : Answered(i)' => Answered(i)
    BY <1>1, <1>2, <1>3, <1>5, <1>8, <2>1 DEF Answered, McpTypeOK, line, Under
  <2>3. \A i \in 1 .. line : lineAt'[i] = "unread" => lineAt[i] = "unread"
    BY <1>3, <1>8
  <2> QED  BY <1>2, <1>5, <2>1, <2>2, <2>3 DEF McpIInv, NoneMissing
<1> QED  BY <1>4, <1>6, <1>7, <1>9, <1>10 DEF McpIInv

LEMMA ScanStep == ASSUME McpIInv, NEW kind \in Kinds, Scan(kind) PROVE McpIInv'
<1>1. McpTypeOK /\ line \in Nat /\ MaxLines \in Nat /\ stdin \in Seq(Kinds) /\ line = Len(stdin)
  BY LenProperties, LinesAssumption DEF McpIInv, McpTypeOK, line
<1>2. /\ loop = "scan" /\ line < MaxLines /\ stdin' = Append(stdin, kind) /\ loop' = "check"
      /\ UNCHANGED <<broken, lineAt, calls, out, unsent>>
  BY DEF Scan, client, output
<1>3. /\ stdin' \in Seq(Kinds) /\ line' = line + 1 /\ Len(stdin') = line + 1
      /\ \A i \in 1 .. line : stdin'[i] = stdin[i]
  BY <1>1, <1>2, AppendProperties DEF line
<1>4. McpTypeOK'
  <2>1. Len(stdin') <= MaxLines
    BY <1>1, <1>2, <1>3
  <2> QED  BY <1>1, <1>2, <1>3, <2>1 DEF McpTypeOK
<1>5. LinesRouted'
  BY <1>1, <1>2, <1>3 DEF McpIInv, LinesRouted
<1>6. CallsCounted'
  BY <1>2 DEF McpIInv, CallsCounted, Pending
<1>7. \A i \in 1 .. line : Answered(i)' <=> Answered(i)
  <2> SUFFICES ASSUME NEW i \in 1 .. line PROVE Answered(i)' <=> Answered(i)
    OBVIOUS
  <2>1. stdin'[i] = stdin[i] /\ lineAt'[i] = lineAt[i] /\ i # line'
    BY <1>1, <1>2, <1>3
  <2> QED  BY <1>2, <2>1 DEF Answered
<1>8. OnlyAnswers' /\ AnsweredOnce' /\ AnsweredInOrder'
  BY <1>1, <1>2, <1>3, <1>7, AnswersKept DEF McpIInv
<1>9. NoneMissing'
  <2> SUFFICES ASSUME ~unsent, NEW i \in 1 .. line + 1
               PROVE  /\ Answered(i)' => \E k \in DOMAIN out : out[k] = i
                      /\ stdin'[i] = "call" /\ lineAt[i] = "unread" => i = line + 1
    BY <1>2, <1>3 DEF NoneMissing
  <2>1. CASE i \in 1 .. line
    BY <1>2, <1>3, <1>7, <2>1 DEF McpIInv, NoneMissing
  <2>2. CASE i = line + 1
    <3>1. lineAt[i] = "unread"
      BY <1>1, <1>2, <2>2 DEF McpIInv, LinesRouted
    <3>2. ~Answered(i)'
      BY <1>2, <1>3, <2>2, <3>1 DEF Answered
    <3> QED  BY <2>2, <3>2
  <2> QED  BY <1>1, <2>1, <2>2
<1> QED  BY <1>4, <1>5, <1>6, <1>8, <1>9 DEF McpIInv

LEMMA RouteStep == ASSUME McpIInv, RouteLine PROVE McpIInv'
<1>1. McpTypeOK /\ line \in 1 .. MaxLines /\ stdin \in Seq(Kinds) /\ line = Len(stdin) /\ stdin[line] \in Kinds
  <2>1. McpTypeOK /\ line \in Nat /\ line >= 1 /\ line <= MaxLines /\ line = Len(stdin)
    BY LenProperties DEF McpIInv, McpTypeOK, line, LinesRouted, RouteLine
  <2> QED  BY <2>1, ElementOfSeq, LinesAssumption DEF McpTypeOK
<1>2. /\ loop = "check" /\ ~unsent /\ UNCHANGED <<stdin, broken, out, unsent>> /\ line' = line
  BY DEF RouteLine, client, output, line
<1>3. lineAt[line] = "unread"
  BY <1>1, <1>2 DEF McpIInv, LinesRouted
<1>4. CASE stdin[line] = "call"
  <2>1. /\ lineAt' = [lineAt EXCEPT ![line] = "running"] /\ calls' = calls + 1 /\ loop' = "scan"
    BY <1>4 DEF RouteLine
  <2>2. /\ lineAt' \in [1 .. MaxLines -> {"unread", "done"} \cup Under] /\ lineAt'[line] = "running"
        /\ \A i \in 1 .. MaxLines : i # line => lineAt'[i] = lineAt[i]
    BY <1>1, <2>1 DEF McpTypeOK, Under
  <2>3. McpTypeOK'
    BY <1>1, <1>2, <2>1, <2>2 DEF McpTypeOK
  <2>4. LinesRouted'
    BY <1>1, <1>2, <1>4, <2>1, <2>2 DEF McpIInv, LinesRouted
  <2>5. CallsCounted'
    <3>1. Pending' = Pending \cup {line} /\ line \notin Pending
      BY <1>1, <1>3, <2>2 DEF Pending, Under
    <3>2. Cardinality(Pending') = Cardinality(Pending) + 1
      BY <3>1, PendingFinite, FS_AddElement
    <3> QED  BY <2>1, <3>2 DEF McpIInv, CallsCounted
  <2>6. \A i \in 1 .. line : Answered(i)' <=> Answered(i)
    BY <1>1, <1>2, <1>3, <1>4, <2>1, <2>2 DEF Answered
  <2>7. OnlyAnswers' /\ AnsweredOnce' /\ AnsweredInOrder'
    BY <1>1, <1>2, <2>6, AnswersKept DEF McpIInv
  <2>8. NoneMissing'
    <3>1. NoneMissing /\ ~unsent'
      BY <1>2 DEF McpIInv
    <3>2. ASSUME NEW i \in 1 .. line, stdin[i] = "call", lineAt'[i] = "unread" PROVE FALSE
      <4>1. i # line /\ i \in 1 .. MaxLines
        BY <1>1, <2>2, <3>2, LinesAssumption
      <4> QED  BY <1>2, <2>2, <3>1, <3>2, <4>1 DEF NoneMissing
    <3>3. \A i \in 1 .. line : Answered(i)' => \E k \in DOMAIN out : out[k] = i
      BY <1>2, <2>6, <3>1 DEF NoneMissing
    <3> QED  BY <1>2, <3>1, <3>2, <3>3 DEF NoneMissing
  <2> QED  BY <2>3, <2>4, <2>5, <2>7, <2>8 DEF McpIInv
<1>5. CASE stdin[line] # "call"
  <2>1. /\ UNCHANGED <<lineAt, calls>>
        /\ loop' \in {"scan", "reply"} /\ (loop' = "scan" => stdin[line] = "note")
        /\ (loop' = "reply" => stdin[line] = "other")
    BY <1>1, <1>5 DEF RouteLine, Kinds
  <2>2. McpTypeOK'
    BY <1>1, <1>2, <2>1 DEF McpTypeOK
  <2>3. LinesRouted'
    BY <1>1, <1>2, <1>3, <1>5, <2>1 DEF McpIInv, LinesRouted
  <2>4. CallsCounted'
    BY <1>2, <2>1 DEF McpIInv, CallsCounted, Pending
  <2>5. \A i \in 1 .. line : Answered(i)' <=> Answered(i)
    BY <1>1, <1>2, <1>5, <2>1 DEF Answered
  <2>6. OnlyAnswers' /\ AnsweredOnce' /\ AnsweredInOrder'
    BY <1>1, <1>2, <2>5, AnswersKept DEF McpIInv
  <2>7. NoneMissing'
    BY <1>1, <1>2, <1>5, <2>1, <2>5 DEF McpIInv, NoneMissing
  <2> QED  BY <2>2, <2>3, <2>4, <2>6, <2>7 DEF McpIInv
<1> QED  BY <1>4, <1>5

LEMMA ReplyStep == ASSUME McpIInv, Reply PROVE McpIInv'
<1>1. McpTypeOK /\ line \in 1 .. MaxLines /\ line \in Nat /\ stdin[line] = "other"
  <2>1. McpTypeOK /\ line \in Nat /\ line >= 1 /\ line <= MaxLines /\ stdin[line] = "other"
    BY LenProperties DEF McpIInv, McpTypeOK, line, LinesRouted, Reply
  <2> QED  BY <2>1, LinesAssumption
<1>2. /\ loop = "reply" /\ loop' = "scan" /\ Send(<<line>>)
      /\ UNCHANGED <<stdin, broken, lineAt, calls>> /\ line' = line
  BY DEF Reply, client, line
<1>3. /\ out' \in Seq(1 .. MaxLines) /\ unsent' \in BOOLEAN
      /\ \/ unsent' = TRUE /\ out' = out
         \/ /\ unsent' = unsent
            /\ DOMAIN out = 1 .. Len(out) /\ DOMAIN out' = 1 .. Len(out) + 1 /\ Len(out) \in Nat
            /\ \A k \in 1 .. Len(out) : out'[k] = out[k]
            /\ out'[Len(out) + 1] = line
  BY <1>1, <1>2, SendOne
<1>4. McpTypeOK'
  BY <1>1, <1>2, <1>3 DEF McpTypeOK
<1>5. LinesRouted'
  BY <1>2 DEF McpIInv, LinesRouted
<1>6. CallsCounted'
  BY <1>2 DEF McpIInv, CallsCounted, Pending
<1>7. /\ ~Answered(line) /\ Answered(line)'
      /\ \A i \in 1 .. line : i # line => (Answered(i)' <=> Answered(i))
  BY <1>1, <1>2 DEF Answered
<1>8. CASE unsent' = TRUE /\ out' = out
  <2>1. OnlyAnswers' /\ AnsweredOnce' /\ AnsweredInOrder'
    BY <1>1, <1>2, <1>7, <1>8, AnswersKept DEF McpIInv
  <2> QED  BY <1>4, <1>5, <1>6, <1>8, <2>1 DEF McpIInv, NoneMissing
<1>9. CASE ~(unsent' = TRUE /\ out' = out)
  <2>1. OnlyAnswers' /\ AnsweredOnce' /\ AnsweredInOrder'
    BY <1>1, <1>2, <1>3, <1>7, <1>9, AnswerAdded DEF McpIInv
  <2>2. NoneMissing'
    <3> SUFFICES ASSUME ~unsent', NEW i \in 1 .. line'
                 PROVE  /\ Answered(i)' => \E k \in DOMAIN out' : out'[k] = i
                        /\ stdin'[i] = "call" /\ lineAt'[i] = "unread" => i = line' /\ loop' = "check"
      BY DEF NoneMissing
    <3>1. ~unsent /\ i \in 1 .. line
      BY <1>2, <1>3, <1>9
    <3>2. /\ Answered(i) => \E k \in DOMAIN out : out[k] = i
          /\ ~(stdin[i] = "call" /\ lineAt[i] = "unread")
      BY <1>2, <3>1 DEF McpIInv, NoneMissing
    <3>3. CASE i = line
      BY <1>1, <1>2, <1>3, <1>9, <3>2, <3>3
    <3>4. CASE i # line
      <4>1. Answered(i)' <=> Answered(i)
        BY <1>7, <3>1, <3>4
      <4> QED  BY <1>2, <1>3, <1>9, <3>2, <4>1
    <3> QED  BY <3>3, <3>4
  <2> QED  BY <1>4, <1>5, <1>6, <2>1, <2>2 DEF McpIInv
<1> QED  BY <1>8, <1>9

LEMMA AnswerStep == ASSUME McpIInv, NEW x \in 1 .. MaxLines, Answer(x) PROVE McpIInv'
<1>1. McpTypeOK /\ line \in Nat /\ x \in 1 .. line /\ stdin[x] = "call"
  <2>1. McpTypeOK /\ line \in Nat /\ x <= line /\ stdin[x] = "call"
    BY LenProperties DEF McpIInv, McpTypeOK, line, LinesRouted, Answer
  <2> QED  BY <2>1, LinesAssumption
<1>2. /\ lineAt[x] = "ready" /\ lineAt' = [lineAt EXCEPT ![x] = "answered"] /\ Send(<<x>>)
      /\ UNCHANGED <<stdin, broken, loop, calls>> /\ line' = line
  BY DEF Answer, client, line
<1>3. /\ out' \in Seq(1 .. MaxLines) /\ unsent' \in BOOLEAN
      /\ \/ unsent' = TRUE /\ out' = out
         \/ /\ unsent' = unsent
            /\ DOMAIN out = 1 .. Len(out) /\ DOMAIN out' = 1 .. Len(out) + 1 /\ Len(out) \in Nat
            /\ \A k \in 1 .. Len(out) : out'[k] = out[k]
            /\ out'[Len(out) + 1] = x
  BY <1>1, <1>2, SendOne
<1>4. /\ lineAt' \in [1 .. MaxLines -> {"unread", "done"} \cup Under] /\ lineAt'[x] = "answered"
      /\ \A i \in 1 .. MaxLines : i # x => lineAt'[i] = lineAt[i]
  BY <1>1, <1>2 DEF McpTypeOK, Under
<1>5. McpTypeOK'
  BY <1>1, <1>2, <1>3, <1>4 DEF McpTypeOK
<1>6. LinesRouted'
  BY <1>1, <1>2, <1>4 DEF McpIInv, LinesRouted
<1>7. CallsCounted'
  <2>1. Pending' = Pending
    BY <1>2, <1>4 DEF Pending, Under
  <2> QED  BY <1>2, <2>1 DEF McpIInv, CallsCounted
<1>8. /\ ~Answered(x) /\ Answered(x)'
      /\ \A i \in 1 .. line : i \in 1 .. MaxLines
      /\ \A i \in 1 .. line : i # x => (Answered(i)' <=> Answered(i))
  <2>1. \A i \in 1 .. line : i \in 1 .. MaxLines
    BY <1>1, LinesAssumption DEF McpTypeOK, line
  <2> QED  BY <1>1, <1>2, <1>4, <2>1 DEF Answered
<1>9. CASE unsent' = TRUE /\ out' = out
  <2>1. OnlyAnswers' /\ AnsweredOnce' /\ AnsweredInOrder'
    BY <1>1, <1>2, <1>8, <1>9, AnswersKept DEF McpIInv
  <2> QED  BY <1>5, <1>6, <1>7, <1>9, <2>1 DEF McpIInv, NoneMissing
<1>10. CASE ~(unsent' = TRUE /\ out' = out)
  <2>1. OnlyAnswers' /\ AnsweredOnce' /\ AnsweredInOrder'
    BY <1>1, <1>2, <1>3, <1>8, <1>10, AnswerAdded DEF McpIInv
  <2>2. NoneMissing'
    <3> SUFFICES ASSUME ~unsent', NEW i \in 1 .. line'
                 PROVE  /\ Answered(i)' => \E k \in DOMAIN out' : out'[k] = i
                        /\ stdin'[i] = "call" /\ lineAt'[i] = "unread" => i = line' /\ loop' = "check"
      BY DEF NoneMissing
    <3>1. ~unsent /\ i \in 1 .. line /\ i \in 1 .. MaxLines
      BY <1>2, <1>3, <1>8, <1>10
    <3>2. /\ Answered(i) => \E k \in DOMAIN out : out[k] = i
          /\ stdin[i] = "call" /\ lineAt[i] = "unread" => i = line /\ loop = "check"
      BY <3>1 DEF McpIInv, NoneMissing
    <3>3. CASE i = x
      BY <1>1, <1>3, <1>4, <1>10, <3>3
    <3>4. CASE i # x
      <4>1. (Answered(i)' <=> Answered(i)) /\ lineAt'[i] = lineAt[i]
        BY <1>4, <1>8, <3>1, <3>4
      <4> QED  BY <1>2, <1>3, <1>10, <3>2, <4>1
    <3> QED  BY <3>3, <3>4
  <2> QED  BY <1>5, <1>6, <1>7, <2>1, <2>2 DEF McpIInv
<1> QED  BY <1>9, <1>10

LEMMA CallDoneStep == ASSUME McpIInv, NEW x \in 1 .. MaxLines, CallDone(x) PROVE McpIInv'
<1>1. McpTypeOK /\ line \in Nat
  BY LenProperties DEF McpIInv, McpTypeOK, line
<1>2. /\ lineAt[x] = "answered" /\ lineAt' = [lineAt EXCEPT ![x] = "done"] /\ calls' = calls - 1
      /\ UNCHANGED <<stdin, broken, loop, out, unsent>> /\ line' = line
  BY DEF CallDone, client, output, line
<1>3. /\ lineAt' \in [1 .. MaxLines -> {"unread", "done"} \cup Under] /\ lineAt'[x] = "done"
      /\ \A i \in 1 .. MaxLines : i # x => lineAt'[i] = lineAt[i]
  BY <1>1, <1>2 DEF McpTypeOK
<1>4. McpTypeOK'
  BY <1>1, <1>2, <1>3 DEF McpTypeOK
<1>5. LinesRouted'
  BY <1>2, <1>3 DEF McpIInv, LinesRouted
<1>6. CallsCounted'
  <2>1. Pending' = Pending \ {x} /\ x \in Pending
    BY <1>2, <1>3 DEF Pending, Under
  <2>2. Cardinality(Pending') = Cardinality(Pending) - 1
    BY <2>1, PendingFinite, FS_RemoveElement
  <2> QED  BY <1>2, <2>1, <2>2 DEF McpIInv, CallsCounted
<1>7. \A i \in 1 .. line : i \in 1 .. MaxLines /\ (Answered(i)' <=> Answered(i))
  <2>1. \A i \in 1 .. line : i \in 1 .. MaxLines
    BY <1>1, LinesAssumption DEF McpTypeOK, line
  <2> QED  BY <1>2, <1>3, <2>1 DEF Answered
<1>8. OnlyAnswers' /\ AnsweredOnce' /\ AnsweredInOrder'
  BY <1>1, <1>2, <1>7, AnswersKept DEF McpIInv
<1>9. NoneMissing'
  BY <1>2, <1>3, <1>7 DEF McpIInv, NoneMissing
<1> QED  BY <1>4, <1>5, <1>6, <1>8, <1>9 DEF McpIInv

LEMMA McpStepInv == McpIInv /\ [McpNext]_mcpVars => McpIInv'
<1> SUFFICES ASSUME McpIInv, [McpNext]_mcpVars PROVE McpIInv'
  OBVIOUS
<1>1. CASE UNCHANGED mcpVars
  <2>1. UNCHANGED <<stdin, broken, loop, lineAt, calls, out, unsent>>
    BY <1>1 DEF mcpVars
  <2>2. line' = line /\ Pending' = Pending /\ \A i : Answered(i)' <=> Answered(i)
    BY <2>1 DEF line, Pending, Answered
  <2>3. McpTypeOK' /\ LinesRouted' /\ CallsCounted'
    BY <2>1, <2>2 DEF McpIInv, McpTypeOK, LinesRouted, CallsCounted
  <2>4. OnlyAnswers' /\ AnsweredOnce' /\ AnsweredInOrder' /\ NoneMissing'
    BY <2>1, <2>2 DEF McpIInv, OnlyAnswers, AnsweredOnce, AnsweredInOrder, NoneMissing
  <2> QED  BY <2>3, <2>4 DEF McpIInv
<1>2. CASE McpNext
  BY <1>2, QuietStep, ScanStep, RouteStep, ReplyStep, AnswerStep, CallDoneStep
     DEF McpNext, Loop, Goroutine
<1> QED  BY <1>1, <1>2

(* With any number of lines and of calls under way, each request is      *)
(* answered once, a notification never, what is no tool call in order,   *)
(* and all of them by the time Serve returns, unless the output broke    *)
(* (Server.Serve).                                                       *)
THEOREM ServeAnswersOnce == McpSpec => []EachAnsweredOnce
<1>1. McpIInv => EachAnsweredOnce
  <2> SUFFICES ASSUME McpIInv PROVE EachAnsweredOnce
    OBVIOUS
  <2>1. line \in Nat /\ DOMAIN stdin = 1 .. line /\ stdin \in Seq(Kinds) /\ line <= MaxLines
    BY LenProperties DEF McpIInv, McpTypeOK, line
  <2>2. IsInjective(out)
    BY DEF McpIInv, AnsweredOnce, IsInjective
  <2>3. \A k \in DOMAIN out : out[k] \in DOMAIN stdin /\ stdin[out[k]] # "note"
    BY <2>1 DEF McpIInv, OnlyAnswers, Answered
  <2>4. ASSUME loop = "returned", ~unsent, NEW i \in DOMAIN stdin, stdin[i] # "note"
        PROVE  \E k \in DOMAIN out : out[k] = i
    <3>1. stdin[i] \in {"call", "other"} /\ i \in 1 .. MaxLines
      BY <2>1, <2>4, LinesAssumption, ElementOfSeq DEF Kinds
    <3>2. lineAt[i] \in {"unread", "done"}
      BY <2>4, <3>1 DEF McpIInv, CallsCounted, Pending, McpTypeOK
    <3>3. stdin[i] = "call" => lineAt[i] # "unread"
      BY <2>1, <2>4 DEF McpIInv, NoneMissing
    <3>4. Answered(i)
      BY <2>4, <3>1, <3>2, <3>3 DEF Answered
    <3> QED  BY <2>1, <2>4, <3>4 DEF McpIInv, NoneMissing
  <2>5. loop = "returned" /\ ~unsent => ToSet(out) = {i \in DOMAIN stdin : stdin[i] # "note"}
    BY <2>3, <2>4 DEF ToSet
  <2> QED  BY <2>2, <2>3, <2>5 DEF McpIInv, AnsweredInOrder, EachAnsweredOnce
<1> QED  BY <1>1, McpInitInv, McpStepInv, PTL DEF McpSpec

-----------------------------------------------------------------------------
(* Requests: what OnlyAsAsked says of the calls that reached a device    *)
(* holds because of what each handler was asked and has left to do; it   *)
(* is followed here from the calls to their handler (RanFor) and from    *)
(* the handler to its calls (LaunchWhole).                               *)

Ops == {"booted", "ensure", "install", "engine", "reset", "launch", "await",
        "stop", "off", "read", "frame", "record", "boot", "openurl"}

ReqTypeOK ==
  /\ wanted \in [ReqHandler -> Request \cup {Nil}]
  /\ callsLeft \in [ReqHandler -> Seq(Ops)]
  /\ call \in [ReqHandler -> Ops \cup {Nil}]
  /\ status \in [ReqHandler -> {0, 200, 400, 401, 404, 502}]

Ran(h, op) == \E c \in ran : c[1] = h /\ c[2] = op

(* The call under way is the first of those left, and has reached the device; *)
(* nothing is left to a handler that refused its request, or has none.        *)
CallUnderWay(h) ==
  /\ call[h] # Nil => /\ callsLeft[h] # <<>> /\ call[h] = Head(callsLeft[h])
                      /\ Ran(h, call[h]) /\ status[h] = 0
  /\ callsLeft[h] # <<>> => wanted[h] # Nil /\ Refusal(wanted[h]) = 0
  /\ wanted[h] = Nil => status[h] = 0

(* The calls that reached a device were for a request that was let in.        *)
RanFor(c) ==
  /\ c[1] \in ReqHandler /\ wanted[c[1]] # Nil /\ Refusal(wanted[c[1]]) = 0
  /\ c[3] = RoutedTo(c[2], wanted[c[1]].id)
  /\ c[2] = "install" => FileFits(wanted[c[1]])

(* Each call of a launch that did not fail was made, or is yet to be.         *)
LaunchWhole(h) ==
  wanted[h] # Nil /\ wanted[h].what = "launch" /\ status[h] \in {0, 200} =>
    \A op \in {"engine", "launch", "await"} :
      Ran(h, op) \/ \E i \in DOMAIN callsLeft[h] : callsLeft[h][i] = op

MarkedDone(h) ==
  h \in marked => /\ wanted[h] # Nil /\ wanted[h].what = "launch"
                  /\ status[h] = 200 /\ callsLeft[h] = <<>>

ReqIInv ==
  /\ ReqTypeOK /\ half \subseteq late /\ marked \subseteq ReqHandler
  /\ \A c \in ran : RanFor(c)
  /\ \A h \in ReqHandler : CallUnderWay(h) /\ LaunchWhole(h) /\ MarkedDone(h)

LEMMA RefusalValues == ASSUME NEW r \in Request PROVE Refusal(r) \in {0, 400, 401, 404}
  BY DEF Refusal

(* A launch is made of three parts, of which the second may be empty.         *)
LEMMA ThreeParts ==
  ASSUME NEW p \in Seq(Ops), NEW q \in Seq(Ops), NEW t \in Seq(Ops)
  PROVE  /\ (p \o q) \o t \in Seq(Ops)
         /\ \A i \in 1 .. Len(p) : \E k \in DOMAIN ((p \o q) \o t) : ((p \o q) \o t)[k] = p[i]
         /\ \A i \in 1 .. Len(t) : \E k \in DOMAIN ((p \o q) \o t) : ((p \o q) \o t)[k] = t[i]
<1>1. /\ p \o q \in Seq(Ops) /\ Len(p \o q) = Len(p) + Len(q)
      /\ Len(p) \in Nat /\ Len(q) \in Nat /\ Len(t) \in Nat
      /\ \A i \in 1 .. Len(p) + Len(q) : (p \o q)[i] = IF i <= Len(p) THEN p[i] ELSE q[i - Len(p)]
  BY ConcatProperties, LenProperties
<1> DEFINE w == (p \o q) \o t
           n == Len(p) + Len(q)
<1>2. /\ w \in Seq(Ops) /\ Len(w) = n + Len(t) /\ DOMAIN w = 1 .. Len(w)
      /\ \A i \in 1 .. n + Len(t) : w[i] = IF i <= n THEN (p \o q)[i] ELSE t[i - n]
  BY <1>1, ConcatProperties, LenProperties
<1> HIDE DEF w
<1>3. ASSUME NEW i \in 1 .. Len(p) PROVE i \in DOMAIN w /\ w[i] = p[i]
  BY <1>1, <1>2
<1>4. ASSUME NEW i \in 1 .. Len(t) PROVE n + i \in DOMAIN w /\ w[n + i] = t[i]
  <2>1. n \in Nat /\ n + i \in 1 .. n + Len(t) /\ ~(n + i <= n) /\ (n + i) - n = i
    BY <1>1
  <2> HIDE DEF n
  <2> QED  BY <1>2, <2>1
<1> QED  BY <1>2, <1>3, <1>4 DEF w

LEMMA LaunchParts ==
  ASSUME NEW r \in Request
  PROVE  /\ LaunchCalls(r) \in Seq(Ops)
         /\ \A op \in {"engine", "launch", "await"} : \E k \in DOMAIN LaunchCalls(r) : LaunchCalls(r)[k] = op
<1>1. PICK x \in Ops : x = IF r.file = Nil THEN "ensure" ELSE "install"
  BY DEF Ops
<1>2. PICK q \in Seq(Ops) : q = IF r.fresh THEN <<"reset">> ELSE <<>>
  <2>1. <<"reset">> \in Seq(Ops) /\ <<>> \in Seq(Ops)
    BY DEF Ops
  <2> QED  BY <2>1
<1> DEFINE p == <<"booted", x, "engine">>
           t == <<"launch", "await">>
<1>3. /\ p \in Seq(Ops) /\ Len(p) = 3 /\ p[3] = "engine"
      /\ t \in Seq(Ops) /\ Len(t) = 2 /\ t[1] = "launch" /\ t[2] = "await"
  <2>1. "booted" \in Ops /\ "engine" \in Ops /\ "launch" \in Ops /\ "await" \in Ops
    BY DEF Ops
  <2> QED  BY <2>1
<1>4. LaunchCalls(r) = (p \o q) \o t
  BY <1>1, <1>2 DEF LaunchCalls
<1> HIDE DEF p, t
<1>5. 3 \in 1 .. Len(p) /\ 1 \in 1 .. Len(t) /\ 2 \in 1 .. Len(t)
  BY <1>3
<1>6. ASSUME NEW op \in {"engine", "launch", "await"}
      PROVE  \E k \in DOMAIN ((p \o q) \o t) : ((p \o q) \o t)[k] = op
  <2>1. /\ \A i \in 1 .. Len(p) : \E k \in DOMAIN ((p \o q) \o t) : ((p \o q) \o t)[k] = p[i]
        /\ \A i \in 1 .. Len(t) : \E k \in DOMAIN ((p \o q) \o t) : ((p \o q) \o t)[k] = t[i]
    BY <1>3, ThreeParts, ZenonT(30)
  <2> QED  BY <1>3, <1>5, <2>1
<1>7. (p \o q) \o t \in Seq(Ops)
  BY <1>3, ThreeParts
<1> QED  BY <1>4, <1>6, <1>7

LEMMA CallsTyped == ASSUME NEW r \in Request PROVE Calls(r) \in Seq(Ops)
<1>1. r.what \in Whats
  BY DEF Request
<1>2. CASE r.what = "launch"
  BY <1>2, LaunchParts DEF Calls
<1>3. CASE r.what # "launch"
  <2>1. \A op \in Ops : <<op>> \in Seq(Ops) /\ <<op, op>> \in Seq(Ops)
    OBVIOUS
  <2>2. \A op, o \in Ops : <<op, o>> \in Seq(Ops)
    OBVIOUS
  <2>3. /\ InstallCalls \in Seq(Ops) /\ EndCalls \in Seq(Ops) /\ ReadCalls \in Seq(Ops)
        /\ RecordCalls \in Seq(Ops) /\ FrameCalls(r.what) \in Seq(Ops)
    <3>1. {"booted", "install", "stop", "off", "read", "record", "frame"} \subseteq Ops
      BY DEF Ops
    <3> QED  BY <2>1, <2>2, <3>1 DEF InstallCalls, EndCalls, ReadCalls, FrameCalls, RecordCalls
  <2>4. CASE r.what \in {"install", "end", "read", "tap", "press", "record"}
    BY <2>3, <2>4 DEF Calls
  <2>5. CASE r.what \in {"boot", "openurl"}
    <3>1. r.what \in Ops /\ Calls(r) = <<r.what>>
      BY <2>5 DEF Calls, Ops
    <3> QED  BY <2>1, <3>1
  <2> QED  BY <1>1, <1>3, <2>4, <2>5 DEF Whats
<1> QED  BY <1>2, <1>3

LEMMA LaunchCallsHave ==
  ASSUME NEW r \in Request, r.what = "launch", NEW op \in {"engine", "launch", "await"}
  PROVE  \E i \in DOMAIN Calls(r) : Calls(r)[i] = op
BY LaunchParts DEF Calls

LEMMA ReqInitInv == ReqInit => ReqIInv
<1> SUFFICES ASSUME ReqInit PROVE ReqIInv
  OBVIOUS
<1>1. <<>> \in Seq(Ops)
  BY EmptySeq
<1>2. ReqTypeOK
  BY <1>1 DEF ReqInit, ReqTypeOK
<1>3. ASSUME NEW h \in ReqHandler PROVE CallUnderWay(h) /\ LaunchWhole(h) /\ MarkedDone(h)
  BY DEF ReqInit, CallUnderWay, LaunchWhole, MarkedDone
<1> QED  BY <1>2, <1>3 DEF ReqInit, ReqIInv

(* A step of one handler leaves what holds of the others.                     *)
LEMMA OtherHandlers ==
  ASSUME NEW g \in ReqHandler, CallUnderWay(g), LaunchWhole(g), MarkedDone(g),
         UNCHANGED <<wanted[g], callsLeft[g], call[g], status[g]>>,
         ran \subseteq ran', g \in marked' => g \in marked
  PROVE  CallUnderWay(g)' /\ LaunchWhole(g)' /\ MarkedDone(g)'
<1>1. \A op : Ran(g, op) => Ran(g, op)'
  BY DEF Ran
<1>2. CallUnderWay(g)'
  BY <1>1 DEF CallUnderWay
<1>3. LaunchWhole(g)'
  BY <1>1 DEF LaunchWhole
<1>4. MarkedDone(g)'
  BY DEF MarkedDone
<1> QED  BY <1>2, <1>3, <1>4

LEMMA ArrivesStep ==
  ASSUME ReqIInv, NEW h \in ReqHandler, NEW r \in Request, Arrives(h, r)
  PROVE  ReqIInv'
<1>1. ReqTypeOK /\ CallUnderWay(h) /\ MarkedDone(h) /\ r # Nil /\ Refusal(r) \in {0, 400, 401, 404}
  BY RefusalValues, NilAssumption DEF ReqIInv
<1>2. /\ wanted[h] = Nil /\ wanted' = [wanted EXCEPT ![h] = r]
      /\ status' = [status EXCEPT ![h] = Refusal(r)]
      /\ UNCHANGED <<call, late, ran, half, marked>>
  BY DEF Arrives
<1>3. PICK its \in Seq(Ops) : /\ callsLeft' = [callsLeft EXCEPT ![h] = its]
                               /\ its = IF Refusal(r) = 0 THEN Calls(r) ELSE <<>>
  BY CallsTyped, EmptySeq DEF Arrives
<1>4. /\ wanted'[h] = r /\ status'[h] = Refusal(r) /\ callsLeft'[h] = its /\ call'[h] = call[h]
      /\ \A g \in ReqHandler \ {h} : UNCHANGED <<wanted[g], callsLeft[g], call[g], status[g]>>
  BY <1>1, <1>2, <1>3 DEF ReqTypeOK
<1>5. ReqTypeOK'
  <2>1. wanted' \in [ReqHandler -> Request \cup {Nil}] /\ callsLeft' \in [ReqHandler -> Seq(Ops)]
    BY <1>1, <1>2, <1>3 DEF ReqTypeOK
  <2>2. status' \in [ReqHandler -> {0, 200, 400, 401, 404, 502}]
    BY <1>1, <1>2 DEF ReqTypeOK
  <2> QED  BY <1>1, <1>2, <2>1, <2>2 DEF ReqTypeOK
<1>6. callsLeft[h] = <<>> /\ call[h] = Nil /\ h \notin marked /\ \A c \in ran : c[1] # h
  BY <1>1, <1>2 DEF CallUnderWay, MarkedDone, ReqIInv, RanFor
<1>7. ASSUME NEW c \in ran' PROVE RanFor(c)'
  BY <1>2, <1>4, <1>6, <1>7 DEF ReqIInv, RanFor
<1>8. ASSUME NEW g \in ReqHandler PROVE CallUnderWay(g)' /\ LaunchWhole(g)' /\ MarkedDone(g)'
  <2>1. CASE g # h
    BY <1>2, <1>4, <2>1, OtherHandlers DEF ReqIInv
  <2>2. CASE g = h
    <3>1. CallUnderWay(h)' /\ MarkedDone(h)'
      BY <1>1, <1>2, <1>3, <1>4, <1>6 DEF CallUnderWay, MarkedDone
    <3>2. LaunchWhole(h)'
      BY <1>1, <1>3, <1>4, LaunchCallsHave DEF LaunchWhole
    <3> QED  BY <2>2, <3>1, <3>2
  <2> QED  BY <2>1, <2>2
<1> QED  BY <1>2, <1>5, <1>7, <1>8 DEF ReqIInv

LEMMA CallingStep == ASSUME ReqIInv, NEW h \in ReqHandler, Calling(h) PROVE ReqIInv'
<1> PICK op : op = Head(callsLeft[h])
  OBVIOUS
<1>1. /\ ReqTypeOK /\ CallUnderWay(h) /\ LaunchWhole(h) /\ MarkedDone(h) /\ op \in Ops
      /\ wanted[h] # Nil /\ status[h] = 0 /\ call[h] = Nil /\ callsLeft[h] # <<>>
      /\ Refusal(wanted[h]) = 0
  BY HeadTailProperties DEF ReqIInv, ReqTypeOK, Calling, Waiting, CallUnderWay
<1>2. UNCHANGED <<wanted, callsLeft, late, half, marked>>
  BY DEF Calling
<1>3. \/ \E refusal \in {400, 502} : status' = [status EXCEPT ![h] = refusal] /\ UNCHANGED <<call, ran>>
      \/ /\ op = "install" => FileFits(wanted[h])
         /\ call' = [call EXCEPT ![h] = op] /\ status' = status
         /\ ran' = ran \cup {<<h, op, RoutedTo(op, wanted[h].id)>>}
  BY DEF Calling, Refuses
<1>4. CASE \E refusal \in {400, 502} : status' = [status EXCEPT ![h] = refusal] /\ UNCHANGED <<call, ran>>
  <2>1. PICK refusal \in {400, 502} : status' = [status EXCEPT ![h] = refusal] /\ UNCHANGED <<call, ran>>
    BY <1>4
  <2>2. /\ status'[h] = refusal /\ status' \in [ReqHandler -> {0, 200, 400, 401, 404, 502}]
        /\ \A g \in ReqHandler \ {h} : status'[g] = status[g]
    BY <1>1, <2>1 DEF ReqTypeOK
  <2>3. ReqTypeOK'
    BY <1>1, <1>2, <2>1, <2>2 DEF ReqTypeOK
  <2>4. ASSUME NEW g \in ReqHandler PROVE CallUnderWay(g)' /\ LaunchWhole(g)' /\ MarkedDone(g)'
    <3>1. CASE g # h
      BY <1>2, <2>1, <2>2, <3>1, OtherHandlers DEF ReqIInv
    <3>2. CASE g = h
      BY <1>1, <1>2, <2>1, <2>2, <3>2 DEF CallUnderWay, LaunchWhole, MarkedDone
    <3> QED  BY <3>1, <3>2
  <2>5. \A c \in ran' : RanFor(c)'
    BY <1>2, <2>1 DEF ReqIInv, RanFor
  <2> QED  BY <1>2, <2>3, <2>4, <2>5 DEF ReqIInv
<1>5. CASE /\ op = "install" => FileFits(wanted[h])
           /\ call' = [call EXCEPT ![h] = op] /\ status' = status
           /\ ran' = ran \cup {<<h, op, RoutedTo(op, wanted[h].id)>>}
  <2>1. /\ call'[h] = op /\ call' \in [ReqHandler -> Ops \cup {Nil}]
        /\ \A g \in ReqHandler \ {h} : call'[g] = call[g]
    BY <1>1, <1>5 DEF ReqTypeOK
  <2>2. ReqTypeOK'
    BY <1>1, <1>2, <1>5, <2>1 DEF ReqTypeOK
  <2>3. ASSUME NEW c \in ran' PROVE RanFor(c)'
    <3>1. CASE c \in ran
      BY <1>2, <3>1 DEF ReqIInv, RanFor
    <3>2. CASE c = <<h, op, RoutedTo(op, wanted[h].id)>>
      <4>1. c[1] = h /\ c[2] = op /\ c[3] = RoutedTo(op, wanted[h].id)
        BY <3>2
      <4> QED  BY <1>1, <1>2, <1>5, <4>1 DEF RanFor
    <3> QED  BY <1>5, <3>1, <3>2
  <2>4. ran \subseteq ran' /\ Ran(h, op)' /\ \A o : Ran(h, o) => Ran(h, o)'
    <3> PICK c : c = <<h, op, RoutedTo(op, wanted[h].id)>>
      OBVIOUS
    <3>1. c[1] = h /\ c[2] = op /\ ran' = ran \cup {c}
      BY <1>5
    <3> QED  BY <3>1 DEF Ran
  <2>5. ASSUME NEW g \in ReqHandler PROVE CallUnderWay(g)' /\ LaunchWhole(g)' /\ MarkedDone(g)'
    <3>1. CASE g # h
      BY <1>2, <1>5, <2>1, <2>4, <3>1, OtherHandlers DEF ReqIInv
    <3>2. CASE g = h
      <4>1. CallUnderWay(h)'
        BY <1>1, <1>2, <1>5, <2>1, <2>4 DEF CallUnderWay
      <4>2. LaunchWhole(h)'
        BY <1>1, <1>2, <1>5, <2>4 DEF LaunchWhole
      <4>3. MarkedDone(h)'
        BY <1>1, <1>2, <1>5 DEF MarkedDone
      <4> QED  BY <3>2, <4>1, <4>2, <4>3
    <3> QED  BY <3>1, <3>2
  <2> QED  BY <1>2, <2>2, <2>3, <2>5 DEF ReqIInv
<1> QED  BY <1>3, <1>4, <1>5

(* A call that returns leaves those after it; one that fails ends them.       *)
LEMMA CallEndsStep ==
  ASSUME ReqIInv, NEW h \in ReqHandler, Returns(h) \/ CallFails(h) \/ CallKilled(h)
  PROVE  ReqIInv'
<1>1. /\ ReqTypeOK /\ CallUnderWay(h) /\ LaunchWhole(h) /\ MarkedDone(h)
      /\ call[h] # Nil /\ callsLeft[h] # <<>> /\ call[h] = Head(callsLeft[h]) /\ Ran(h, call[h])
      /\ status[h] = 0
  BY DEF ReqIInv, Returns, CallFails, CallKilled, CallUnderWay
<1>2. call' = [call EXCEPT ![h] = Nil] /\ UNCHANGED <<wanted, late, ran, marked>>
  BY DEF Returns, CallFails, CallKilled
<1>3. half' \subseteq late'
  <2>1. CASE half' = half
    BY <1>2, <2>1 DEF ReqIInv
  <2>2. CASE half' # half
    <3>1. CallKilled(h) /\ Ended(h, call[h]) /\ ChangesDevice(call[h]) /\ half' = half \cup {h}
      BY <2>2 DEF Returns, CallFails, CallKilled
    <3>2. h \in late
      BY <3>1 DEF Ended, OfRequest, ChangesDevice
    <3> QED  BY <1>2, <3>1, <3>2 DEF ReqIInv
  <2> QED  BY <2>1, <2>2
<1>4. /\ call'[h] = Nil /\ call' \in [ReqHandler -> Ops \cup {Nil}]
      /\ \A g \in ReqHandler \ {h} : call'[g] = call[g]
  BY <1>1, <1>2 DEF ReqTypeOK
<1>5. \A c \in ran' : RanFor(c)'
  BY <1>2 DEF ReqIInv, RanFor
<1>6. \A op : Ran(h, op)' <=> Ran(h, op)
  BY <1>2 DEF Ran
<1>7. CASE Returns(h)
  <2>1. callsLeft' = [callsLeft EXCEPT ![h] = Tail(callsLeft[h])] /\ status' = status
    BY <1>7 DEF Returns
  <2>2. /\ Tail(callsLeft[h]) \in Seq(Ops)
        /\ \A i \in DOMAIN callsLeft[h] :
             callsLeft[h][i] = call[h] \/ \E j \in DOMAIN Tail(callsLeft[h]) : Tail(callsLeft[h])[j] = callsLeft[h][i]
    BY <1>1, TailElements DEF ReqTypeOK
  <2>3. /\ callsLeft'[h] = Tail(callsLeft[h]) /\ callsLeft' \in [ReqHandler -> Seq(Ops)]
        /\ \A g \in ReqHandler \ {h} : callsLeft'[g] = callsLeft[g]
    BY <1>1, <2>1, <2>2 DEF ReqTypeOK
  <2>4. ReqTypeOK'
    BY <1>1, <1>2, <1>4, <2>1, <2>3 DEF ReqTypeOK
  <2>5. ASSUME NEW g \in ReqHandler PROVE CallUnderWay(g)' /\ LaunchWhole(g)' /\ MarkedDone(g)'
    <3>1. CASE g # h
      BY <1>2, <1>4, <2>1, <2>3, <3>1, OtherHandlers DEF ReqIInv
    <3>2. CASE g = h
      <4>1. CallUnderWay(h)'
        BY <1>1, <1>2, <1>4, <2>1 DEF CallUnderWay
      <4>2. LaunchWhole(h)'
        <5>1. ASSUME wanted[h].what = "launch", NEW op \in {"engine", "launch", "await"}
              PROVE  Ran(h, op) \/ \E i \in DOMAIN Tail(callsLeft[h]) : Tail(callsLeft[h])[i] = op
          <6>1. wanted[h] # Nil /\ status[h] \in {0, 200}
            BY <1>1 DEF CallUnderWay
          <6>2. Ran(h, op) \/ \E i \in DOMAIN callsLeft[h] : callsLeft[h][i] = op
            BY <1>1, <5>1, <6>1 DEF LaunchWhole
          <6>3. CASE \E i \in DOMAIN callsLeft[h] : callsLeft[h][i] = op
            <7>1. CASE op = call[h]
              BY <1>1, <7>1
            <7>2. CASE op # call[h]
              BY <2>2, <6>3, <7>2
            <7> QED  BY <7>1, <7>2
          <6> QED  BY <6>2, <6>3
        <5> QED  BY <1>2, <1>6, <2>3, <5>1 DEF LaunchWhole
      <4>3. MarkedDone(h)'
        BY <1>1, <1>2, <2>1 DEF MarkedDone
      <4> QED  BY <3>2, <4>1, <4>2, <4>3
    <3> QED  BY <3>1, <3>2
  <2> QED  BY <1>2, <1>3, <1>5, <2>4, <2>5 DEF ReqIInv
<1>8. CASE CallFails(h) \/ CallKilled(h)
  <2>1. status' = [status EXCEPT ![h] = 502] /\ callsLeft' = callsLeft
    BY <1>8 DEF CallFails, CallKilled
  <2>2. /\ status'[h] = 502 /\ status' \in [ReqHandler -> {0, 200, 400, 401, 404, 502}]
        /\ \A g \in ReqHandler \ {h} : status'[g] = status[g]
    BY <1>1, <2>1 DEF ReqTypeOK
  <2>3. ReqTypeOK'
    BY <1>1, <1>2, <1>4, <2>1, <2>2 DEF ReqTypeOK
  <2>4. ASSUME NEW g \in ReqHandler PROVE CallUnderWay(g)' /\ LaunchWhole(g)' /\ MarkedDone(g)'
    <3>1. CASE g # h
      BY <1>2, <1>4, <2>1, <2>2, <3>1, OtherHandlers DEF ReqIInv
    <3>2. CASE g = h
      BY <1>1, <1>2, <1>4, <2>1, <2>2, <3>2 DEF CallUnderWay, LaunchWhole, MarkedDone
    <3> QED  BY <3>1, <3>2
  <2> QED  BY <1>2, <1>3, <1>5, <2>3, <2>4 DEF ReqIInv
<1> QED  BY <1>7, <1>8

LEMMA RepliesStep == ASSUME ReqIInv, NEW h \in ReqHandler, Replies(h) PROVE ReqIInv'
<1>1. /\ ReqTypeOK /\ CallUnderWay(h) /\ LaunchWhole(h) /\ MarkedDone(h)
      /\ wanted[h] # Nil /\ status[h] = 0 /\ call[h] = Nil /\ callsLeft[h] = <<>>
  BY DEF ReqIInv, Replies, Waiting
<1>2. /\ status' = [status EXCEPT ![h] = 200]
      /\ marked' = IF wanted[h].what = "launch" THEN marked \cup {h} ELSE marked
      /\ UNCHANGED <<wanted, callsLeft, call, late, ran, half>>
  BY DEF Replies
<1>3. /\ status'[h] = 200 /\ status' \in [ReqHandler -> {0, 200, 400, 401, 404, 502}]
      /\ \A g \in ReqHandler \ {h} : status'[g] = status[g]
  BY <1>1, <1>2 DEF ReqTypeOK
<1>4. ReqTypeOK'
  BY <1>1, <1>2, <1>3 DEF ReqTypeOK
<1>5. \A op : Ran(h, op)' <=> Ran(h, op)
  BY <1>2 DEF Ran
<1>6. ASSUME NEW g \in ReqHandler PROVE CallUnderWay(g)' /\ LaunchWhole(g)' /\ MarkedDone(g)'
  <2>1. CASE g # h
    BY <1>2, <1>3, <2>1, OtherHandlers DEF ReqIInv
  <2>2. CASE g = h
    <3>1. CallUnderWay(h)'
      BY <1>1, <1>2, <1>3 DEF CallUnderWay
    <3>2. LaunchWhole(h)'
      BY <1>1, <1>2, <1>3, <1>5 DEF LaunchWhole
    <3>3. MarkedDone(h)'
      BY <1>1, <1>2, <1>3 DEF MarkedDone
    <3> QED  BY <2>2, <3>1, <3>2, <3>3
  <2> QED  BY <2>1, <2>2
<1>7. \A c \in ran' : RanFor(c)'
  BY <1>2 DEF ReqIInv, RanFor
<1> QED  BY <1>2, <1>4, <1>6, <1>7 DEF ReqIInv

LEMMA ReqStepInv == ReqIInv /\ [ReqNext]_reqVars => ReqIInv'
<1> SUFFICES ASSUME ReqIInv, [ReqNext]_reqVars PROVE ReqIInv'
  OBVIOUS
<1>1. ASSUME UNCHANGED <<wanted, callsLeft, call, status, ran, half, marked>>, late \subseteq late'
      PROVE  ReqIInv'
  <2>1. ReqTypeOK'
    BY <1>1 DEF ReqIInv, ReqTypeOK
  <2>2. ASSUME NEW h \in ReqHandler PROVE CallUnderWay(h)' /\ LaunchWhole(h)' /\ MarkedDone(h)'
    BY <1>1, OtherHandlers DEF ReqIInv
  <2>3. \A c \in ran' : RanFor(c)'
    BY <1>1 DEF ReqIInv, RanFor
  <2> QED  BY <1>1, <2>1, <2>2, <2>3 DEF ReqIInv
<1>2. CASE UNCHANGED reqVars
  BY <1>1, <1>2 DEF reqVars
<1>3. CASE ReqNext
  <2>1. ASSUME NEW h \in ReqHandler, ClientLeaves(h) \/ Expires(h) PROVE ReqIInv'
    BY <1>1, <2>1 DEF ClientLeaves, Expires
  <2> QED  BY <1>3, <2>1, ArrivesStep, CallingStep, CallEndsStep, RepliesStep DEF ReqNext
<1> QED  BY <1>2, <1>3

(* Any number of requests, of clients that leave and of calls that fail  *)
(* or time out: a call reaches a device only for a request that was let  *)
(* in, on the platform it is for, and an app is marked as launched only  *)
(* once it is (server.go, lifecycle.go).                                 *)
THEOREM RequestsDoAsAsked == ReqSpec => []OnlyAsAsked
<1>1. ReqIInv => OnlyAsAsked
  <2> SUFFICES ASSUME ReqIInv PROVE OnlyAsAsked
    OBVIOUS
  <2>1. NoHalfCommand
    BY DEF ReqIInv, NoHalfCommand
  <2>2. CallsFit
    <3> SUFFICES ASSUME NEW c \in ran
                 PROVE  LET r == wanted[c[1]] IN
                          /\ (Token => r.carries) /\ ValidID(r.id) /\ r.body
                          /\ r.id # "avd:Pixel" \/ c[2] = "boot" => c[3] = Platform(r.id)
                          /\ c[2] = "install" => (r.file = "apk") = (c[3] = "android")
      BY DEF CallsFit
    <3>1. /\ wanted[c[1]] \in Request /\ Refusal(wanted[c[1]]) = 0
          /\ c[3] = RoutedTo(c[2], wanted[c[1]].id)
          /\ c[2] = "install" => FileFits(wanted[c[1]])
      BY DEF ReqIInv, ReqTypeOK, RanFor
    <3>2. ASSUME NEW r \in Request, Refusal(r) = 0
          PROVE  (Token => r.carries) /\ ValidID(r.id) /\ r.body /\ r.id \in Ids
      BY <3>2 DEF Refusal, Request
    <3>3. ASSUME NEW id \in Ids, ValidID(id), NEW op, id # "avd:Pixel" \/ op = "boot"
          PROVE  RoutedTo(op, id) = Platform(id)
      BY <3>3 DEF RoutedTo, Platform, IsAndroidSerial, ValidID, Ids
    <3>4. ASSUME NEW r \in Request, FileFits(r)
          PROVE  (r.file = "apk") = (RoutedTo("install", r.id) = "android")
      BY <3>4 DEF FileFits, RoutedTo
    <3> QED  BY <3>1, <3>2, <3>3, <3>4
  <2>3. MarkedIsLaunched
    <3> SUFFICES ASSUME NEW h \in marked, NEW op \in {"engine", "launch", "await"}
                 PROVE  \E c \in ran : c[1] = h /\ c[2] = op
      BY DEF MarkedIsLaunched
    <3>1. /\ h \in ReqHandler /\ wanted[h] # Nil /\ wanted[h].what = "launch" /\ status[h] = 200
          /\ callsLeft[h] = <<>> /\ LaunchWhole(h)
      BY DEF ReqIInv, MarkedDone
    <3>2. \A i \in DOMAIN callsLeft[h] : FALSE
      BY <3>1, NothingIn
    <3> QED  BY <3>1, <3>2 DEF LaunchWhole, Ran
  <2> QED  BY <2>1, <2>2, <2>3 DEF OnlyAsAsked
<1> QED  BY <1>1, ReqInitInv, ReqStepInv, PTL DEF ReqSpec

-----------------------------------------------------------------------------
(* Ready: the scan holds the best of the devices it has looked at, of    *)
(* those booted and of those new enough; that is the invariant, and at   *)
(* its end what Resolves says.                                           *)

ReadyTypeOK ==
  /\ sources \in Seq(Listed) \X Seq(Listed)
  /\ scanned \in 0..Len(All)
  /\ bestBooted \in Listed \cup {Nothing} /\ bestFloor \in Listed \cup {Nothing}
  /\ bringing \in {"list", "boot", "app", "status", "printed"}

LookedAt == {All[i] : i \in 1..scanned}

(* The best a scan holds, of those it looked at that fit.                     *)
BestOf(best, fit) ==
  IF fit = {} THEN best = Nothing
  ELSE best \in fit /\ \A d \in fit : ~Newer(d, best)

Scanned ==
  /\ BestOf(bestBooted, {d \in LookedAt : d.booted})
  /\ BestOf(bestFloor, {d \in LookedAt : Eligible(d)})

ReadyIInv ==
  /\ ReadyTypeOK /\ Scanned
  /\ bringing # "list" =>
       /\ scanned = Len(All)
       /\ chosen = IF bestBooted # Nothing THEN bestBooted ELSE bestFloor

(* To be newer is a strict weak order, of the releases and of having none.    *)
LEMMA NewerTransitive ==
  ASSUME NEW a \in Listed, NEW b \in Listed, NEW c \in Listed,
         ~Newer(a, b), Newer(c, b)
  PROVE  ~Newer(a, c)
<1>1. \A d \in {a, b, c} : d.os = Android \/ (d.os # Android /\ d.os[1] \in Int /\ d.os[2] \in Int)
  BY ReleasesAssumption DEF Listed, Android
<1> QED  BY <1>1 DEF Newer, Older

LEMMA NewerIrreflexive == \A a \in Listed : ~Newer(a, a)
<1> SUFFICES ASSUME NEW a \in Listed PROVE ~Newer(a, a)
  OBVIOUS
<1>1. a.os = Android \/ (a.os # Android /\ a.os[1] \in Int /\ a.os[2] \in Int)
  BY ReleasesAssumption DEF Listed, Android
<1> QED  BY <1>1 DEF Newer, Older

(* What it holds stays the best when one more that fits is looked at.         *)
LEMMA BestOfOneMore ==
  ASSUME NEW fit \in SUBSET Listed, NEW best, BestOf(best, fit), NEW d \in Listed
  PROVE  BestOf(Best(best, d), fit \cup {d})
<1>1. CASE fit = {}
  BY <1>1, NewerIrreflexive DEF BestOf, Best
<1>2. CASE fit # {} /\ Newer(d, best)
  BY <1>2, NewerIrreflexive, NewerTransitive, NothingAssumption DEF BestOf, Best
<1>3. CASE fit # {} /\ ~Newer(d, best)
  BY <1>3, NothingAssumption DEF BestOf, Best
<1> QED  BY <1>1, <1>2, <1>3

LEMMA ReadyInitInv == ReadyInit => ReadyIInv
<1> SUFFICES ASSUME ReadyInit PROVE ReadyIInv
  OBVIOUS
<1>1. sources \in Seq(Listed) \X Seq(Listed)
  <2>1. ASSUME NEW q \in BoundedSeq(Listed, MaxListed) PROVE q \in Seq(Listed)
    <3>1. PICK m \in 0 .. MaxListed : q \in [1 .. m -> Listed]
      BY <2>1 DEF BoundedSeq, SeqOf
    <3>2. m \in Nat
      BY <3>1, ReleasesAssumption
    <3> QED  BY <3>1, <3>2, SeqDef
  <2>2. sources \in Sim \X Emu
    BY DEF ReadyInit
  <2>3. Sim \subseteq BoundedSeq(Listed, MaxListed) /\ Emu \subseteq BoundedSeq(Listed, MaxListed)
    BY DEF Sim, Emu
  <2> QED  BY <2>1, <2>2, <2>3
<1>2. All \in Seq(Listed)
  BY <1>1, ConcatProperties DEF All
<1>3. ReadyTypeOK
  BY <1>1, <1>2 DEF ReadyInit, ReadyTypeOK
<1>4. LookedAt = {}
  BY DEF LookedAt, ReadyInit
<1> QED  BY <1>3, <1>4 DEF ReadyInit, ReadyIInv, Scanned, BestOf

LEMMA ListScanStep ==
  ASSUME ReadyIInv, ScanListed
  PROVE  ReadyIInv'
<1> DEFINE d == All[scanned + 1]
<1>1. All \in Seq(Listed) /\ All' = All
  BY ConcatProperties DEF ReadyIInv, ReadyTypeOK, All, ScanListed
<1>2. /\ scanned \in Nat /\ scanned + 1 \in 1..Len(All) /\ scanned' = scanned + 1 /\ d \in Listed
      /\ bestBooted' = (IF d.booted THEN Best(bestBooted, d) ELSE bestBooted)
      /\ bestFloor' = (IF Eligible(d) THEN Best(bestFloor, d) ELSE bestFloor)
  BY <1>1, ElementOfSeq DEF ReadyIInv, ReadyTypeOK, ScanListed
<1>3. LookedAt' = LookedAt \cup {d} /\ LookedAt \subseteq Listed
  BY <1>1, <1>2, ElementOfSeq DEF LookedAt
<1> HIDE DEF d
<1>4. BestOf(bestBooted', {e \in LookedAt' : e.booted})
  <2> DEFINE fit == {e \in LookedAt : e.booted}
  <2>1. CASE d.booted
    <3>1. {e \in LookedAt' : e.booted} = fit \cup {d}
      BY <1>3, <2>1
    <3>2. BestOf(Best(bestBooted, d), fit \cup {d})
      BY <1>2, <1>3, BestOfOneMore DEF ReadyIInv, Scanned
    <3> QED  BY <1>2, <2>1, <3>1, <3>2
  <2>2. CASE ~d.booted
    <3>1. {e \in LookedAt' : e.booted} = fit
      BY <1>3, <2>2
    <3> QED  BY <1>2, <2>2, <3>1 DEF ReadyIInv, Scanned
  <2> QED  BY <2>1, <2>2
<1>5. BestOf(bestFloor', {e \in LookedAt' : Eligible(e)})
  <2> DEFINE fit == {e \in LookedAt : Eligible(e)}
  <2>1. CASE Eligible(d)
    <3>1. {e \in LookedAt' : Eligible(e)} = fit \cup {d}
      BY <1>3, <2>1
    <3>2. BestOf(Best(bestFloor, d), fit \cup {d})
      BY <1>2, <1>3, BestOfOneMore DEF ReadyIInv, Scanned
    <3> QED  BY <1>2, <2>1, <3>1, <3>2
  <2>2. CASE ~Eligible(d)
    <3>1. {e \in LookedAt' : Eligible(e)} = fit
      BY <1>3, <2>2
    <3> QED  BY <1>2, <2>2, <3>1 DEF ReadyIInv, Scanned
  <2> QED  BY <2>1, <2>2
<1>6. ReadyTypeOK'
  BY <1>1, <1>2 DEF ReadyIInv, ReadyTypeOK, ScanListed, Best
<1>7. bringing' = "list"
  BY DEF ScanListed
<1> QED  BY <1>4, <1>5, <1>6, <1>7 DEF ReadyIInv, Scanned, Eligible

LEMMA ReadyStepInv == ReadyIInv /\ [ReadyNext]_readyVars => ReadyIInv'
<1> SUFFICES ASSUME ReadyIInv, [ReadyNext]_readyVars PROVE ReadyIInv'
  OBVIOUS
<1>1. CASE /\ UNCHANGED <<sources, scanned, bestBooted, bestFloor>>
           /\ bringing # "list" => bringing' # "list" /\ chosen' = chosen
           /\ bringing' \in {"list", "boot", "app", "status", "printed"}
           /\ bringing = "list" => bringing' = "list"
  <2>1. All' = All
    BY <1>1 DEF All
  <2>2. ReadyTypeOK'
    BY <1>1, <2>1 DEF ReadyIInv, ReadyTypeOK
  <2>3. Scanned'
    <3>1. LookedAt' = LookedAt
      BY <1>1, <2>1 DEF LookedAt
    <3> QED  BY <1>1, <3>1 DEF ReadyIInv, Scanned
  <2> QED  BY <1>1, <2>1, <2>2, <2>3 DEF ReadyIInv
<1>2. CASE Resolve
  <2>1. /\ UNCHANGED <<sources, scanned, bestBooted, bestFloor>> /\ bringing' \in {"status", "boot"}
        /\ scanned = Len(All) /\ chosen' = IF bestBooted # Nothing THEN bestBooted ELSE bestFloor
    BY <1>2 DEF Resolve, scan
  <2>2. All' = All
    BY <2>1 DEF All
  <2>3. ReadyTypeOK'
    BY <2>1, <2>2 DEF ReadyIInv, ReadyTypeOK
  <2>4. Scanned'
    <3>1. LookedAt' = LookedAt
      BY <2>1, <2>2 DEF LookedAt
    <3> QED  BY <2>1, <3>1 DEF ReadyIInv, Scanned
  <2> QED  BY <2>1, <2>2, <2>3, <2>4 DEF ReadyIInv
<1>3. CASE Boot \/ Install \/ Launch \/ NoApp \/ Tell
  BY <1>1, <1>3 DEF Boot, Install, Launch, NoApp, Tell, scan
<1>4. CASE UNCHANGED readyVars
  BY <1>1, <1>4 DEF readyVars, scan, ReadyIInv, ReadyTypeOK
<1> QED  BY <1>2, <1>3, <1>4, ListScanStep DEF ReadyNext

(* Whatever the devices listed, their order and their releases: a booted *)
(* one is chosen where there is one, the newest; else the newest that is *)
(* no older than the floor; else none (ResolveDevice).                   *)
THEOREM ReadyResolves == ReadySpec => []Resolves
<1>1. ReadyIInv => Resolves
  <2> SUFFICES ASSUME ReadyIInv, bringing # "list" PROVE Resolves
    BY DEF Resolves
  <2>1. All \in Seq(Listed) /\ scanned = Len(All)
    BY ConcatProperties DEF ReadyIInv, ReadyTypeOK, All
  <2>2. LookedAt = {All[i] : i \in DOMAIN All} /\ Nothing \notin LookedAt
    BY <2>1, ElementOfSeq, NothingAssumption DEF LookedAt
  <2> DEFINE running == {d \in LookedAt : d.booted}
             fit == {d \in LookedAt : d.os # Android /\ ~Older(d.os, Floor)}
  <2>3. CASE running # {}
    BY <2>2, <2>3 DEF ReadyIInv, Scanned, BestOf, Resolves
  <2>4. CASE running = {}
    <3>1. fit = {d \in LookedAt : Eligible(d)} /\ bestBooted = Nothing
      BY <2>4 DEF Eligible, AtLeastFloor, ReadyIInv, Scanned, BestOf
    <3> QED  BY <2>2, <2>4, <3>1 DEF ReadyIInv, Scanned, BestOf, Resolves
  <2> QED  BY <2>3, <2>4
<1> QED  BY <1>1, ReadyInitInv, ReadyStepInv, PTL DEF ReadySpec

-----------------------------------------------------------------------------
(* Settings: a handler has applied a first part of what it was asked, in *)
(* order, and of the part it is at, all that it does not have left to go *)
(* over, and nothing else (Progress). What it did holds unless it did    *)
(* something else for a later part, or another handler changed it        *)
(* (Stays).                                                              *)

Values == {"dark", "odd", "home", "grant", "revoke"}
Parts == [what : {"appearance", "location"} \cup Names, value : Values]

SetTypeOK ==
  /\ platform \in {"ios", "android"}
  /\ request \in [Setter -> Seq(Parts)] /\ left \in [Setter -> Seq(Parts)]
  /\ applied \in [Setter -> Seq(Parts)]
  /\ covers \in [Setter -> SUBSET Declared]
  /\ answer \in [Setter -> {"none", "asked", "ok", "refused", "failed"}]
  /\ DOMAIN did = Setter

(* How far a handler is: what it has applied and what is left are, in order,  *)
(* what it was asked; of the part under way, what is not to be gone over any  *)
(* more was done, and nothing that it does not ask for; and for the parts     *)
(* after it nothing was.                                                      *)
Progress(h) ==
  /\ answer[h] \in {"none", "refused"} => applied[h] = <<>> /\ did[h] = {} /\ covers[h] = {}
  /\ answer[h] \in {"asked", "ok", "failed"} => request[h] = applied[h] \o left[h]
  /\ answer[h] = "ok" => left[h] = <<>>
  /\ answer[h] = "asked" /\ left[h] # <<>> =>
       DoneFor(h, Len(applied[h]) + 1) \subseteq Asked(NextPart(h))
  /\ Begun(h) /\ answer[h] = "asked" =>
       /\ Asks(h) /\ covers[h] \subseteq Of(h)
       /\ \A p \in Of(h) \ covers[h] : Part(p, NextPart(h).value) \in DoneFor(h, Len(applied[h]) + 1)
  /\ \A i \in DOMAIN applied[h] :
       Asked(applied[h][i]) # {} /\ Asked(applied[h][i]) = DoneFor(h, i)
  /\ \A s \in did[h] : s.at \in 1 .. Len(applied[h]) + 1

(* What a handler did holds, unless it or another has changed it since.       *)
InForce(s, h) == \E d \in device : d.what = s.what /\ (d.value = s.value \/ d.by # h)
Stays(h) ==
  \A s \in did[h] : InForce(s, h) \/ \E t \in did[h] : t.what = s.what /\ t.at > s.at

SetIInv == SetTypeOK /\ \A h \in Setter : Progress(h) /\ Stays(h)

LEMMA SetInitInv == SetInit => SetIInv
<1> SUFFICES ASSUME SetInit PROVE SetIInv
  OBVIOUS
<1>1. <<>> \in Seq(Parts)
  BY EmptySeq
<1>2. SetTypeOK
  BY <1>1 DEF SetInit, SetTypeOK
<1> QED  BY <1>2 DEF SetInit, SetIInv, Progress, Stays, Begun

(* What may be asked is a sequence of parts.                                  *)
LEMMA RequestsTyped ==
  ASSUME NEW parts \in SettingsRequests
  PROVE  parts \in Seq(Parts)
<1> DEFINE A == {<<>>, <<Part("appearance", "dark")>>, <<Part("appearance", "odd")>>}
           L == {<<>>, <<Part("location", "home")>>}
<1>1. PICK a \in A, l \in L, g \in NameLists, r \in NameLists :
        parts = a \o l \o PermissionSteps(g, "grant") \o PermissionSteps(r, "revoke")
  <2> HIDE DEF A, L
  <2>1. SettingsRequests = {a \o l \o PermissionSteps(g, "grant") \o PermissionSteps(r, "revoke") :
                              a \in A, l \in L, g \in NameLists, r \in NameLists}
    BY DEF SettingsRequests, A, L
  <2>2. \E a \in A : \E l \in L : \E g \in NameLists : \E r \in NameLists :
          parts = a \o l \o PermissionSteps(g, "grant") \o PermissionSteps(r, "revoke")
    BY <2>1
  <2> QED  BY <2>2, Zenon
<1>2. a \in Seq(Parts) /\ l \in Seq(Parts)
  <2>1. /\ Part("appearance", "dark") \in Parts /\ Part("appearance", "odd") \in Parts
        /\ Part("location", "home") \in Parts
    BY DEF Parts, Part, Values
  <2>2. \A x \in Parts : <<x>> \in Seq(Parts)
    OBVIOUS
  <2>3. <<>> \in Seq(Parts)
    OBVIOUS
  <2>4. a \in {<<>>, <<Part("appearance", "dark")>>, <<Part("appearance", "odd")>>}
        /\ l \in {<<>>, <<Part("location", "home")>>}
    OBVIOUS
  <2> QED  BY <2>1, <2>2, <2>3, <2>4
<1>3. ASSUME NEW names \in Seq(Names), NEW verb \in {"grant", "revoke"}
      PROVE  PermissionSteps(names, verb) \in Seq(Parts)
  <2>1. \A n \in Names : Part(n, verb) \in Parts
    BY DEF Parts, Part, Values
  <2>2. Len(names) \in Nat /\ DOMAIN names = 1 .. Len(names) /\ \A i \in 1 .. Len(names) : names[i] \in Names
    BY <1>3
  <2>3. PermissionSteps(names, verb) \in [1 .. Len(names) -> Parts]
    BY <2>1, <2>2 DEF PermissionSteps
  <2> HIDE DEF Parts
  <2> QED  BY <2>2, <2>3
<1>4. PermissionSteps(g, "grant") \in Seq(Parts) /\ PermissionSteps(r, "revoke") \in Seq(Parts)
  BY <1>3, NameListsAssumption
<1> HIDE DEF A, L, Parts
<1> QED  BY <1>1, <1>2, <1>4, ConcatProperties

(* The part under way.                                                        *)
LEMMA NextIsPart ==
  ASSUME SetTypeOK, NEW h \in Setter, left[h] # <<>>
  PROVE  NextPart(h) \in Parts
<1> HIDE DEF Parts
<1> QED  BY HeadTailProperties DEF SetTypeOK, NextPart

(* What a part asks for has the part's value, one for each setting.           *)
LEMMA AskedShape ==
  ASSUME NEW z \in Parts, NEW u \in Asked(z)
  PROVE  u = Part(u.what, z.value)
<1>1. z = Part(z.what, z.value)
  BY DEF Parts, Part
<1> QED  BY <1>1 DEF Asked, Part

(* What else a lemma says of Done: the part under way is one place further.   *)
DoneAt(d, i) == {Part(s.what, s.value) : s \in {t \in d : t.at = i}}

LEMMA DoneIs ==
  ASSUME NEW h, NEW i
  PROVE  DoneFor(h, i) = DoneAt(did[h], i) /\ DoneFor(h, i)' = DoneAt(did'[h], i)
  BY DEF DoneFor, DoneAt

LEMMA DoneMore ==
  ASSUME NEW d, NEW x, NEW i
  PROVE  \A z : z \in DoneAt(d \cup {x}, i) <=>
                 z \in DoneAt(d, i) \/ (x.at = i /\ z = Part(x.what, x.value))
  BY DEF DoneAt

(* A setting changed as asked holds from then on, and takes nothing from the  *)
(* others but what it is; it is done for the part under way.                  *)
LEMMA ChangeStep ==
  ASSUME SetIInv, NEW h \in Setter, answer[h] = "asked", left[h] # <<>>,
         NEW setting \in Asked(NextPart(h)), Change(h, setting),
         NEW n, n = Len(applied[h]) + 1
  PROVE  /\ \A g \in Setter : Stays(g)'
         /\ DOMAIN did' = Setter /\ \A g \in Setter \ {h} : did'[g] = did[g]
         /\ \A i \in DOMAIN applied[h] : DoneFor(h, i)' = DoneFor(h, i)
         /\ DoneFor(h, n)' = DoneFor(h, n) \cup {setting}
         /\ \A s \in did'[h] : s.at \in 1 .. n
<1> DEFINE new == [at |-> n, what |-> setting.what, value |-> setting.value]
<1>1. NextPart(h) \in Parts /\ n \in Nat /\ n >= 1 /\ DOMAIN applied[h] = 1 .. n - 1
  <2>1. applied[h] \in Seq(Parts)
    BY DEF SetIInv, SetTypeOK
  <2>2. Len(applied[h]) \in Nat /\ DOMAIN applied[h] = 1 .. Len(applied[h])
    BY <2>1, LenProperties
  <2>3. n \in Nat /\ n >= 1 /\ n - 1 = Len(applied[h])
    BY <2>2
  <2>4. NextPart(h) \in Parts
    BY NextIsPart DEF SetIInv
  <2> QED  BY <2>2, <2>3, <2>4
<1>2. /\ setting = Part(setting.what, setting.value) /\ setting.value = NextPart(h).value
  BY <1>1, AskedShape DEF Part
<1>3. /\ did'[h] = did[h] \cup {new} /\ DOMAIN did' = Setter
      /\ \A g \in Setter \ {h} : did'[g] = did[g]
      /\ device' = {s \in device : s.what # setting.what}
                     \cup {[what |-> setting.what, value |-> setting.value, by |-> h]}
  BY DEF Change, Now, SetIInv, SetTypeOK
<1>4. (\A s \in did[h] : s.at \in 1 .. n) /\ DoneFor(h, n) \subseteq Asked(NextPart(h))
  BY DEF SetIInv, Progress
<1>5. ASSUME NEW i \in DOMAIN applied[h] PROVE DoneFor(h, i)' = DoneFor(h, i)
  <2>1. new.at # i
    BY <1>1
  <2>2. DoneFor(h, i) = DoneAt(did[h], i) /\ DoneFor(h, i)' = DoneAt(did'[h], i)
    BY DoneIs
  <2>3. did'[h] = did[h] \cup {new}
    BY <1>3
  <2> HIDE DEF new
  <2>4. \A z : z \in DoneAt(did[h] \cup {new}, i) <=> z \in DoneAt(did[h], i)
    BY <2>1, DoneMore
  <2>5. DoneAt(did[h] \cup {new}, i) = DoneAt(did[h], i)
    BY <2>4 DEF DoneAt
  <2> QED  BY <2>2, <2>3, <2>5
<1>6. DoneFor(h, n)' = DoneFor(h, n) \cup {setting}
  <2>1. new.at = n /\ Part(new.what, new.value) = setting
    BY <1>2
  <2>2. DoneFor(h, n) = DoneAt(did[h], n) /\ DoneFor(h, n)' = DoneAt(did'[h], n)
    BY DoneIs
  <2>3. did'[h] = did[h] \cup {new}
    BY <1>3
  <2> HIDE DEF new
  <2>4. \A z : z \in DoneAt(did[h] \cup {new}, n) <=> z \in DoneAt(did[h], n) \/ z = setting
    BY <2>1, DoneMore
  <2> QED  BY <2>2, <2>3, <2>4
<1>7. \A s \in did'[h] : s.at \in 1 .. n
  BY <1>1, <1>3, <1>4
<1>8. ASSUME NEW s \in did[h], s.what = setting.what PROVE s.at = n => s.value = setting.value
  <2> SUFFICES ASSUME s.at = n PROVE s.value = setting.value
    OBVIOUS
  <2>1. Part(s.what, s.value) \in DoneFor(h, n)
    BY DEF DoneFor
  <2>2. Part(s.what, s.value) = Part(Part(s.what, s.value).what, NextPart(h).value)
    BY <1>1, <1>4, <2>1, AskedShape
  <2> QED  BY <1>2, <2>2 DEF Part
<1>9. ASSUME NEW g \in Setter PROVE Stays(g)'
  <2> SUFFICES ASSUME NEW s \in did'[g]
               PROVE  InForce(s, g)' \/ \E t \in did'[g] : t.what = s.what /\ t.at > s.at
    BY DEF Stays
  <2>1. CASE s.what = setting.what
    <3>1. PICK d \in device' : d = [what |-> setting.what, value |-> setting.value, by |-> h]
      BY <1>3
    <3>2. CASE g # h
      BY <2>1, <3>1, <3>2 DEF InForce
    <3>3. CASE g = h
      <4>1. CASE s.value = setting.value
        BY <2>1, <3>1, <4>1 DEF InForce
      <4>2. CASE s.value # setting.value
        <5>1. s \in did[h] /\ s.at # n
          BY <1>3, <1>8, <2>1, <3>3, <4>2
        <5>2. new \in did'[h] /\ new.what = s.what /\ new.at > s.at
          BY <1>1, <1>3, <1>4, <2>1, <5>1
        <5> QED  BY <3>3, <5>2
      <4> QED  BY <4>1, <4>2
    <3> QED  BY <3>2, <3>3
  <2>2. CASE s.what # setting.what
    <3>1. s \in did[g]
      BY <1>3, <2>2
    <3>2. CASE InForce(s, g)
      BY <1>3, <2>2, <3>2 DEF InForce
    <3>3. CASE \E t \in did[g] : t.what = s.what /\ t.at > s.at
      <4>1. did[g] \subseteq did'[g]
        BY <1>3
      <4> QED  BY <3>3, <4>1
    <3> QED  BY <3>1, <3>2, <3>3 DEF SetIInv, Stays
  <2> QED  BY <2>1, <2>2
<1> QED  BY <1>3, <1>5, <1>6, <1>7, <1>9

(* A step of one handler leaves the progress of the others as it is.          *)
LEMMA OthersKeep ==
  ASSUME NEW g, Progress(g), UNCHANGED platform,
         UNCHANGED <<request[g], left[g], covers[g], applied[g], answer[g], did[g]>>
  PROVE  Progress(g)'
<1>1. \A x : Asked(x)' = Asked(x)
  BY DEF Asked
<1>2. NextPart(g)' = NextPart(g)
  BY DEF NextPart
<1>3. Of(g)' = Of(g) /\ Asks(g)' = Asks(g) /\ Begun(g)' = Begun(g)
  BY <1>2 DEF Of, Asks, Begun
<1>4. \A i : DoneFor(g, i)' = DoneFor(g, i)
  BY DEF DoneFor
<1> QED  BY <1>1, <1>2, <1>3, <1>4 DEF Progress

(* A part done moves from what is left to what was applied.                   *)
LEMMA PartDoneStep ==
  ASSUME SetTypeOK, NEW h \in Setter, Progress(h), answer[h] = "asked", left[h] # <<>>, PartDone(h),
         NEW n, n = Len(applied[h]) + 1
  PROVE  /\ left' \in [Setter -> Seq(Parts)] /\ applied' \in [Setter -> Seq(Parts)]
         /\ \A g \in Setter \ {h} : left'[g] = left[g] /\ applied'[g] = applied[g]
         /\ request[h] = applied'[h] \o left'[h]
         /\ n \in Nat /\ Len(applied'[h]) = n
         /\ DOMAIN applied'[h] = 1 .. n /\ DOMAIN applied[h] = 1 .. n - 1
         /\ applied'[h][n] = NextPart(h)
         /\ \A i \in DOMAIN applied[h] : applied'[h][i] = applied[h][i]
<1>1. /\ applied[h] \in Seq(Parts) /\ left[h] \in Seq(Parts) /\ request[h] = applied[h] \o left[h]
  BY DEF SetTypeOK, Progress
<1>2. /\ NextPart(h) \in Parts /\ Tail(left[h]) \in Seq(Parts)
      /\ Append(applied[h], NextPart(h)) \in Seq(Parts)
      /\ Len(Append(applied[h], NextPart(h))) = n
      /\ Append(applied[h], NextPart(h))[n] = NextPart(h)
      /\ \A i \in 1 .. Len(applied[h]) : Append(applied[h], NextPart(h))[i] = applied[h][i]
  <2> HIDE DEF Parts
  <2>1. NextPart(h) \in Parts /\ Tail(left[h]) \in Seq(Parts)
    BY <1>1, HeadTailProperties DEF NextPart
  <2> QED  BY <1>1, <2>1, AppendProperties
<1>3. Append(applied[h], NextPart(h)) \o Tail(left[h]) = request[h]
  BY <1>1, MoveHead DEF NextPart
<1>4. left' = [left EXCEPT ![h] = Tail(left[h])]
      /\ applied' = [applied EXCEPT ![h] = Append(applied[h], NextPart(h))]
  BY DEF PartDone
<1>5. Len(applied[h]) \in Nat /\ DOMAIN applied[h] = 1 .. Len(applied[h])
  BY <1>1, LenProperties
<1>6. /\ left'[h] = Tail(left[h]) /\ applied'[h] = Append(applied[h], NextPart(h))
      /\ left' \in [Setter -> Seq(Parts)] /\ applied' \in [Setter -> Seq(Parts)]
      /\ \A g \in Setter \ {h} : left'[g] = left[g] /\ applied'[g] = applied[g]
  BY <1>2, <1>4 DEF SetTypeOK
<1>7. DOMAIN applied'[h] = 1 .. Len(applied'[h])
  BY <1>2, <1>6, LenProperties
<1>8. n \in Nat /\ n - 1 = Len(applied[h])
  BY <1>5
<1> QED  BY <1>2, <1>3, <1>5, <1>6, <1>7, <1>8

(* The part under way was done in full, and is told of as applied.            *)
LEMMA PartToldOf ==
  ASSUME SetIInv, NEW h \in Setter, answer[h] = "asked", left[h] # <<>>, PartDone(h),
         NEW n, n = Len(applied[h]) + 1,
         UNCHANGED <<platform, request, answer>>, covers'[h] = {},
         Asked(NextPart(h)) # {}, Asked(NextPart(h)) = DoneFor(h, n)',
         \A i \in DOMAIN applied[h] : DoneFor(h, i)' = DoneFor(h, i),
         \A s \in did'[h] : s.at \in 1 .. n
  PROVE  Progress(h)'
<1>1. /\ SetTypeOK /\ Progress(h)
  BY DEF SetIInv
<1>2. /\ request[h] = applied'[h] \o left'[h]
      /\ n \in Nat /\ Len(applied'[h]) = n
      /\ DOMAIN applied'[h] = 1 .. n /\ DOMAIN applied[h] = 1 .. n - 1
      /\ applied'[h][n] = NextPart(h)
      /\ \A i \in DOMAIN applied[h] : applied'[h][i] = applied[h][i]
  BY <1>1, PartDoneStep
<1>3. \A x : Asked(x)' = Asked(x)
  BY DEF Asked
<1>4. \A i \in DOMAIN applied'[h] :
        (Asked(applied[h][i]) # {} /\ Asked(applied[h][i]) = DoneFor(h, i))'
  <2> SUFFICES ASSUME NEW i \in 1 .. n
               PROVE  (Asked(applied[h][i]) # {} /\ Asked(applied[h][i]) = DoneFor(h, i))'
    BY <1>2
  <2>3. Asked(applied[h][i])' = Asked(applied'[h][i])
    BY DEF Asked
  <2>1. CASE i = n
    BY <1>2, <2>1, <2>3
  <2>2. CASE i # n
    <3>1. i \in DOMAIN applied[h]
      BY <1>2, <2>2
    <3> QED  BY <1>1, <1>2, <2>3, <3>1 DEF Progress
  <2> QED  BY <2>1, <2>2
<1>5. \A s \in did'[h] : s.at \in 1 .. n + 1 /\ s.at # n + 1
  BY <1>2
<1>6. DoneFor(h, n + 1)' = {}
  BY <1>5, DoneIs DEF DoneAt
<1>7. (DoneFor(h, Len(applied[h]) + 1) \subseteq Asked(NextPart(h)))'
  <2>1. (Len(applied[h]) + 1)' = n + 1
    BY <1>2
  <2>2. DoneFor(h, Len(applied[h]) + 1)' = {Part(s.what, s.value) : s \in {t \in did'[h] : t.at = n + 1}}
    BY <2>1 DEF DoneFor
  <2> QED  BY <1>6, <2>2, DoneIs DEF DoneAt
<1>8. ~Begun(h)' /\ answer'[h] = "asked"
  BY DEF Begun
<1>9. \A s \in did'[h] : s.at \in 1 .. Len(applied'[h]) + 1
  BY <1>2, <1>5
<1> QED  BY <1>2, <1>4, <1>7, <1>8, <1>9 DEF Progress

(* The steps that change a setting and have the part done with it.            *)
LEMMA ChangesPart ==
  ASSUME SetIInv, NEW h \in Setter, SetAppearance(h) \/ SimPermission(h)
  PROVE  SetIInv'
<1>1. /\ answer[h] = "asked" /\ left[h] # <<>> /\ Change(h, NextPart(h)) /\ PartDone(h)
      /\ Asked(NextPart(h)) = {NextPart(h)} /\ ~Begun(h)
      /\ UNCHANGED <<platform, request, covers, answer>>
  BY DEF SetAppearance, SimPermission, Asked, IsPermission, Names, Known, SetIInv, Progress, Asks
<1>2. SetTypeOK /\ Progress(h)
  BY DEF SetIInv
<1> PICK n : n = Len(applied[h]) + 1
  OBVIOUS
<1>3. /\ \A g \in Setter : Stays(g)'
      /\ DOMAIN did' = Setter /\ \A g \in Setter \ {h} : did'[g] = did[g]
      /\ \A i \in DOMAIN applied[h] : DoneFor(h, i)' = DoneFor(h, i)
      /\ DoneFor(h, n)' = DoneFor(h, n) \cup {NextPart(h)}
      /\ \A s \in did'[h] : s.at \in 1 .. n
  BY <1>1, ChangeStep
<1>4. /\ left' \in [Setter -> Seq(Parts)] /\ applied' \in [Setter -> Seq(Parts)]
      /\ \A g \in Setter \ {h} : left'[g] = left[g] /\ applied'[g] = applied[g]
  BY <1>1, <1>2, PartDoneStep
<1>5. SetTypeOK'
  BY <1>1, <1>2, <1>3, <1>4 DEF SetTypeOK
<1>6. ASSUME NEW g \in Setter \ {h} PROVE Progress(g)'
  BY <1>1, <1>3, <1>4, OthersKeep DEF SetIInv
<1>7. DoneFor(h, n) \subseteq {NextPart(h)} /\ covers'[h] = {}
  BY <1>1, <1>2 DEF Progress, Begun
<1>8. Progress(h)'
  BY <1>1, <1>3, <1>7, PartToldOf
<1> QED  BY <1>3, <1>5, <1>6, <1>8 DEF SetIInv

(* A location: the device first, then the recorder.                           *)
LEMMA LocationStep ==
  ASSUME SetIInv, NEW h \in Setter, SetLocation(h) \/ OnLocation(h)
  PROVE  SetIInv'
<1>1. /\ answer[h] = "asked" /\ left[h] # <<>>
      /\ Asked(NextPart(h)) = {NextPart(h)} /\ ~Begun(h)
      /\ UNCHANGED <<platform, request, covers, answer>>
  BY DEF SetLocation, OnLocation, Asked, IsPermission, Names, Known, SetIInv, Progress, Asks
<1>2. SetTypeOK /\ Progress(h)
  BY DEF SetIInv
<1> PICK n : n = Len(applied[h]) + 1
  OBVIOUS
<1>3. /\ \A x : Asked(x)' = Asked(x)
      /\ DoneFor(h, n) \subseteq {NextPart(h)} /\ covers[h] = {}
  BY <1>1, <1>2 DEF Asked, Progress, Begun
<1>4. CASE SetLocation(h)
  <2>1. /\ \A g \in Setter : Stays(g)'
        /\ DOMAIN did' = Setter /\ \A g \in Setter \ {h} : did'[g] = did[g]
        /\ \A i \in DOMAIN applied[h] : DoneFor(h, i)' = DoneFor(h, i)
        /\ DoneFor(h, n)' = DoneFor(h, n) \cup {NextPart(h)}
        /\ \A s \in did'[h] : s.at \in 1 .. n
    BY <1>1, <1>4, ChangeStep DEF SetLocation
  <2>2. UNCHANGED <<left, applied>>
    BY <1>4 DEF SetLocation
  <2>3. SetTypeOK'
    BY <1>1, <1>2, <2>1, <2>2 DEF SetTypeOK
  <2>4. ASSUME NEW g \in Setter \ {h} PROVE Progress(g)'
    BY <1>1, <2>1, <2>2, OthersKeep DEF SetIInv
  <2>5. Progress(h)'
    <3>1. NextPart(h)' = NextPart(h)
      BY <2>2 DEF NextPart
    <3>2. DoneFor(h, Len(applied[h]) + 1)' = DoneFor(h, n)'
      BY <2>2 DEF DoneFor
    <3>3. (DoneFor(h, Len(applied[h]) + 1) \subseteq Asked(NextPart(h)))'
      BY <1>1, <1>3, <2>1, <3>1, <3>2
    <3> QED  BY <1>1, <1>2, <1>3, <2>1, <2>2, <3>3 DEF Progress, Begun
  <2> QED  BY <2>1, <2>3, <2>4, <2>5 DEF SetIInv
<1>5. CASE OnLocation(h)
  <2>1. /\ left' \in [Setter -> Seq(Parts)] /\ applied' \in [Setter -> Seq(Parts)]
        /\ \A g \in Setter \ {h} : left'[g] = left[g] /\ applied'[g] = applied[g]
    BY <1>1, <1>2, <1>5, PartDoneStep DEF OnLocation
  <2>2. Did(h, NextPart(h)) /\ UNCHANGED <<device, did>> /\ PartDone(h)
    BY <1>5 DEF OnLocation
  <2>3. SetTypeOK'
    BY <1>1, <1>2, <2>1, <2>2 DEF SetTypeOK
  <2>4. ASSUME NEW g \in Setter \ {h} PROVE Progress(g)'
    BY <1>1, <2>1, <2>2, OthersKeep DEF SetIInv
  <2>5. \A i : DoneFor(h, i)' = DoneFor(h, i)
    BY <2>2 DEF DoneFor
  <2>6. NextPart(h) \in DoneFor(h, n)
    <3>1. NextPart(h) = Part(NextPart(h).what, NextPart(h).value)
      BY <1>1, <1>2, NextIsPart DEF Part, Parts
    <3>2. PICK s \in did[h] : s = [at |-> n, what |-> NextPart(h).what, value |-> NextPart(h).value]
      BY <2>2 DEF Did, Now
    <3> QED  BY <3>1, <3>2 DEF DoneFor
  <2>7. \A s \in did'[h] : s.at \in 1 .. n
    BY <1>2, <2>2 DEF Progress
  <2>8. Progress(h)'
    <3>1. Asked(NextPart(h)) # {} /\ Asked(NextPart(h)) = DoneFor(h, n)'
      BY <1>1, <1>3, <2>5, <2>6
    <3>2. covers'[h] = {}
      BY <1>1, <1>3
    <3> QED  BY <1>1, <2>2, <2>5, <2>7, <3>1, <3>2, PartToldOf
  <2>9. \A g \in Setter : Stays(g)'
    BY <2>2 DEF SetIInv, Stays, InForce
  <2> QED  BY <2>3, <2>4, <2>8, <2>9 DEF SetIInv
<1> QED  BY <1>4, <1>5

(* A permission that the app declares, one of those it stands for at a time.  *)
LEMMA ApplyDeclaredStep ==
  ASSUME SetIInv, NEW h \in Setter, NEW p \in Declared, ApplyDeclared(h, p)
  PROVE  SetIInv'
<1> DEFINE setting == Part(p, NextPart(h).value)
<1>1. /\ answer[h] = "asked" /\ left[h] # <<>> /\ platform = "android" /\ p \in covers[h] /\ Begun(h)
      /\ IsPermission(NextPart(h)) /\ Asks(h) /\ Change(h, setting)
      /\ covers' = [covers EXCEPT ![h] = covers[h] \ {p}]
      /\ UNCHANGED <<platform, request, answer>>
  BY DEF ApplyDeclared, Asks, Begun, Known, IsPermission, Names
<1>2. SetTypeOK /\ Progress(h)
  BY DEF SetIInv
<1> PICK n : n = Len(applied[h]) + 1
  OBVIOUS
<1>3. /\ covers[h] \subseteq Of(h) /\ Asked(NextPart(h)) = {Part(x, NextPart(h).value) : x \in Of(h)}
      /\ \A x \in Of(h) \ covers[h] : Part(x, NextPart(h).value) \in DoneFor(h, n)
      /\ DoneFor(h, n) \subseteq Asked(NextPart(h))
  BY <1>1, <1>2 DEF Progress, Asked, Of
<1>4. /\ \A g \in Setter : Stays(g)'
      /\ DOMAIN did' = Setter /\ \A g \in Setter \ {h} : did'[g] = did[g]
      /\ \A i \in DOMAIN applied[h] : DoneFor(h, i)' = DoneFor(h, i)
      /\ DoneFor(h, n)' = DoneFor(h, n) \cup {setting}
      /\ \A s \in did'[h] : s.at \in 1 .. n
      /\ setting \in Asked(NextPart(h))
  <2>1. setting \in Asked(NextPart(h))
    BY <1>1, <1>3
  <2> HIDE DEF setting
  <2> QED  BY <1>1, <2>1, ChangeStep
<1>5. \A x : Asked(x)' = Asked(x)
  BY <1>1 DEF Asked
<1>6. /\ covers'[h] = covers[h] \ {p} /\ \A g \in Setter \ {h} : covers'[g] = covers[g]
      /\ covers' \in [Setter -> SUBSET Declared]
  BY <1>1, <1>2 DEF SetTypeOK
<1>7. /\ \A x \in Of(h) \ covers'[h] : Part(x, NextPart(h).value) \in DoneFor(h, n)'
      /\ DoneFor(h, n)' \subseteq Asked(NextPart(h))
  BY <1>3, <1>4, <1>6
<1>8. CASE covers[h] = {p}
  <2>1. /\ left' \in [Setter -> Seq(Parts)] /\ applied' \in [Setter -> Seq(Parts)]
        /\ \A g \in Setter \ {h} : left'[g] = left[g] /\ applied'[g] = applied[g]
    BY <1>1, <1>2, <1>8, PartDoneStep DEF ApplyDeclared
  <2>2. covers'[h] = {}
    BY <1>6, <1>8
  <2>3. Asked(NextPart(h)) # {} /\ Asked(NextPart(h)) = DoneFor(h, n)'
    BY <1>1, <1>3, <1>4, <1>7, <2>2
  <2>4. SetTypeOK'
    BY <1>1, <1>2, <1>4, <1>6, <2>1 DEF SetTypeOK
  <2>5. ASSUME NEW g \in Setter \ {h} PROVE Progress(g)'
    BY <1>1, <1>4, <1>6, <2>1, OthersKeep DEF SetIInv
  <2>6. Progress(h)'
    BY <1>1, <1>4, <1>8, <2>2, <2>3, PartToldOf DEF ApplyDeclared
  <2> QED  BY <1>4, <2>4, <2>5, <2>6 DEF SetIInv
<1>9. CASE covers[h] # {p}
  <2>1. UNCHANGED <<left, applied>>
    BY <1>9 DEF ApplyDeclared
  <2>2. SetTypeOK'
    BY <1>1, <1>2, <1>4, <1>6, <2>1 DEF SetTypeOK
  <2>3. ASSUME NEW g \in Setter \ {h} PROVE Progress(g)'
    BY <1>1, <1>4, <1>6, <2>1, OthersKeep DEF SetIInv
  <2>4. NextPart(h)' = NextPart(h) /\ Of(h)' = Of(h) /\ Asks(h)'
    BY <1>1, <2>1 DEF NextPart, Of, Asks
  <2>5. DoneFor(h, Len(applied[h]) + 1)' = DoneFor(h, n)'
    BY <2>1 DEF DoneFor
  <2>6. covers'[h] \subseteq Of(h)
    BY <1>3, <1>6
  <2>7. Progress(h)'
    BY <1>1, <1>2, <1>4, <1>5, <1>7, <2>1, <2>4, <2>5, <2>6 DEF Progress
  <2> QED  BY <1>4, <2>2, <2>3, <2>7 DEF SetIInv
<1> QED  BY <1>8, <1>9

(* The steps that change no setting.                                          *)
LEMMA PlainStep ==
  ASSUME SetIInv, NEW h \in Setter,
         \/ \E parts \in SettingsRequests : AskSettings(h, parts)
         \/ ToolFails(h) \/ Unknown(h) \/ ReadDeclared(h) \/ AnswersOk(h)
  PROVE  SetIInv'
<1>1. UNCHANGED <<platform, applied, device, did>>
  BY DEF AskSettings, ToolFails, Unknown, ReadDeclared, AnswersOk
<1>2. \A g \in Setter : Stays(g)'
  BY <1>1 DEF SetIInv, Stays, InForce
<1>3. \A x : Asked(x)' = Asked(x)
  BY <1>1 DEF Asked
<1>4. SetTypeOK /\ Progress(h) /\ \A g \in Setter : Progress(g)
  BY DEF SetIInv
<1>8. (\A i : DoneFor(h, i)' = DoneFor(h, i)) /\ DoneFor(h, Len(applied[h]) + 1)' = DoneFor(h, Len(applied[h]) + 1)
  BY <1>1 DEF DoneFor
<1>5. CASE \E parts \in SettingsRequests : AskSettings(h, parts)
  <2> PICK parts \in SettingsRequests : AskSettings(h, parts)
    BY <1>5
  <2>1. parts \in Seq(Parts) /\ <<>> \o parts = parts
    BY RequestsTyped, ConcatEmptySeq
  <2>2. /\ answer[h] = "none" /\ request' = [request EXCEPT ![h] = parts]
        /\ UNCHANGED covers
        /\ \/ answer' = [answer EXCEPT ![h] = "asked"] /\ left' = [left EXCEPT ![h] = parts]
           \/ answer' = [answer EXCEPT ![h] = "refused"] /\ UNCHANGED left
    BY DEF AskSettings
  <2>3. SetTypeOK'
    BY <1>1, <1>4, <2>1, <2>2, ZenonT(30) DEF SetTypeOK
  <2>4. ASSUME NEW g \in Setter \ {h} PROVE Progress(g)'
    <3>1. UNCHANGED <<request[g], left[g], answer[g]>>
      BY <2>2, <1>4 DEF SetTypeOK
    <3> QED  BY <1>1, <1>4, <2>2, <3>1, OthersKeep
  <2>5. applied[h] = <<>> /\ did[h] = {} /\ covers[h] = {}
    BY <1>4, <2>2 DEF Progress
  <2>6. Progress(h)'
    <3>1. /\ request'[h] = parts /\ covers'[h] = {} /\ applied'[h] = <<>> /\ did'[h] = {}
          /\ \/ answer'[h] = "asked" /\ left'[h] = parts
             \/ answer'[h] = "refused"
      BY <1>1, <1>4, <2>2, <2>5 DEF SetTypeOK
    <3>2. applied'[h] \o parts = parts /\ ~Begun(h)'
      BY <2>1, <3>1 DEF Begun
    <3>3. \A s \in did'[h] : FALSE
      BY <3>1
    <3>4. \A i \in DOMAIN applied'[h] : FALSE
      BY <3>1, NothingIn
    <3>5. DoneFor(h, Len(applied[h]) + 1)' = {}
      BY <3>3 DEF DoneFor
    <3> QED  BY <2>1, <3>1, <3>2, <3>3, <3>4, <3>5 DEF Progress
  <2> QED  BY <1>2, <2>3, <2>4, <2>6 DEF SetIInv
<1>6. CASE ToolFails(h) \/ Unknown(h) \/ AnswersOk(h)
  <2>1. /\ answer[h] = "asked" /\ UNCHANGED <<request, left, covers>>
        /\ \/ answer' = [answer EXCEPT ![h] = "failed"]
           \/ left[h] = <<>> /\ answer' = [answer EXCEPT ![h] = "ok"]
    BY <1>6 DEF ToolFails, Unknown, AnswersOk
  <2>2. SetTypeOK'
    BY <1>1, <1>4, <2>1 DEF SetTypeOK
  <2>3. ASSUME NEW g \in Setter \ {h} PROVE Progress(g)'
    BY <1>1, <1>4, <2>1, OthersKeep, ZenonT(30) DEF SetTypeOK
  <2>4. Progress(h)'
    BY <1>1, <1>3, <1>4, <1>8, <2>1 DEF Progress, SetTypeOK
  <2> QED  BY <1>2, <2>2, <2>3, <2>4 DEF SetIInv
<1>7. CASE ReadDeclared(h)
  <2>1. /\ answer[h] = "asked" /\ UNCHANGED <<request, left>> /\ Asks(h) /\ Of(h) \subseteq Declared
        /\ \/ answer' = [answer EXCEPT ![h] = "failed"] /\ UNCHANGED covers
           \/ covers' = [covers EXCEPT ![h] = Of(h)] /\ UNCHANGED answer
    BY <1>7 DEF ReadDeclared, Asks, Of
  <2>2. SetTypeOK'
    BY <1>1, <1>4, <2>1 DEF SetTypeOK
  <2>3. ASSUME NEW g \in Setter \ {h} PROVE Progress(g)'
    BY <1>1, <1>4, <2>1, OthersKeep DEF SetTypeOK
  <2>4. NextPart(h)' = NextPart(h) /\ Of(h)' = Of(h)
    BY <1>1, <2>1 DEF NextPart, Of
  <2>5. answer'[h] = "asked" => Asks(h)' /\ covers'[h] = Of(h)
    BY <1>1, <1>4, <2>1, <2>4 DEF Asks, SetTypeOK
  <2>6. Progress(h)'
    BY <1>1, <1>3, <1>4, <1>8, <2>1, <2>4, <2>5, ZenonT(30) DEF Progress, SetTypeOK, Begun
  <2> QED  BY <1>2, <2>2, <2>3, <2>6 DEF SetIInv
<1> QED  BY <1>5, <1>6, <1>7

LEMMA SetStepInv == SetIInv /\ [SetNext]_setVars => SetIInv'
<1> SUFFICES ASSUME SetIInv, [SetNext]_setVars PROVE SetIInv'
  OBVIOUS
<1>1. CASE UNCHANGED setVars
  <2>1. SetTypeOK'
    BY <1>1 DEF setVars, SetIInv, SetTypeOK
  <2>3. \A h \in Setter : Stays(h)'
    BY <1>1 DEF setVars, SetIInv, Stays, InForce
  <2>2. ASSUME NEW h \in Setter PROVE Progress(h)'
    BY <1>1, OthersKeep DEF setVars, SetIInv
  <2> QED  BY <2>1, <2>2, <2>3 DEF SetIInv
<1>2. CASE SetNext
  BY <1>2, ChangesPart, LocationStep, ApplyDeclaredStep, PlainStep DEF SetNext
<1> QED  BY <1>1, <1>2

(* Any number of handlers that change one device at once, whatever they    *)
(* are asked and whatever fails halfway: what an answer tells of as applied *)
(* was done, in full, what is not told is of the part that failed, an ok    *)
(* tells of everything, and what a part asked for holds unless a later part *)
(* or another handler changed it (applySettings, applyDeclared).            *)
THEOREM SettingsAppliedIsDone == SetSpec => []AppliedIsDone
<1>1. SetIInv => AppliedIsDone
  <2> SUFFICES ASSUME SetIInv, NEW h \in Setter
               PROVE  /\ answer[h] = "ok" => applied[h] = request[h]
                      /\ \A i \in DOMAIN applied[h] : \A u \in Asked(applied[h][i]) :
                           \/ \E s \in device : s.what = u.what /\ (s.value = u.value \/ s.by # h)
                           \/ \E t \in did[h] : t.what = u.what /\ t.at > i
    BY DEF SetIInv, Progress, AppliedIsDone
  <2>1. ASSUME answer[h] = "ok" PROVE applied[h] = request[h]
    <3>1. applied[h] \in Seq(Parts) /\ request[h] = applied[h] \o left[h] /\ left[h] = <<>>
      BY <2>1 DEF SetIInv, SetTypeOK, Progress
    <3> QED  BY <3>1, ConcatEmptySeq
  <2>2. ASSUME NEW i \in DOMAIN applied[h], NEW u \in Asked(applied[h][i])
        PROVE  \/ \E s \in device : s.what = u.what /\ (s.value = u.value \/ s.by # h)
               \/ \E t \in did[h] : t.what = u.what /\ t.at > i
    <3>1. u \in DoneFor(h, i)
      BY <2>2 DEF SetIInv, Progress
    <3>2. PICK s \in did[h] : s.at = i /\ u = Part(s.what, s.value)
      BY <3>1 DEF DoneFor
    <3>3. u.what = s.what /\ u.value = s.value
      BY <3>2 DEF Part
    <3> QED  BY <3>2, <3>3 DEF SetIInv, Stays, InForce
  <2> QED  BY <2>1, <2>2
<1> QED  BY <1>1, SetInitInv, SetStepInv, PTL DEF SetSpec

=================================================================================
