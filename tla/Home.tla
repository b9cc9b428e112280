---------------------------------- MODULE Home ----------------------------------
(***************************************************************************)
(* The driver files under DeviceDeck's home folder (Prepare,                 *)
(* internal/home/home.go): each start of a build writes its own files over   *)
(* those of whichever build was there before, through a temporary file and a *)
(* rename, and removes what it does not ship.  A process may die between any *)
(* two steps.  Who writes a file keeps writing to what it opened, under      *)
(* whatever name a rename gave it.                                           *)
(***************************************************************************)
EXTENDS Integers

CONSTANTS
  Process,   \* one, or the several that share a home at once
  Build,
  Ships,     \* what each build ships: the bytes of each of its files
  Apk        \* the files of the android folder: the others are the agent's

Files == UNION {DOMAIN Ships[b] : b \in Build}
Tmp(f) == <<f, "tmp">>
Paths == Files \X {"file", "tmp"}
File(f) == <<f, "file">>
NoPath == <<>>

(* What a path may hold besides: nothing, or less than was to be written.    *)
NoBytes == 0
Partial == -1

ASSUME ShipsAssumption ==
  /\ Apk \subseteq Files
  /\ \A b \in Build : \A f \in DOMAIN Ships[b] : Ships[b][f] \in Nat \ {NoBytes}

VARIABLES
  bytes,      \* what each path holds
  installer,  \* "off", "files", "opened", "written", "stale", "ready", "failed"
  build,      \* the build each process is of
  folder,     \* the folder it is at: its APKs, then the agent
  files,      \* the files of that folder it has yet to compare and write
  writing,    \* the file under way
  fd,         \* the path of what it writes, or NoPath: removed, or closed
  stale       \* what it found in the folder and does not ship

homeVars == <<bytes, installer, build, folder, files, writing, fd, stale>>

In(at) == IF at = "android" THEN Apk ELSE Files \ Apk
Shipped(b, at) == In(at) \cap DOMAIN Ships[b]

AnyBuild == CHOOSE b \in Build : TRUE
AnyFile == CHOOSE f \in Files : TRUE

HomeInit ==
  /\ bytes = [p \in Paths |-> NoBytes]
  /\ installer = [p \in Process |-> "off"] /\ build = [p \in Process |-> AnyBuild]
  /\ folder = [p \in Process |-> "android"]
  /\ files = [p \in Process |-> {}] /\ stale = [p \in Process |-> {}]
  /\ writing = [p \in Process |-> AnyFile] /\ fd = [p \in Process |-> NoPath]

-----------------------------------------------------------------------------
Starts(p, b) ==
  /\ installer[p] = "off"
  /\ installer' = [installer EXCEPT ![p] = "files"] /\ build' = [build EXCEPT ![p] = b]
  /\ folder' = [folder EXCEPT ![p] = "android"]
  /\ files' = [files EXCEPT ![p] = Shipped(b, "android")]
  /\ UNCHANGED <<bytes, writing, fd, stale>>

Holds(f, b) == bytes[File(f)] = Ships[b][f]

(* writeIfChanged: a file that holds what is shipped is left as it is.       *)
Unchanged(p, f) ==
  /\ installer[p] = "files" /\ f \in files[p] /\ Holds(f, build[p])
  /\ files' = [files EXCEPT ![p] = @ \ {f}]
  /\ UNCHANGED <<bytes, installer, build, folder, writing, fd, stale>>

(* os.WriteFile truncates what is there under that name, or creates it.      *)
OpenAt(p, path) ==
  bytes' = [bytes EXCEPT ![path] = Partial] /\ fd' = [fd EXCEPT ![p] = path]

Opens(p, f) ==
  /\ installer[p] = "files" /\ f \in files[p] /\ ~Holds(f, build[p])
  /\ OpenAt(p, Tmp(f)) /\ writing' = [writing EXCEPT ![p] = f]
  /\ installer' = [installer EXCEPT ![p] = "opened"]
  /\ UNCHANGED <<build, folder, files, stale>>

(* What was removed meanwhile is written too, and is nowhere.                *)
Writes(p) ==
  /\ installer[p] = "opened" /\ installer' = [installer EXCEPT ![p] = "written"]
  /\ bytes' = [q \in Paths |-> IF q = fd[p] THEN Ships[build[p]][writing[p]] ELSE bytes[q]]
  /\ fd' = [fd EXCEPT ![p] = NoPath]
  /\ UNCHANGED <<build, folder, files, writing, stale>>

(* A write that fails leaves what it wrote.                                  *)
WriteFails(p) ==
  /\ installer[p] = "opened" /\ installer' = [installer EXCEPT ![p] = "failed"]
  /\ fd' = [fd EXCEPT ![p] = NoPath]
  /\ UNCHANGED <<bytes, build, folder, files, writing, stale>>

(* Who writes to what is at one path writes to it at the other.              *)
Moved(from, to) ==
  [p \in Process |-> CASE fd[p] = from -> to [] fd[p] = to -> NoPath [] OTHER -> fd[p]]

Renames(p) ==
  /\ installer[p] = "written"
  /\ LET f == writing[p] IN
       /\ bytes[Tmp(f)] # NoBytes
       /\ bytes' = [bytes EXCEPT ![File(f)] = bytes[Tmp(f)], ![Tmp(f)] = NoBytes]
       /\ fd' = Moved(Tmp(f), File(f))
       /\ files' = [files EXCEPT ![p] = @ \ {f}]
  /\ installer' = [installer EXCEPT ![p] = "files"]
  /\ UNCHANGED <<build, folder, writing, stale>>

(* For want of what another process took, or of leave.                       *)
RenameFails(p) ==
  /\ installer[p] = "written" /\ installer' = [installer EXCEPT ![p] = "failed"]
  /\ bytes' = [bytes EXCEPT ![Tmp(writing[p])] = NoBytes]
  /\ fd' = Moved(Tmp(writing[p]), NoPath)
  /\ UNCHANGED <<build, folder, files, writing, stale>>

(* Mutant: what an older build left is kept.                                 *)
FindsNone(p) ==
  /\ installer[p] = "files" /\ files[p] = {} /\ installer' = [installer EXCEPT ![p] = "stale"]
  /\ stale' = [stale EXCEPT ![p] = {}]
  /\ UNCHANGED <<bytes, build, folder, files, writing, fd>>

(* removeStale, which looks at APKs alone, a temporary file not being one;   *)
(* pruneAgent, at everything.                                                *)
FindsStale(p) ==
  /\ installer[p] = "files" /\ files[p] = {} /\ installer' = [installer EXCEPT ![p] = "stale"]
  /\ LET keep == {File(f) : f \in Shipped(build[p], folder[p])}
         seen == {q \in In(folder[p]) \X {"file", "tmp"} : bytes[q] # NoBytes}
         apks == IF folder[p] = "android" THEN {q \in seen : q[2] = "file"} ELSE seen
     IN stale' = [stale EXCEPT ![p] = apks \ keep]
  /\ UNCHANGED <<bytes, build, folder, files, writing, fd>>

Removes(p, q) ==
  /\ installer[p] = "stale" /\ q \in stale[p] /\ bytes[q] # NoBytes
  /\ stale' = [stale EXCEPT ![p] = @ \ {q}]
  /\ bytes' = [bytes EXCEPT ![q] = NoBytes] /\ fd' = Moved(q, NoPath)
  /\ UNCHANGED <<installer, build, folder, files, writing>>

RemoveFails(p, q) ==
  /\ installer[p] = "stale" /\ q \in stale[p] /\ installer' = [installer EXCEPT ![p] = "failed"]
  /\ UNCHANGED <<bytes, build, folder, files, writing, fd, stale>>

AgentFolder(p) ==
  /\ installer[p] = "stale" /\ stale[p] = {} /\ folder[p] = "android"
  /\ folder' = [folder EXCEPT ![p] = "ios"]
  /\ files' = [files EXCEPT ![p] = Shipped(build[p], "ios")]
  /\ installer' = [installer EXCEPT ![p] = "files"]
  /\ UNCHANGED <<bytes, build, writing, fd, stale>>

Prepared(p) ==
  /\ installer[p] = "stale" /\ stale[p] = {} /\ folder[p] = "ios"
  /\ installer' = [installer EXCEPT ![p] = "ready"]
  /\ UNCHANGED <<bytes, build, folder, files, writing, fd, stale>>

(* Ended or killed, wherever it is.                                          *)
Dies(p) ==
  /\ installer[p] # "off" /\ installer' = [installer EXCEPT ![p] = "off"]
  /\ fd' = [fd EXCEPT ![p] = NoPath] /\ stale' = [stale EXCEPT ![p] = {}]
  /\ files' = [files EXCEPT ![p] = {}] /\ folder' = [folder EXCEPT ![p] = "android"]
  /\ build' = [build EXCEPT ![p] = AnyBuild] /\ writing' = [writing EXCEPT ![p] = AnyFile]
  /\ UNCHANGED bytes

HomeNext ==
  \E p \in Process :
    \/ \E b \in Build : Starts(p, b)
    \/ \E f \in Files : Unchanged(p, f) \/ Opens(p, f)
    \/ Writes(p) \/ WriteFails(p) \/ Renames(p) \/ RenameFails(p)
    \/ FindsStale(p)
    \/ \E q \in Paths : Removes(p, q) \/ RemoveFails(p, q)
    \/ AgentFolder(p) \/ Prepared(p) \/ Dies(p)

HomeSpec == HomeInit /\ [][HomeNext]_homeVars

-----------------------------------------------------------------------------
(* Whatever builds were started before, and wherever they died, the folders  *)
(* a build has prepared hold what it ships and no other driver: no APK of an *)
(* older build is left for the runner's glob to pick (installDrivers), and   *)
(* the agent's folder holds its files alone (installAgent).                  *)
HoldsTheBuild ==
  \A p \in Process : installer[p] = "ready" =>
    /\ \A f \in DOMAIN Ships[build[p]] : Holds(f, build[p])
    /\ \A f \in Files \ DOMAIN Ships[build[p]] : bytes[File(f)] = NoBytes
    /\ \A f \in Files \ Apk : bytes[Tmp(f)] = NoBytes

(* "A crash mid-write never leaves a truncated driver for adb or simctl to   *)
(* install" (writeIfChanged).                                                *)
NeverTruncated == \A f \in Files : bytes[File(f)] # Partial

(* Whoever installs a driver, now or after a crash, finds a whole one of the *)
(* build that prepared it.                                                   *)
DriversWhole == HoldsTheBuild /\ NeverTruncated
=============================================================================
