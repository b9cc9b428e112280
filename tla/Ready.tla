---------------------------------- MODULE Ready ----------------------------------
(***************************************************************************)
(* serve --ready: the device it resolves (internal/ready/ready.go), what     *)
(* bringReady does to it, and the status it prints                           *)
(* (cmd/devicedeck/serve.go), over the list that the simulators and the      *)
(* emulators answer with (server.MultiLister).                               *)
(***************************************************************************)
EXTENDS Integers, Sequences, SequencesExt

CONSTANTS
  Releases,   \* the iOS releases that may be installed, as <<major, minor>>
  Floor,      \* FloorMajor and FloorMinor
  Nothing,    \* no device
  MaxListed   \* bound: devices a source lists

VARIABLES
  sources,     \* what the simulators and the emulators list: nothing, if they fail
  bringing,    \* "list", "boot", "app", "status", "printed"
  scanned,     \* how many of the devices listed were looked at
  bestBooted,  \* of those, the best of the booted ones, or Nothing
  bestFloor,   \* and the best of the others, or Nothing
  chosen,      \* the device resolved, or Nothing
  launching,   \* what --app names: "none", "file", "id"
  onDevice,    \* the app is installed on the device
  up,          \* the device runs
  told         \* the status: the app is there, a boot or an app step failed

readyVars == <<sources, bringing, scanned, bestBooted, bestFloor, chosen, launching,
               onDevice, up, told>>
scan == <<scanned, bestBooted, bestFloor>>

(* A simulator's release, or an emulator, which has none.                    *)
Android == <<>>
Listed == [os : Releases \cup {Android}, booted : BOOLEAN]

ASSUME ReleasesAssumption ==
  Releases \subseteq Int \X Int /\ Floor \in Int \X Int /\ MaxListed \in Nat
ASSUME NothingAssumption == Nothing \notin Listed

(* An emulator source lists no release, and a simulator source only them.    *)
Sim == {l \in BoundedSeq(Listed, MaxListed) : \A i \in DOMAIN l : l[i].os # Android}
Emu == {l \in BoundedSeq(Listed, MaxListed) : \A i \in DOMAIN l : l[i].os = Android}

ReadyInit ==
  /\ sources \in Sim \X Emu
  /\ bringing = "list" /\ chosen = Nothing
  /\ scanned = 0 /\ bestBooted = Nothing /\ bestFloor = Nothing
  /\ launching \in {"none", "file", "id"} /\ onDevice \in BOOLEAN /\ up = FALSE
  /\ told = [installed |-> FALSE, warned |-> FALSE]

-----------------------------------------------------------------------------
Older(a, b) == a[1] < b[1] \/ (a[1] = b[1] /\ a[2] < b[2])
AtLeastFloor(os) == ~Older(os, Floor)

(* newer: of two releases the later, and any release over none.              *)
Newer(a, b) ==
  IF a.os = Android \/ b.os = Android THEN a.os # Android /\ b.os = Android
  ELSE Older(b.os, a.os)

(* The one to keep, of what the scan holds and what it comes to.             *)
Best(best, d) == IF best = Nothing \/ Newer(d, best) THEN d ELSE best

(* Mutant: the floor is left out.                                            *)
AnyRelease(d) == ~d.booted /\ d.os # Android

Eligible(d) == ~d.booted /\ d.os # Android /\ AtLeastFloor(d.os)

(* MultiLister: a source that fails is skipped.  readyDevices takes a        *)
(* failure of both for an empty list.                                        *)
All == sources[1] \o sources[2]

-----------------------------------------------------------------------------
(* ResolveDevice: one scan of what is listed, then a booted one if any.      *)
ScanListed ==
  /\ bringing = "list" /\ scanned < Len(All) /\ scanned' = scanned + 1
  /\ LET d == All[scanned'] IN
       /\ bestBooted' = IF d.booted THEN Best(bestBooted, d) ELSE bestBooted
       /\ bestFloor' = IF Eligible(d) THEN Best(bestFloor, d) ELSE bestFloor
  /\ UNCHANGED <<sources, bringing, chosen, launching, onDevice, up, told>>

Resolve ==
  /\ bringing = "list" /\ scanned = Len(All)
  /\ chosen' = IF bestBooted # Nothing THEN bestBooted ELSE bestFloor
  /\ up' = (bestBooted # Nothing)
  /\ bringing' = IF chosen' = Nothing THEN "status" ELSE "boot"
  /\ UNCHANGED <<sources, scan, launching, onDevice, told>>

(* A boot that fails is a warning, and the app is tried all the same.        *)
Boot ==
  /\ bringing = "boot" /\ bringing' = "app"
  /\ \/ up' = TRUE /\ UNCHANGED told
     \/ ~up /\ told' = [told EXCEPT !.warned = TRUE] /\ UNCHANGED up
  /\ UNCHANGED <<sources, scan, chosen, launching, onDevice>>

(* readyLaunch with a build: installed, or a warning.                        *)
Install ==
  /\ bringing = "app" /\ launching = "file" /\ bringing' = "status"
  /\ \/ up /\ onDevice' = TRUE /\ told' = [installed |-> TRUE, warned |-> TRUE]
     \/ told' = [told EXCEPT !.warned = TRUE] /\ UNCHANGED onDevice
  /\ UNCHANGED <<sources, scan, chosen, launching, up>>

(* readyLaunch with a bundle id: one the device does not have cannot be      *)
(* launched, and any launch may fail; the app is told as there either way.   *)
Launch ==
  /\ bringing = "app" /\ launching = "id" /\ bringing' = "status"
  /\ \/ up /\ onDevice /\ told' = [told EXCEPT !.installed = TRUE]
     \/ told' = [installed |-> TRUE, warned |-> TRUE]
  /\ UNCHANGED <<sources, scan, chosen, launching, onDevice, up>>

NoApp ==
  /\ bringing = "app" /\ launching = "none" /\ bringing' = "status"
  /\ UNCHANGED <<sources, scan, chosen, launching, onDevice, up, told>>

Tell ==
  /\ bringing = "status" /\ bringing' = "printed"
  /\ UNCHANGED <<sources, scan, chosen, launching, onDevice, up, told>>

ReadyNext == ScanListed \/ Resolve \/ Boot \/ Install \/ Launch \/ NoApp \/ Tell

ReadySpec == ReadyInit /\ [][ReadyNext]_readyVars

-----------------------------------------------------------------------------
(* A device that is up is used, the newest of them; failing that the newest  *)
(* release no older than the floor, whatever the order and the sources that  *)
(* answer; and nothing only where there is neither (ResolveDevice).          *)
Resolves ==
  bringing # "list" =>
    LET some == {All[i] : i \in DOMAIN All}
        running == {d \in some : d.booted}
        fit == IF running # {} THEN running
               ELSE {d \in some : d.os # Android /\ ~Older(d.os, Floor)}
    IN IF fit = {} THEN chosen = Nothing
       ELSE chosen \in fit /\ \A d \in fit : ~Newer(d, chosen)
=============================================================================
