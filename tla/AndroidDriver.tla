--------------------------- MODULE AndroidDriver ----------------------------
(***************************************************************************)
(* The session of an Android engine (runner/androidtree.go): the driver on *)
(* the device is started, up to three times, connected to and given a      *)
(* session, and the soft keyboard is put away until the engine stops.  Any *)
(* of these may fail and leave the device half-way.                        *)
(***************************************************************************)
EXTENDS Naturals

CONSTANTS Retries,   \* driverStartRetries
          MaxUse     \* bound: engines started on the device

VARIABLES
  step,      \* where StartAndroidEngine is; "down" with no engine, "up" with one
  attempt,
  driver,    \* the driver runs on the device
  refused,   \* history: told last to stop the driver, the device failed
  ime,       \* the device's soft-keyboard setting: "null" is unset
  imeBefore, \* AndroidEngine.imeBefore
  found,     \* history: the setting when the engine was started
  uses

driverVars == <<step, attempt, driver, refused, ime, imeBefore, found, uses>>
Setting == {"null", "0", "1"}

DriverInit ==
  /\ step = "down" /\ attempt = 0 /\ driver = FALSE /\ refused = FALSE /\ uses = 0
  /\ ime \in Setting /\ imeBefore = "" /\ found = ime

StartEngine ==
  /\ step = "down" /\ uses < MaxUse /\ uses' = uses + 1
  /\ step' = "start" /\ attempt' = 1 /\ found' = ime
  /\ UNCHANGED <<driver, refused, ime, imeBefore>>

(* bringUpAndroidDriver: the driver is started, which may crash half-way,  *)
(* connected to, and given a session.                                      *)
Starts ==
  /\ step = "start" /\ step' = "connect" /\ driver' = TRUE
  /\ UNCHANGED <<attempt, refused, ime, imeBefore, found, uses>>

(* External: StopDeviceLabDriver, with a driver on the device or not.      *)
StopDriver(on) == refused' \in BOOLEAN /\ driver' = (on /\ refused')

(* retryStart: what is left is reset, a failure to do so being ignored,    *)
(* and it tries again.  Mutant: after the last attempt, with no next one,  *)
(* there is no reset.                                                      *)
RetryLeaves(on) ==
  /\ attempt' = attempt + 1
  /\ IF attempt < Retries THEN step' = "start" /\ StopDriver(on)
                          ELSE step' = "down" /\ driver' = on /\ UNCHANGED refused
Retry(on) ==
  /\ attempt' = attempt + 1 /\ StopDriver(on)
  /\ step' = IF attempt < Retries THEN "start" ELSE "down"

(* Whatever a start leaves of the driver; once it was started, what the    *)
(* cleanup of the bring-up, which may fail too, does.                      *)
BringUpFails ==
  /\ step \in {"start", "connect"} /\ \E on \in BOOLEAN : Retry(on)
  /\ UNCHANGED <<ime, imeBefore, found, uses>>

(* tuneAndroidSession: the setting is read and put away, best-effort.      *)
Tune ==
  /\ step = "connect" /\ step' = "up"
  /\ imeBefore' \in {ime, ""} /\ ime' \in {"0", ime}
  /\ UNCHANGED <<attempt, driver, refused, found, uses>>

(* Stop: restoreIMESetting, which may fail, and then the driver, whose     *)
(* failure is Stop's answer.                                               *)
Restored == IF imeBefore \in {"null", "1"} THEN imeBefore ELSE ime

StopEngine ==
  /\ step = "up" /\ step' = "down"
  /\ StopDriver(driver) /\ ime' \in {Restored, ime} /\ imeBefore' = ""
  /\ found' = IF ime' = Restored /\ imeBefore # "" THEN found ELSE ime'
  /\ UNCHANGED <<attempt, uses>>

DriverNext == StartEngine \/ Starts \/ BringUpFails \/ Tune \/ StopEngine
DriverSpec == DriverInit /\ [][DriverNext]_driverVars

(* With no engine on it the device is as it was found: the soft keyboard   *)
(* is set as it was, unless the device refused to tell its setting or to   *)
(* take it back; and a driver is on it only if the device, told after the  *)
(* last that was done with it to stop it, failed to.  However far a start  *)
(* came, and whichever attempt it was, the driver is told to stop.         *)
LeftAsFound == step = "down" => (driver => refused) /\ ime = found
=============================================================================
