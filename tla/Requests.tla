-------------------------------- MODULE Requests --------------------------------
(***************************************************************************)
(* What the HTTP handlers ask of a device (internal/server/server.go,        *)
(* session.go, auth.go), through the routers that pick its platform          *)
(* (platforms.go): a request is let in, its body is checked, and its calls   *)
(* run one after the other until one fails.  A call runs under the request,  *)
(* which ends with the client, or under deviceOp, which does not.  What a    *)
(* call does on the device is the subject of Launch, Ready and Settings.     *)
(***************************************************************************)
EXTENDS Sequences, SequencesExt

CONSTANTS
  ReqHandler,
  Token,   \* an access token was given to serve
  Nil

VARIABLES
  wanted,     \* what each handler was asked, or Nil
  callsLeft,  \* the calls left to it
  call,      \* the call under way, or Nil
  gone,      \* the handlers whose client has left
  late,      \* those whose deviceOpTimeout has passed
  status,    \* what each answered, 0 before: 502 for whatever a failure is told as
  ran,       \* the calls made: the handler, the call and the platform it went to
  half,      \* those that were killed while they changed the device
  marked      \* launchedApps: the handlers whose launch was marked

reqVars == <<wanted, callsLeft, call, gone, late, status, ran, half, marked>>

(* An emulator that runs, one that does not, a simulator, and a placeholder  *)
(* of the startup guide.                                                     *)
Ids == {"emulator-5554", "avd:Pixel", "simulator", "<udid>"}
ValidID(id) == id # "<udid>"
Platform(id) == IF id \in {"emulator-5554", "avd:Pixel"} THEN "android" ELSE "ios"

Whats == {"boot", "openurl", "install", "launch", "end", "read", "tap", "press", "record"}
AppFile == {Nil, "apk", "app", "ipa"}
Request ==
  {r \in [what : Whats, id : Ids, carries : BOOLEAN, body : BOOLEAN, file : AppFile, fresh : BOOLEAN] :
     /\ r.what \notin {"install", "launch"} => r.file = Nil
     /\ r.what # "launch" => ~r.fresh
     /\ r.what \in {"boot", "end", "read"} => r.body}

ASSUME NilAssumption == Nil \notin Request

ReqInit ==
  /\ wanted = [h \in ReqHandler |-> Nil] /\ callsLeft = [h \in ReqHandler |-> <<>>]
  /\ call = [h \in ReqHandler |-> Nil] /\ status = [h \in ReqHandler |-> 0]
  /\ gone = {} /\ late = {} /\ ran = {} /\ half = {} /\ marked = {}

-----------------------------------------------------------------------------
(* The routers know a running emulator by its serial; the boot router alone  *)
(* is asked about one that is not.                                           *)
IsAndroidSerial(id) == id = "emulator-5554"

RoutedTo(op, id) ==
  IF IsAndroidSerial(id) \/ (op = "boot" /\ id = "avd:Pixel") THEN "android" ELSE "ios"

(* validateAppFile: a file of the other platform is refused.                 *)
FileFits(r) ==
  \/ r.file = "apk" /\ IsAndroidSerial(r.id)
  \/ r.file = "app" /\ ~IsAndroidSerial(r.id)

(* Mutant: every call ends with the request.                                 *)
UnderRequest(op) == op # "none"

(* What runs under the request's own context: reads, waits on the screen,    *)
(* input, and End session; deviceOp for the commands.                        *)
OfRequest(op) == op \in {"read", "frame", "record", "await", "stop", "off"}

(* The commands that change a device, and may be killed halfway.             *)
ChangesDevice(op) == op \in {"boot", "install", "ensure", "reset", "launch", "openurl"}

LaunchCalls(r) ==
  <<"booted", IF r.file = Nil THEN "ensure" ELSE "install", "engine">>
  \o (IF r.fresh THEN <<"reset">> ELSE <<>>) \o <<"launch", "await">>
InstallCalls == <<"booted", "install">>
EndCalls == <<"stop", "off">>
ReadCalls == <<"read">>
FrameCalls(what) == IF what = "tap" THEN <<"frame", "frame">> ELSE <<"frame">>
RecordCalls == <<"record">>

(* The handler a request is routed to.                                       *)
Calls(r) ==
  CASE r.what = "launch" -> LaunchCalls(r)
    [] r.what = "install" -> InstallCalls
    [] r.what = "end" -> EndCalls
    [] r.what = "read" -> ReadCalls
    [] r.what \in {"tap", "press"} -> FrameCalls(r.what)
    [] r.what = "record" -> RecordCalls
    [] OTHER -> <<r.what>>

(* requireToken, rejectBadDeviceIDs, and the checks of the handlers before   *)
(* their first call; a launch checks its file once the device is booted.     *)
Refusal(r) ==
  CASE Token /\ ~r.carries -> 401
    [] ~ValidID(r.id) -> 404
    [] ~r.body -> 400
    [] r.what = "install" /\ ~FileFits(r) -> 400
    [] OTHER -> 0

-----------------------------------------------------------------------------
Arrives(h, r) ==
  /\ wanted[h] = Nil
  /\ wanted' = [wanted EXCEPT ![h] = r]
  /\ status' = [status EXCEPT ![h] = Refusal(r)]
  /\ callsLeft' = [callsLeft EXCEPT ![h] = IF Refusal(r) = 0 THEN Calls(r) ELSE <<>>]
  /\ UNCHANGED <<call, gone, late, ran, half, marked>>

Waiting(h) == wanted[h] # Nil /\ status[h] = 0
Ended(h, op) == h \in (IF OfRequest(op) THEN gone ELSE late)

(* A call whose context has ended does not start; a frame may all the same,  *)
(* a sidecar that runs having no use for the context.                        *)
Refuses(h, op) == Ended(h, op) \/ (op = "install" /\ ~FileFits(wanted[h]))

Calling(h) ==
  /\ Waiting(h) /\ call[h] = Nil /\ callsLeft[h] # <<>>
  /\ LET op == Head(callsLeft[h]) IN
       \/ /\ Refuses(h, op)
          /\ status' = [status EXCEPT ![h] = IF Ended(h, op) THEN 502 ELSE 400]
          /\ UNCHANGED <<call, ran>>
       \/ /\ ~Refuses(h, op) \/ op = "frame"
          /\ call' = [call EXCEPT ![h] = op]
          /\ ran' = ran \cup {<<h, op, RoutedTo(op, wanted[h].id)>>}
          /\ UNCHANGED status
  /\ UNCHANGED <<wanted, callsLeft, gone, late, half, marked>>

Returns(h) ==
  /\ call[h] # Nil
  /\ call' = [call EXCEPT ![h] = Nil] /\ callsLeft' = [callsLeft EXCEPT ![h] = Tail(@)]
  /\ UNCHANGED <<wanted, gone, late, status, ran, half, marked>>

(* The first call that fails is the answer, and what went before it stays.   *)
CallFails(h) ==
  /\ call[h] # Nil
  /\ call' = [call EXCEPT ![h] = Nil] /\ status' = [status EXCEPT ![h] = 502]
  /\ UNCHANGED <<wanted, callsLeft, gone, late, ran, half, marked>>

(* run: the command is killed with its context.                              *)
CallKilled(h) ==
  /\ call[h] # Nil /\ Ended(h, call[h])
  /\ half' = IF ChangesDevice(call[h]) THEN half \cup {h} ELSE half
  /\ call' = [call EXCEPT ![h] = Nil] /\ status' = [status EXCEPT ![h] = 502]
  /\ UNCHANGED <<wanted, callsLeft, gone, late, ran, marked>>

Replies(h) ==
  /\ Waiting(h) /\ call[h] = Nil /\ callsLeft[h] = <<>>
  /\ status' = [status EXCEPT ![h] = 200]
  /\ marked' = IF wanted[h].what = "launch" THEN marked \cup {h} ELSE marked
  /\ UNCHANGED <<wanted, callsLeft, call, gone, late, ran, half>>

ClientLeaves(h) ==
  /\ Waiting(h) /\ h \notin gone /\ gone' = gone \cup {h}
  /\ UNCHANGED <<wanted, callsLeft, call, late, status, ran, half, marked>>

Expires(h) ==
  /\ Waiting(h) /\ h \notin late /\ late' = late \cup {h}
  /\ UNCHANGED <<wanted, callsLeft, call, gone, status, ran, half, marked>>

ReqNext ==
  \E h \in ReqHandler :
    \/ \E r \in Request : Arrives(h, r)
    \/ Calling(h) \/ Returns(h) \/ CallFails(h) \/ CallKilled(h) \/ Replies(h)
    \/ ClientLeaves(h) \/ Expires(h)

ReqSpec == ReqInit /\ [][ReqNext]_reqVars

-----------------------------------------------------------------------------
(* "A client that goes away mid-command must not kill simctl or adb halfway  *)
(* and leave a half-installed app or a half-applied setting" (deviceOp):     *)
(* only the command's own deadline kills it.                                 *)
NoHalfCommand == half \subseteq late

(* No call reaches a device for a request that had no token, an id no device *)
(* has, or a body that does not say what to do; every call reaches the       *)
(* platform the device is of, but those about an emulator that does not run, *)
(* which only the boot can reach; and no build is installed on a device of   *)
(* the other platform.                                                       *)
CallsFit ==
  \A c \in ran : LET r == wanted[c[1]] IN
    /\ (Token => r.carries) /\ ValidID(r.id) /\ r.body
    /\ r.id # "avd:Pixel" \/ c[2] = "boot" => c[3] = Platform(r.id)
    /\ c[2] = "install" => (r.file = "apk") = (c[3] = "android")

(* An app is marked as launched on its device only once it was put there,    *)
(* launched and taking input, the engine having been started before.         *)
MarkedIsLaunched ==
  \A h \in marked : {"engine", "launch", "await"} \subseteq {c[2] : c \in {x \in ran : x[1] = h}}

(* A request does what it asks and may ask, as a whole, and nothing else.    *)
OnlyAsAsked == NoHalfCommand /\ CallsFit /\ MarkedIsLaunched
=============================================================================
