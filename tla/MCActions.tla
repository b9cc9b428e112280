------------------------------ MODULE MCActions ------------------------------
(* What carries out an action and shows what it did, for TLC, a part at  *)
(* a time: handleAct and the sidecars (requests for the same and for     *)
(* different actions, sidecars enough for a replacement to fail too),    *)
(* the Android translator (a page that types, touches and presses in any *)
(* order), the waits around an action, a launch, the Android capture     *)
(* process, and the repacker of its stream (two parameter sets, a        *)
(* keyframe in two slices and a delta in two, in reads that cut them     *)
(* anywhere). The parts share nothing: a behaviour is of one of them.    *)
EXTENDS Acts, AndroidInput, Launch, Settle, AndroidCapture, Repacker, TLC

CONSTANTS r1, r2, key, tap

VARIABLE part

(* A key press is one frame, a tap a down and an up.                       *)
MCActId == {key, tap}
MCFrames == (key :> 1) @@ (tap :> 2)

(* The same action twice, and two different ones.                          *)
MCAsked == {(r1 :> key) @@ (r2 :> key), (r1 :> key) @@ (r2 :> tap)}

(* Start codes of three and of four bytes; 128 opens a slice that continues *)
(* no picture.                                                              *)
Nal(long, bytes) == [long |-> long, bytes |-> bytes]
MCNals == <<Nal(TRUE, <<7>>), Nal(FALSE, <<8>>), Nal(FALSE, <<5, 128>>), Nal(FALSE, <<5, 9>>),
            Nal(TRUE, <<1, 128>>), Nal(FALSE, <<1, 7>>)>>

(* Where the parts stand that a behaviour is not of.                       *)
Elsewhere ==
  /\ part # "acts" => id = r1 :> key @@ r2 :> key
  /\ part # "wait" =>
       wait = "launch" /\ front = CHOOSE s \in [shows : Shown, focus : Focus] : TRUE
  /\ part # "launch" =>
       /\ platform = "ios" /\ ~faulty /\ ~installed /\ build = "none"
       /\ ~file /\ ~reset /\ ~agent
  /\ part # "capture" => forced = "none"

MCInit ==
  /\ part \in {"acts", "android", "wait", "launch", "capture", "repacker"}
  /\ Init /\ TranslatorInit /\ SettleInit /\ LaunchInit /\ CaptureInit /\ RepInit
  /\ Elsewhere

MCNext ==
  \/ part = "acts" /\ Next /\ UNCHANGED <<part, translatorVars, settleVars, launchVars, captureVars, repVars>>
  \/ part = "android" /\ TranslatorNext /\ UNCHANGED <<part, vars, settleVars, launchVars, captureVars, repVars>>
  \/ part = "wait" /\ SettleNext /\ UNCHANGED <<part, vars, translatorVars, launchVars, captureVars, repVars>>
  \/ part = "launch" /\ LaunchNext /\ UNCHANGED <<part, vars, translatorVars, settleVars, captureVars, repVars>>
  \/ part = "capture" /\ CaptureNext /\ UNCHANGED <<part, vars, translatorVars, settleVars, launchVars, repVars>>
  \/ part = "repacker" /\ RepNext /\ UNCHANGED <<part, vars, translatorVars, settleVars, launchVars, captureVars>>

(* The fairness of each part, of those with a step to take where they stand *)
(* only in the behaviours that are of them.                                 *)
MCSpec ==
  /\ MCInit /\ [][MCNext]_<<part, vars, translatorVars, settleVars, launchVars, captureVars, repVars>>
  /\ Fairness /\ TranslatorFairness
  /\ WF_settleVars(part = "wait" /\ Loop) /\ WF_settleVars(part = "wait" /\ Tick)
  /\ WF_captureVars(part = "capture" /\ CaptureLoop) /\ WF_captureVars(part = "capture" /\ Reader)
  /\ WF_repVars(part = "repacker" /\ (Consume \/ Split))
  /\ WF_repVars(part = "repacker" /\ (FirstTick \/ SecondTick))
  /\ WF_repVars(part = "repacker" /\ (SeesEnd \/ Finish))

WaitsEnd == part = "wait" => WaitEnds
=============================================================================
