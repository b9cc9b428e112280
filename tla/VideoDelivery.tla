---------------------------- MODULE VideoDelivery ----------------------------
(***************************************************************************)
(* How one capture's frames reach its viewers: Session.dispatch, deliver,  *)
(* Subscribe and unsubscribe of internal/video/video.go, and the loop of   *)
(* handleVideoWS that takes frames out of a viewer's channel.              *)
(*                                                                         *)
(* A viewer has a small buffer.  One that falls behind is not waited for:  *)
(* it loses frames and resumes at a keyframe.  Each dispatch runs under    *)
(* Session.mu and is one step; viewers take frames at their own pace.      *)
(* What starts and ends a capture is in VideoSessions.                     *)
(***************************************************************************)
EXTENDS Naturals, Sequences

CONSTANTS Viewer,
          Buffer,      \* subscriberBuffer (16)
          MaxSample,   \* bound: samples encoded
          MaxConfig    \* bound: encoder sessions, one decoder description each

ASSUME BufferAssumption == Buffer \in Nat /\ Buffer >= 2
ASSUME StreamAssumption == MaxSample \in Nat /\ MaxConfig \in Nat

VARIABLES
  encoder,     \* what the capture process can send next
  encoded,     \* samples sent: the n-th sample refers to the one before it
  description, \* Session.description: the number of the last one, 0 if none
  still,       \* Session.still is cached
  joined,      \* Session.subscribers
  queue,       \* queue[v]: v's channel
  needKey,     \* needKey[v]: subscriber.needKey
  shown,       \* shown[v]: the last sample v took out of its channel, 0 if none
  conf         \* conf[v]: the last description v took out, 0 if none

capture == <<encoder, encoded, description, still>>
deliveryVars == <<encoder, encoded, description, still, joined, queue, needKey, shown, conf>>

(* A message carries the number of its sample and of its description.      *)
Sample == {"key", "delta"}
Message == [type : {"description", "still"} \cup Sample, n : 0..MaxSample,
            config : 0..MaxConfig]
DescriptionMsg(k) == [type |-> "description", n |-> 0, config |-> k]
StillMsg == [type |-> "still", n |-> 0, config |-> 0]

DeliveryInit ==
  /\ encoder = "new" /\ encoded = 0 /\ description = 0 /\ still = FALSE
  /\ joined = {}
  /\ queue = [v \in Viewer |-> <<>>]
  /\ needKey = [v \in Viewer |-> TRUE]
  /\ shown = [v \in Viewer |-> 0]
  /\ conf = [v \in Viewer |-> 0]

-----------------------------------------------------------------------------
(* deliver: a viewer waiting for a keyframe gets no delta, and one whose   *)
(* buffer is full loses the frame, whatever it is.                         *)
Skipped(v, m) == m.type = "delta" /\ needKey[v]
Room(v) == Len(queue[v]) < Buffer

QueueAfter(v, m) ==
  IF v \in joined /\ ~Skipped(v, m) /\ Room(v) THEN Append(queue[v], m) ELSE queue[v]

(* Mutant: a viewer that lost a delta carries on with the next one.        *)
NeedKeyIgnoresLoss(v, m) == needKey[v] /\ m.type # "key"

NeedKeyAfter(v, m) ==
  IF v \notin joined \/ Skipped(v, m) THEN needKey[v]
  ELSE IF Room(v) THEN needKey[v] /\ m.type # "key"
  ELSE TRUE

(* dispatch: one frame to every viewer.                                    *)
Dispatch(m) ==
  /\ queue' = [v \in Viewer |-> QueueAfter(v, m)]
  /\ needKey' = [v \in Viewer |-> NeedKeyAfter(v, m)]
  /\ UNCHANGED <<joined, shown, conf>>

(* The capture process: an encoder session sends its description once,     *)
(* right before its first keyframe; the screen changing size replaces the  *)
(* encoder session.                                                        *)
Description ==
  /\ encoder = "new" /\ description < MaxConfig
  /\ description' = description + 1
  /\ encoder' = "described"
  /\ Dispatch(DescriptionMsg(description + 1))
  /\ UNCHANGED <<encoded, still>>

Keyframe ==
  /\ encoder \in {"described", "streaming"} /\ encoded < MaxSample
  /\ encoded' = encoded + 1
  /\ encoder' = "streaming"
  /\ Dispatch([type |-> "key", n |-> encoded + 1, config |-> description])
  /\ UNCHANGED <<description, still>>

Delta ==
  /\ encoder = "streaming" /\ encoded < MaxSample
  /\ encoded' = encoded + 1
  /\ Dispatch([type |-> "delta", n |-> encoded + 1, config |-> description])
  /\ UNCHANGED <<encoder, description, still>>

Still ==
  /\ still' = TRUE
  /\ Dispatch(StillMsg)
  /\ UNCHANGED <<encoder, encoded, description>>

Resize ==
  /\ encoder = "streaming"
  /\ encoder' = "new"
  /\ UNCHANGED <<encoded, description, still, joined, queue, needKey, shown, conf>>

-----------------------------------------------------------------------------
(* Subscribe registers the viewer and preloads what is cached, under the   *)
(* lock; a viewer that comes back has a new channel.  The keyframe it then *)
(* asks for is one the capture process may send at any time anyway.        *)
Join(v) ==
  /\ v \notin joined
  /\ joined' = joined \cup {v}
  /\ queue' = [queue EXCEPT ![v] =
                 (IF description # 0 THEN <<DescriptionMsg(description)>> ELSE <<>>)
                 \o (IF still THEN <<StillMsg>> ELSE <<>>)]
  /\ needKey' = [needKey EXCEPT ![v] = TRUE]
  /\ shown' = [shown EXCEPT ![v] = 0]
  /\ conf' = [conf EXCEPT ![v] = 0]
  /\ UNCHANGED capture

(* unsubscribe, as the viewer's handler returns.                           *)
Leave(v) ==
  /\ v \in joined
  /\ joined' = joined \ {v}
  /\ queue' = [queue EXCEPT ![v] = <<>>]
  /\ UNCHANGED <<capture, needKey, shown, conf>>

(* The viewer's handler takes a frame and writes it to the viewer.         *)
Take(v) ==
  /\ v \in joined /\ queue[v] # <<>>
  /\ queue' = [queue EXCEPT ![v] = Tail(@)]
  /\ shown' = [shown EXCEPT ![v] = IF Head(queue[v]).type \in Sample THEN Head(queue[v]).n ELSE @]
  /\ conf' = [conf EXCEPT ![v] = IF Head(queue[v]).type = "description"
                                 THEN Head(queue[v]).config ELSE @]
  /\ UNCHANGED <<capture, joined, needKey>>

DeliveryNext ==
  \/ Description \/ Keyframe \/ Delta \/ Still \/ Resize
  \/ \E v \in Viewer : Join(v) \/ Leave(v) \/ Take(v)

DeliverySpec == DeliveryInit /\ [][DeliveryNext]_deliveryVars

-----------------------------------------------------------------------------
(* The ranges of the variables: no viewer's channel is ever filled past    *)
(* its capacity, where a send made under Session.mu would block for ever.     *)
DeliveryTypeOK ==
  /\ encoder \in {"new", "described", "streaming"}
  /\ encoded \in 0..MaxSample
  /\ description \in 0..MaxConfig
  /\ still \in BOOLEAN
  /\ joined \in SUBSET Viewer
  /\ queue \in [Viewer -> Seq(Message)]
  /\ \A v \in Viewer : Len(queue[v]) <= Buffer
  /\ needKey \in [Viewer -> BOOLEAN]
  /\ shown \in [Viewer -> 0..MaxSample]
  /\ conf \in [Viewer -> 0..MaxConfig]

(* The samples of channel q are in order and later than the last sample s  *)
(* taken out of it, and every delta comes after the sample it refers to.   *)
IsSample(m) == m.type \in Sample
Chained(q, s) ==
  \A i \in 1..Len(q) : IsSample(q[i]) =>
    /\ q[i].n > s
    /\ \A j \in 1..(i - 1) : IsSample(q[j]) => q[j].n < q[i].n
    /\ q[i].type = "delta" =>
         \/ s # 0 /\ s = q[i].n - 1
         \/ \E j \in 1..(i - 1) : IsSample(q[j]) /\ q[j].n = q[i].n - 1

(* No tearing: whatever was lost, a viewer is only ever sent a delta right *)
(* after the very sample it refers to, and samples come in order (deliver, *)
(* drop-to-keyframe).                                                      *)
NoTearing == \A v \in joined : Chained(queue[v], shown[v])

(* A viewer that is not waiting for a keyframe has missed nothing: the     *)
(* last sample of the stream was shown to it or is in its channel.         *)
InHand(q, s, n) ==
  \/ n # 0 /\ s = n
  \/ \E j \in 1..Len(q) : IsSample(q[j]) /\ q[j].n = n
BehindOrCurrent ==
  \A v \in joined : ~needKey[v] => InHand(queue[v], shown[v], encoded)

(* What deliver's comment says: descriptions always go through, so every   *)
(* sample a viewer is sent comes after the description it was encoded      *)
(* under.  The code does not keep it: a description finds no room like any *)
(* other frame, is not repeated, and the next keyframe goes through.       *)
Described ==
  \A v \in joined : \A i \in 1..Len(queue[v]) : IsSample(queue[v][i]) =>
    LET before == {j \in 1..(i - 1) : queue[v][j].type = "description"}
    IN IF before = {} THEN conf[v] = queue[v][i].config
       ELSE \E j \in before : queue[v][j].config = queue[v][i].config
=============================================================================
