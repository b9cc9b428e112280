------------------------------ MODULE Repacker ------------------------------
(***************************************************************************)
(* RepackAnnexB (internal/video/annexb.go): the H.264 byte stream of       *)
(* screenrecord, read in chunks that end anywhere, becomes a description   *)
(* and one message per access unit.  A unit is known to be complete when   *)
(* the next one begins, when the stream has been quiet for a while, or     *)
(* when it ends.                                                           *)
(***************************************************************************)
EXTENDS Naturals, SequencesExt

CONSTANTS Nals,      \* the NALs of the stream, each after a start code of three bytes or of four
          Sizes,     \* how many bytes one read brings
          MaxChunk   \* bound: chunks that wait in the channel

(* A NAL's type, in its first byte, and whether a slice begins an access   *)
(* unit, the first bit of its second.                                      *)
SPS == 7
PPS == 8
IDR == 5
NonIDR == 1
First == 128
NalType(nal) == nal[1] % 32
IsSlice(nal) == NalType(nal) \in {IDR, NonIDR}
Opens(nal) == Len(nal) > 1 /\ nal[2] >= First

StartCode == <<0, 0, 1>>
IsStart(b, i) == i + 2 <= Len(b) /\ SubSeq(b, i, i + 2) = StartCode

(* What H.264 assures of a NAL: nothing in it looks like a start code, and *)
(* no zero ends it.  The parameter sets come before the first slice.       *)
ASSUME NalsAssumption ==
  /\ Nals \in Seq([long : BOOLEAN, bytes : Seq(0..255)])
  /\ \A n \in DOMAIN Nals : LET b == Nals[n].bytes IN
       b # <<>> /\ Last(b) # 0 /\ ~\E i \in DOMAIN b : IsStart(b, i)
  /\ \A n \in DOMAIN Nals : IsSlice(Nals[n].bytes) =>
       {SPS, PPS} \subseteq {NalType(Nals[k].bytes) : k \in 1..(n - 1)}
ASSUME SizesAssumption == Sizes \subseteq Nat

-----------------------------------------------------------------------------
(* What the stream is and what it stands for, NAL by NAL.                  *)
Code(nal) == IF nal.long THEN <<0>> \o StartCode ELSE StartCode
Bytes[n \in 0..Len(Nals)] ==
  IF n = 0 THEN <<>> ELSE Bytes[n - 1] \o (Code(Nals[n]) \o Nals[n].bytes)
Stream == Bytes[Len(Nals)]

(* The access units of the first n NALs: their slices, in order.           *)
Units[n \in 0..Len(Nals)] ==
  IF n = 0 THEN <<>>
  ELSE LET nal == Nals[n].bytes
           us == Units[n - 1]
       IN IF ~IsSlice(nal) THEN us
          ELSE IF us = <<>> \/ Opens(nal) THEN Append(us, <<nal>>)
          ELSE Append(Front(us), Append(Last(us), nal))

(* No unit is cut after NAL n: the next slice, if there is one, opens one. *)
UnitEnds ==
  {n \in 0..Len(Nals) :
     \A k \in (n + 1)..Len(Nals) :
       IsSlice(Nals[k].bytes) /\ (\A j \in (n + 1)..(k - 1) : ~IsSlice(Nals[j].bytes))
         => Opens(Nals[k].bytes)}

(* The parameter set of type t that the first n NALs leave.                *)
Param(t, n) == LET sets == {k \in 1..n : NalType(Nals[k].bytes) = t}
               IN IF sets = {} THEN <<>> ELSE Nals[Max(sets)].bytes

(* The messages for units: what decodes them, then a frame for each.       *)
FrameOf(slices) ==
  [kind |-> IF \E s \in ToSet(slices) : NalType(s) = IDR THEN "keyframe" ELSE "delta", slices |-> slices]
FirstSlice == Min({n \in DOMAIN Nals : IsSlice(Nals[n].bytes)})
Avcc ==
  [kind |-> "description", slices |-> <<Param(SPS, FirstSlice), Param(PPS, FirstSlice)>>]
FramesOf(us) == [k \in DOMAIN us |-> FrameOf(us[k])]
Messages(us) ==
  IF us = <<>> THEN <<>> ELSE <<Avcc>> \o FramesOf(us)
Whole == Messages(Units[Len(Nals)])

(* Where the stream may pause after a unit, and how much is due by then.   *)
Pauses == {[at |-> Len(Bytes[n]), due |-> Len(Messages(Units[n]))] :
             n \in {k \in UnitEnds : Units[k] # <<>>}}

-----------------------------------------------------------------------------
VARIABLES
  got,     \* bytes of the stream read so far
  chunks,  \* the channel from the reader: where in the stream each chunk ends
  taken,   \* where the last one ends that the loop took
  over,    \* the reader met the end: "no", "sent", "seen" by the loop,
           \* or "done" with
  buf,
  still,   \* one idle tick went by
  rp       \* the repacker: the parameter sets seen, the slices of the pending
           \* unit, and the messages written

repVars == <<got, chunks, taken, over, buf, still, rp>>

RepInit ==
  /\ got = 0 /\ chunks = <<>> /\ taken = 0 /\ over = "no" /\ buf = <<>> /\ still = FALSE
  /\ rp = [param |-> [t \in {SPS, PPS} |-> <<>>], au |-> <<>>, out |-> <<>>]

(* handleNAL, maybeDescription and flush, on the repacker st.              *)
Describe(st) ==
  IF st.out # <<>> THEN st
  ELSE [st EXCEPT !.out = <<[kind |-> "description", slices |-> <<st.param[SPS], st.param[PPS]>>]>>]
FlushUnit(st) == IF st.au = <<>> THEN st
                 ELSE [st EXCEPT !.au = <<>>, !.out = Append(@, FrameOf(st.au))]
HandleNAL(st, nal) ==
  IF NalType(nal) \in {SPS, PPS} THEN [st EXCEPT !.param[NalType(nal)] = nal]
  ELSE IF ~IsSlice(nal) THEN st
  ELSE LET f == IF Opens(nal) THEN FlushUnit(Describe(st)) ELSE Describe(st)
       IN [f EXCEPT !.au = Append(@, nal)]

(* Where start codes are in b; trimStartCode and splitNAL: the bytes       *)
(* between the first two make a complete NAL.                              *)
Starts(b) == {i \in DOMAIN b : IsStart(b, i)}
HasNAL(b) == \E i, j \in Starts(b) : i < j
Second(b) == Min(Starts(b) \ {Min(Starts(b))})
FirstNAL(b) ==
  SubSeq(b, Min(Starts(b)) + 3, IF b[Second(b) - 1] = 0 THEN Second(b) - 2 ELSE Second(b) - 1)

(* consume drops what comes before a start code; with none, it keeps what  *)
(* may be the beginning of one.                                            *)
Resync(b) == IF Starts(b) # {} THEN SubSeq(b, Min(Starts(b)), Len(b))
             ELSE SubSeq(b, IF Len(b) > 3 THEN Len(b) - 2 ELSE 1, Len(b))

(* flushPending: the tail is taken for a whole NAL.                        *)
HasTail(b) == Len(b) > 3 /\ IsStart(b, 1)
Pending(st, b) ==
  FlushUnit(IF HasTail(b) THEN HandleNAL(st, SubSeq(b, 4, Len(b))) ELSE st)

-----------------------------------------------------------------------------
(* readChunks.                                                             *)
Reads(n) ==
  /\ over = "no" /\ got + n <= Len(Stream) /\ Len(chunks) < MaxChunk
  /\ got' = got + n /\ chunks' = Append(chunks, got + n)
  /\ UNCHANGED <<taken, over, buf, still, rp>>

ReadsEnd ==
  /\ over = "no" /\ got = Len(Stream) /\ over' = "sent"
  /\ UNCHANGED <<got, chunks, taken, buf, still, rp>>

(* RepackAnnexB's loop: a chunk is taken, its NALs are handled one by one. *)
Consume ==
  /\ over # "done" /\ ~HasNAL(buf) /\ chunks # <<>>
  /\ taken' = Head(chunks) /\ chunks' = Tail(chunks)
  /\ buf' = Resync(buf \o SubSeq(Stream, taken + 1, taken'))
  /\ still' = FALSE
  /\ UNCHANGED <<got, over, rp>>

Split ==
  /\ HasNAL(buf)
  /\ rp' = HandleNAL(rp, FirstNAL(buf))
  /\ buf' = SubSeq(buf, Second(buf), Len(buf))
  /\ UNCHANGED <<got, chunks, taken, over, still>>

(* An idle tick: the first is grace, a second in a row flushes.  What the  *)
(* device assures: screenrecord pauses between whole units only, so that   *)
(* no second tick finds the loop within one.  Mutant: grace for ever.      *)
FirstTick ==
  /\ ~still /\ over = "no" /\ ~HasNAL(buf) /\ still' = TRUE
  /\ UNCHANGED <<got, chunks, taken, over, buf, rp>>
SecondTickWaits == still /\ over = "no" /\ UNCHANGED repVars
SecondTick ==
  /\ still /\ over = "no" /\ ~HasNAL(buf)
  /\ taken \in {Len(Bytes[n]) : n \in UnitEnds}
  /\ rp' = Pending(rp, buf) /\ buf' = (IF HasTail(buf) THEN <<>> ELSE buf)
  /\ UNCHANGED <<got, chunks, taken, over, still>>

(* The end may be seen before the chunks that came first: those are        *)
(* drained, then the tail is flushed.  Mutant: they are not drained.       *)
SeesEnd ==
  /\ over = "sent" /\ ~HasNAL(buf) /\ over' = "seen"
  /\ UNCHANGED <<got, chunks, taken, buf, still, rp>>
FinishNow ==
  /\ over = "seen" /\ ~HasNAL(buf) /\ over' = "done"
  /\ rp' = Pending(rp, buf) /\ buf' = <<>>
  /\ UNCHANGED <<got, chunks, taken, still>>
Finish ==
  /\ over = "seen" /\ chunks = <<>> /\ ~HasNAL(buf) /\ over' = "done"
  /\ rp' = Pending(rp, buf) /\ buf' = <<>>
  /\ UNCHANGED <<got, chunks, taken, still>>

RepNext == \/ \E n \in Sizes : Reads(n)
           \/ ReadsEnd \/ Consume \/ Split \/ FirstTick \/ SecondTick \/ SeesEnd \/ Finish
RepFairness ==
  /\ WF_repVars(Consume \/ Split) /\ WF_repVars(FirstTick \/ SecondTick)
  /\ WF_repVars(SeesEnd \/ Finish)
RepSpec == RepInit /\ [][RepNext]_repVars /\ RepFairness

-----------------------------------------------------------------------------
(* Whatever the chunks, and wherever the stream pauses, each access unit   *)
(* is written once, whole, in order and rightly typed, and the end of the  *)
(* stream loses none.                                                      *)
UnitsWhole ==
  /\ IsPrefix(rp.out, Whole)
  /\ over = "done" => rp.out = Whole

(* The last unit before a pause is not held back until the screen changes  *)
(* again: it is written, or more bytes come.                               *)
NotHeldBack ==
  \A p \in Pauses : got = p.at ~> Len(rp.out) >= p.due \/ got > p.at
=============================================================================
