-------------------------- MODULE SnapBufferProofs --------------------------
(***************************************************************************)
(* The bounds of the jitter buffer, for every frame length, cap, rate,     *)
(* margin and latency.  The inductive invariant is TypeOK /\ BufferWindow  *)
(* /\ LatencyBounded: the level between two reads is below one window (or  *)
(* frame), a read adds at most a frame, and what an iteration that reaches *)
(* the window does not analyse it has trimmed no further than the target.  *)
(***************************************************************************)
EXTENDS SnapBuffer, SequenceTheorems, TLAPS

(* Dropping the n oldest elements of a sequence leaves the others.         *)
LEMMA DropFrontProperties ==
  ASSUME NEW S, NEW s \in Seq(S), NEW n \in 0..Len(s)
  PROVE  /\ DropFront(s, n) \in Seq(S)
         /\ Len(DropFront(s, n)) = Len(s) - n
<1>1. Len(s) \in Nat  OBVIOUS
<1>2. CASE n = Len(s)
  <2>1. DropFront(s, n) = <<>>
    BY <1>1, <1>2, SMT DEF DropFront
  <2>2. QED  BY <1>1, <1>2, <2>1
<1>3. CASE n < Len(s)
  <2>1. /\ n + 1 \in 1..Len(s)
        /\ Len(s) \in n + 1..Len(s)
    BY <1>1, <1>3
  <2>2. QED  BY <1>1, <1>3, <2>1, SMT DEF DropFront
<1>4. QED  BY <1>1, <1>2, <1>3

(* The window's edges are ordered, and the products are naturals.          *)
LEMMA WindowOrdered ==
  ASSUME NEW l \in Nat
  PROVE  /\ TargetDelay(l) \in Nat /\ MinDelay(l) \in Nat /\ MaxDelay(l) \in Nat
         /\ MinDelay(l) * SamplesPerMs \in Nat
         /\ TargetDelay(l) * SamplesPerMs \in Nat
         /\ MaxDelay(l) * SamplesPerMs \in Nat
         /\ MinDelay(l) * SamplesPerMs <= TargetDelay(l) * SamplesPerMs
         /\ TargetDelay(l) * SamplesPerMs <= MaxDelay(l) * SamplesPerMs
<1>1. /\ TargetDelay(l) \in Nat /\ MinDelay(l) \in Nat /\ MaxDelay(l) \in Nat
      /\ MinDelay(l) <= TargetDelay(l)
      /\ TargetDelay(l) <= MaxDelay(l)
  BY DelayAssumption, MarginAssumption, SMT DEF TargetDelay, MinDelay, MaxDelay
<1>2. \A a, b, c \in Nat : a <= b => a * c <= b * c
  BY SMT
<1>3. \A a, b \in Nat : a * b \in Nat
  BY SMT
<1>4. SamplesPerMs \in Nat
  BY RateAssumption
<1>5. QED  BY <1>1, <1>2, <1>3, <1>4

(* A read appends at most a frame, and the result respects the cap.        *)
LEMMA PushProperties ==
  ASSUME NEW s \in Seq(Positions), NEW bytes \in Reads, next \in Positions
  PROVE  /\ Push(s, Received(bytes)) \in Seq(Positions)
         /\ Len(Push(s, Received(bytes))) <= Len(s) + Frame
         /\ Len(Push(s, Received(bytes))) <= Cap
<1> DEFINE new == Received(bytes)
           all == s \o new
<1>1. bytes \in 1..(2 * Frame) /\ bytes \div 2 \in 0..Frame
  BY FrameAssumption, SMT DEF Reads
<1>2. /\ new \in Seq(Positions)
      /\ Len(new) = bytes \div 2
  BY <1>1, FrameAssumption, SMT DEF Received, Positions
<1>3. /\ all \in Seq(Positions)
      /\ Len(all) = Len(s) + Len(new)
      /\ Len(s) \in Nat /\ Len(all) \in Nat
  BY <1>2, SMT
<1> HIDE DEF new, all
<1>4. CASE Len(all) > Cap
  <2>1. Len(all) - Cap \in 0..Len(all)
    BY <1>3, <1>4, CapAssumption, SMT
  <2>2. /\ DropFront(all, Len(all) - Cap) \in Seq(Positions)
        /\ Len(DropFront(all, Len(all) - Cap)) = Cap
    <3>1. Len(DropFront(all, Len(all) - Cap)) = Len(all) - (Len(all) - Cap)
      BY <1>3, <2>1, DropFrontProperties
    <3>2. DropFront(all, Len(all) - Cap) \in Seq(Positions)
      BY <1>3, <2>1, DropFrontProperties
    <3>3. QED  BY <1>3, <3>1, <3>2, CapAssumption, SMT
  <2>3. Cap <= Len(s) + Frame
    BY <1>1, <1>2, <1>3, <1>4, CapAssumption, FrameAssumption, SMT
  <2>4. Push(s, new) = DropFront(all, Len(all) - Cap)
    BY <1>4 DEF Push, all
  <2>5. Cap <= Cap
    BY CapAssumption, SMT
  <2>6. QED  BY <2>2, <2>3, <2>4, <2>5 DEF new
<1>5. CASE ~(Len(all) > Cap)
  <2>1. Push(s, new) = all
    BY <1>5 DEF Push, all
  <2>2. Len(all) <= Len(s) + Frame /\ Len(all) <= Cap
    BY <1>1, <1>2, <1>3, <1>5, CapAssumption, FrameAssumption, SMT
  <2>3. QED  BY <1>3, <2>1, <2>2 DEF new
<1>6. QED  BY <1>4, <1>5 DEF new
(* Correcting drift and latency leaves a level of at least the target but  *)
(* for one sample, and never adds samples.                                 *)
LEMMA AdjustProperties ==
  ASSUME NEW s \in Seq(Positions), NEW drifting \in BOOLEAN, NEW r \in {0, 1},
         latency \in Nat, Len(s) >= MinLevel
  PROVE  LET nudged  == IF drifting THEN NudgeDrift(s) ELSE s
             trimmed == TrimLatency(nudged, Len(s), r)
         IN  /\ trimmed \in Seq(Positions)
             /\ Len(trimmed) <= Len(s)
             /\ Len(trimmed) >= MinLevel - 1
<1> DEFINE nudged  == IF drifting THEN NudgeDrift(s) ELSE s
           trimmed == TrimLatency(nudged, Len(s), r)
<1>0. /\ MinLevel \in Nat /\ Target \in Nat /\ MaxLevel \in Nat
      /\ MinLevel <= Target /\ Target <= MaxLevel
      /\ Len(s) \in Nat
  BY WindowOrdered DEF MinLevel, Target, MaxLevel
<1>1. /\ nudged \in Seq(Positions)
      /\ Len(nudged) \in {Len(s), Len(s) - 1}
      /\ Len(nudged) \in Nat
  <2>1. CASE drifting /\ Len(s) > 2 * Frame
    <3>1. 1 \in 0..Len(s)
      BY <1>0, <2>1, FrameAssumption, SMT
    <3>2. nudged = DropFront(s, 1)
      BY <2>1 DEF NudgeDrift
    <3>3. /\ DropFront(s, 1) \in Seq(Positions)
          /\ Len(DropFront(s, 1)) = Len(s) - 1
      BY <3>1, DropFrontProperties
    <3>4. QED  BY <1>0, <3>1, <3>2, <3>3, SMT
  <2>2. CASE ~(drifting /\ Len(s) > 2 * Frame)
    <3>1. nudged = s
      BY <2>2 DEF NudgeDrift
    <3>2. QED  BY <1>0, <3>1
  <2>3. QED  BY <2>1, <2>2
<1> HIDE DEF nudged
<1>2. CASE Len(s) > MaxLevel
  <2> DEFINE n == Least(Len(s) - Target - r, Len(nudged) \div 4)
  <2>1. /\ n \in Nat
        /\ n <= Len(s) - Target - r
        /\ n <= Len(nudged)
    BY <1>0, <1>1, <1>2, SMT DEF Least
  <2> HIDE DEF n
  <2>2. n \in 0..Len(nudged)
    BY <1>1, <2>1, SMT
  <2>3. /\ DropFront(nudged, n) \in Seq(Positions)
        /\ Len(DropFront(nudged, n)) = Len(nudged) - n
    BY <1>1, <2>2, DropFrontProperties
  <2>4. trimmed = DropFront(nudged, n)
    BY <1>2 DEF TrimLatency, n
  <2>5. /\ Len(nudged) - n <= Len(s)
        /\ Len(nudged) - n >= MinLevel - 1
    BY <1>0, <1>1, <2>1, SMT
  <2>6. QED  BY <2>3, <2>4, <2>5 DEF nudged
<1>3. CASE ~(Len(s) > MaxLevel)
  <2>1. trimmed = nudged
    BY <1>3 DEF TrimLatency
  <2>2. /\ Len(nudged) <= Len(s)
        /\ Len(nudged) >= MinLevel - 1
    BY <1>0, <1>1, SMT
  <2>3. QED  BY <1>1, <2>1, <2>2 DEF nudged
<1>4. QED  BY <1>2, <1>3 DEF nudged

-----------------------------------------------------------------------------
IInv == TypeOK /\ BufferWindow /\ LatencyBounded

(* What a new or a closed connection starts from.                          *)
LEMMA EmptyBuffers ==
  /\ <<>> \in Seq(Positions) /\ Len(<<>>) <= Cap /\ 0 \in Positions
  /\ NoMetrics \in [level : Nat, lead : Positions, tick : {0, 1}]
<1>1. <<>> \in Seq(Positions)
  OBVIOUS
<1>2. 0 \in Positions
  BY DEF Positions
<1>3. Len(<<>>) <= Cap
  BY CapAssumption, FrameAssumption, SMT
<1>4. QED  BY <1>1, <1>2, <1>3 DEF NoMetrics

(* The initial states satisfy the invariant.                               *)
LEMMA InitInvariant == Init => IInv
<1> SUFFICES ASSUME Init PROVE IInv
  OBVIOUS
<1>1. TypeOK
  BY EmptyBuffers DEF Init, TypeOK
<1>2. MinLevel \in Nat
  BY WindowOrdered DEF Init, MinLevel
<1>3. Len(pcm) = 0
  BY DEF Init
<1>4. BufferWindow
  BY <1>2, <1>3, FrameAssumption, SMT DEF BufferWindow, Most
<1>5. LatencyBounded
  BY DEF Init, LatencyBounded, Published, NoMetrics
<1>6. QED  BY <1>1, <1>4, <1>5 DEF IInv

(* Analysing one frame keeps the invariant if the buffer is at most a      *)
(* frame over the bound.                                                   *)
LEMMA AnalyseInvariant ==
  ASSUME TypeOK, NEW s \in Seq(Positions),
         Len(s) >= MinLevel - 1,
         Len(s) < Most(MinLevel, Frame) + Frame,
         Len(s) <= Cap, LatencyBounded,
         Analyse(s), UNCHANGED <<connected, latency>>, next' \in Positions
  PROVE  IInv'
<1>0. /\ latency \in Nat /\ Len(s) \in Nat
  BY DelayAssumption DEF TypeOK
<1>1. /\ MinLevel \in Nat /\ MinLevel' = MinLevel
  BY <1>0, WindowOrdered DEF MinLevel
<1>2. CASE Len(s) >= Frame
  <2>1. /\ metrics' = [level |-> Len(s), lead |-> s[1], tick |-> 1 - metrics.tick]
        /\ pcm' = DropFront(s, Frame)
    BY <1>2 DEF Analyse
  <2>2. Frame \in 0..Len(s) /\ 1 \in 1..Len(s)
    BY <1>0, <1>2, FrameAssumption, SMT
  <2>3. pcm' \in Seq(Positions) /\ Len(pcm') = Len(s) - Frame
    BY <2>1, <2>2, DropFrontProperties
  <2>4. Len(pcm') <= Cap
    BY <1>0, <2>3, CapAssumption, FrameAssumption, SMT
  <2>5. s[1] \in Positions
    BY <2>2, ElementOfSeq
  <2>6. 1 - metrics.tick \in {0, 1}
    BY SMT DEF TypeOK
  <2>7. TypeOK'
    BY <1>0, <2>1, <2>3, <2>4, <2>5, <2>6 DEF TypeOK
  <2>8. BufferWindow'
    BY <1>0, <1>1, <2>3, FrameAssumption, SMT DEF BufferWindow, Most
  <2>9. LatencyBounded'
    BY <1>0, <1>1, <2>1, SMT DEF LatencyBounded, Most
  <2>10. QED  BY <2>7, <2>8, <2>9 DEF IInv
<1>3. CASE ~(Len(s) >= Frame)
  <2>1. pcm' = s /\ UNCHANGED metrics
    BY <1>3 DEF Analyse
  <2>2. TypeOK'
    BY <2>1 DEF TypeOK
  <2>3. BufferWindow'
    BY <1>0, <1>1, <1>3, <2>1, FrameAssumption, SMT DEF BufferWindow, Most
  <2>4. LatencyBounded'
    BY <1>1, <2>1 DEF LatencyBounded, Published
  <2>5. QED  BY <2>2, <2>3, <2>4 DEF IInv
<1>4. QED  BY <1>2, <1>3

(* Every step keeps the invariant.                                         *)
LEMMA NextInvariant == IInv /\ [Next]_vars => IInv'
<1> SUFFICES ASSUME IInv, [Next]_vars PROVE IInv'
  OBVIOUS
<1> USE DEF IInv
<1>0. latency \in Nat /\ MinLevel \in Nat /\ pcm \in Seq(Positions)
  <2>1. latency \in Nat /\ pcm \in Seq(Positions)
    BY DelayAssumption DEF TypeOK
  <2>2. QED  BY <2>1, WindowOrdered DEF MinLevel
<1>1. CASE Connect
  <2>1. TypeOK'
    BY <1>1, EmptyBuffers DEF Connect, TypeOK
  <2>2. MinLevel' \in Nat
    <3>1. latency' \in Nat
      BY <1>1, DelayAssumption DEF Connect
    <3>2. QED  BY <3>1, WindowOrdered DEF MinLevel
  <2>3. Len(pcm') = 0
    BY <1>1 DEF Connect
  <2>4. BufferWindow'
    BY <2>2, <2>3, FrameAssumption, SMT DEF BufferWindow, Most
  <2>5. LatencyBounded'
    BY <1>1 DEF Connect, LatencyBounded, Published, NoMetrics
  <2>6. QED  BY <2>1, <2>4, <2>5
<1>2. CASE Disconnect
  <2>1. TypeOK'
    BY <1>2, EmptyBuffers DEF Disconnect, TypeOK
  <2>2. MinLevel' = MinLevel
    BY <1>2 DEF Disconnect, MinLevel
  <2>3. Len(pcm') = 0
    BY <1>2 DEF Disconnect
  <2>4. BufferWindow'
    BY <1>0, <2>2, <2>3, FrameAssumption, SMT DEF BufferWindow, Most
  <2>5. LatencyBounded'
    BY <1>2 DEF Disconnect, LatencyBounded, Published, NoMetrics
  <2>6. QED  BY <2>1, <2>4, <2>5
<1>3. ASSUME NEW bytes \in Reads, Recv(bytes)
      PROVE  IInv'
  <2> DEFINE filled == Push(pcm, Received(bytes))
  <2>1. /\ filled \in Seq(Positions)
        /\ Len(filled) <= Len(pcm) + Frame
        /\ Len(filled) <= Cap
        /\ Len(filled) \in Nat
    BY <1>0, PushProperties DEF TypeOK
  <2>2. Len(filled) < Most(MinLevel, Frame) + Frame
    BY <1>0, <2>1, FrameAssumption, SMT DEF BufferWindow, Most
  <2>3. (next + bytes) % 4 \in Positions
    BY SMT DEF TypeOK, Positions, Reads
  <2> HIDE DEF filled
  <2>4. CASE RecvFilling(bytes)
    <3>1. /\ pcm' = filled /\ Len(filled) < MinLevel
          /\ next' = (next + bytes) % 4
          /\ UNCHANGED <<connected, latency, metrics>>
      BY <2>4 DEF RecvFilling, filled
    <3>2. TypeOK'
      BY <2>1, <2>3, <3>1 DEF TypeOK
    <3>3. MinLevel' = MinLevel
      BY <3>1 DEF MinLevel
    <3>4. BufferWindow'
      BY <1>0, <2>1, <3>1, <3>3, FrameAssumption, SMT DEF BufferWindow, Most
    <3>5. LatencyBounded'
      BY <3>1, <3>3 DEF LatencyBounded, Published
    <3>6. QED  BY <3>2, <3>4, <3>5
  <2>5. CASE RecvSteady(bytes)
    <3>1. /\ Len(filled) >= MinLevel /\ Analyse(filled)
          /\ next' = (next + bytes) % 4
          /\ UNCHANGED <<connected, latency>>
      BY <2>5 DEF RecvSteady, filled
    <3>2. Len(filled) >= MinLevel - 1
      BY <1>0, <2>1, <3>1, SMT
    <3>3. QED  BY <2>1, <2>2, <2>3, <3>1, <3>2, AnalyseInvariant
  <2>6. ASSUME NEW drifting \in BOOLEAN, NEW r \in {0, 1},
               RecvAdjusting(bytes, drifting, r)
        PROVE  IInv'
    <3> DEFINE nudged  == IF drifting THEN NudgeDrift(filled) ELSE filled
               trimmed == TrimLatency(nudged, Len(filled), r)
    <3>1. /\ Len(filled) >= MinLevel /\ Analyse(trimmed)
          /\ next' = (next + bytes) % 4
          /\ UNCHANGED <<connected, latency>>
      BY <2>6 DEF RecvAdjusting, filled
    <3>2. /\ trimmed \in Seq(Positions)
          /\ Len(trimmed) <= Len(filled)
          /\ Len(trimmed) >= MinLevel - 1
      BY <1>0, <2>1, <3>1, AdjustProperties
    <3> HIDE DEF trimmed
    <3>3. Len(trimmed) < Most(MinLevel, Frame) + Frame
      BY <1>0, <2>1, <2>2, <3>2, FrameAssumption, SMT DEF Most
    <3>4. Len(trimmed) <= Cap
      BY <2>1, <3>2, CapAssumption, SMT
    <3>5. QED  BY <2>3, <3>1, <3>2, <3>3, <3>4, AnalyseInvariant
  <2>7. QED  BY <1>3, <2>4, <2>5, <2>6 DEF Recv
<1>4. CASE UNCHANGED vars
  BY <1>4 DEF vars, TypeOK, BufferWindow, LatencyBounded, Published, MinLevel
<1>5. QED  BY <1>1, <1>2, <1>3, <1>4 DEF Next

(* Types are preserved by the receive loop, whatever the reads bring.      *)
THEOREM TypeCorrect == Spec => []TypeOK
<1>1. IInv => TypeOK
  BY DEF IInv
<1>2. QED  BY <1>1, InitInvariant, NextInvariant, PTL DEF Spec

(* The buffer never creeps up: between reads it is short of the window or  *)
(* of a frame, in every stream (snap_task, snapclient_light.cpp:621-693).  *)
THEOREM BufferStaysInWindow == Spec => []BufferWindow
<1>1. IInv => BufferWindow
  BY DEF IInv
<1>2. QED  BY <1>1, InitInvariant, NextInvariant, PTL DEF Spec

(* Every analysed frame was published at a level between the lower edge    *)
(* and one read above what the buffer holds between reads.                 *)
THEOREM LatencyStaysBounded == Spec => []LatencyBounded
<1>1. IInv => LatencyBounded
  BY DEF IInv
<1>2. QED  BY <1>1, InitInvariant, NextInvariant, PTL DEF Spec

(* The documented window, for every configuration that leaves room for a   *)
(* frame below and inside it: the published level is in the window.        *)
THEOREM DelayStaysInWindow == Spec => []DelayWindow
<1>1. IInv => DelayWindow
  <2> SUFFICES ASSUME IInv, Published, WideWindow
               PROVE  metrics.level >= MinLevel - 1 /\ metrics.level <= MaxLevel
    BY DEF DelayWindow
  <2>1. latency \in Nat /\ metrics.level \in Nat
    BY DelayAssumption DEF IInv, TypeOK
  <2>2. MinLevel \in Nat /\ MaxLevel \in Nat
    BY <2>1, WindowOrdered DEF MinLevel, MaxLevel
  <2>3. MinLevel >= Frame /\ MinLevel + Frame <= MaxLevel + 1
    BY DEF WideWindow
  <2>4. /\ metrics.level >= MinLevel - 1
        /\ metrics.level < Most(MinLevel, Frame) + Frame
    BY DEF IInv, LatencyBounded
  <2>5. QED  BY <2>1, <2>2, <2>3, <2>4, FrameAssumption, SMT DEF Most
<1>2. QED  BY <1>1, InitInvariant, NextInvariant, PTL DEF Spec

-----------------------------------------------------------------------------
(* Correcting drift and latency leaves a frame if the window begins at one:  *)
(* the drift correction acts on two frames only, and trimming stops at the   *)
(* target or at three quarters.                                              *)
LEMMA AdjustLeavesFrame ==
  ASSUME NEW s \in Seq(Positions), NEW drifting \in BOOLEAN, NEW r \in {0, 1},
         latency \in Nat, Len(s) >= MinLevel, MinLevel >= Frame
  PROVE  LET nudged  == IF drifting THEN NudgeDrift(s) ELSE s
             trimmed == TrimLatency(nudged, Len(s), r)
         IN  trimmed \in Seq(Positions) /\ Len(trimmed) >= Frame
<1> DEFINE nudged  == IF drifting THEN NudgeDrift(s) ELSE s
           trimmed == TrimLatency(nudged, Len(s), r)
<1>0. /\ MinLevel \in Nat /\ Target \in Nat /\ MaxLevel \in Nat
      /\ MinLevel <= Target /\ Target <= MaxLevel
      /\ Len(s) \in Nat /\ Frame \in Nat
  BY WindowOrdered, FrameAssumption DEF MinLevel, Target, MaxLevel
<1>1. /\ nudged \in Seq(Positions) /\ Len(nudged) \in Nat
      /\ \/ Len(nudged) = Len(s)
         \/ Len(nudged) = Len(s) - 1 /\ Len(nudged) >= 2 * Frame
  <2>1. CASE drifting /\ Len(s) > 2 * Frame
    <3>1. 1 \in 0..Len(s)
      BY <1>0, <2>1, SMT
    <3>2. nudged = DropFront(s, 1)
      BY <2>1 DEF NudgeDrift
    <3>3. /\ DropFront(s, 1) \in Seq(Positions)
          /\ Len(DropFront(s, 1)) = Len(s) - 1
      BY <3>1, DropFrontProperties
    <3>4. QED  BY <1>0, <2>1, <3>2, <3>3, SMT
  <2>2. CASE ~(drifting /\ Len(s) > 2 * Frame)
    <3>1. nudged = s
      BY <2>2 DEF NudgeDrift
    <3>2. QED  BY <1>0, <3>1
  <2>3. QED  BY <2>1, <2>2
<1> HIDE DEF nudged
<1>2. Len(nudged) >= Frame
  BY <1>0, <1>1, SMT
<1>3. CASE Len(s) > MaxLevel
  <2> DEFINE n == Least(Len(s) - Target - r, Len(nudged) \div 4)
  <2>1. /\ n \in Nat
        /\ n <= Len(s) - Target - r
        /\ n <= Len(nudged) \div 4
    BY <1>0, <1>1, <1>3, SMT DEF Least
  <2>2. Len(nudged) \div 4 \in Nat /\ 4 * (Len(nudged) \div 4) <= Len(nudged)
    BY <1>1, SMT
  <2> HIDE DEF n
  <2>3. n \in 0..Len(nudged)
    BY <1>1, <2>1, <2>2, SMT
  <2>4. /\ DropFront(nudged, n) \in Seq(Positions)
        /\ Len(DropFront(nudged, n)) = Len(nudged) - n
    BY <1>1, <2>3, DropFrontProperties
  <2>5. trimmed = DropFront(nudged, n)
    BY <1>3 DEF TrimLatency, n
  <2>6. Len(nudged) - n >= Frame
    BY <1>0, <1>1, <2>1, <2>2, SMT
  <2>7. QED  BY <2>4, <2>5, <2>6 DEF nudged
<1>4. CASE ~(Len(s) > MaxLevel)
  <2>1. trimmed = nudged
    BY <1>4 DEF TrimLatency
  <2>2. QED  BY <1>1, <1>2, <2>1 DEF nudged
<1>5. QED  BY <1>3, <1>4 DEF nudged

(* A frame that is there is analysed.                                        *)
LEMMA AnalyseTicks ==
  ASSUME TypeOK, NEW s, Analyse(s), Len(s) >= Frame
  PROVE  metrics'.tick # metrics.tick
<1>1. metrics' = [level |-> Len(s), lead |-> s[1], tick |-> 1 - metrics.tick]
  BY DEF Analyse
<1>2. metrics.tick \in {0, 1}
  BY DEF TypeOK
<1>3. QED  BY <1>1, <1>2, SMT

(* A read that does not reach the window is kept whole.                      *)
LEMMA PushKeeps ==
  ASSUME NEW s \in Seq(Positions), NEW bytes \in Reads, next \in Positions,
         Len(Push(s, Received(bytes))) < Cap
  PROVE  Len(Push(s, Received(bytes))) = Len(s) + (bytes \div 2)
<1> DEFINE new == Received(bytes)
           all == s \o new
<1>1. bytes \in 1..(2 * Frame) /\ bytes \div 2 \in 0..Frame
  BY FrameAssumption, SMT DEF Reads
<1>2. new \in Seq(Positions) /\ Len(new) = bytes \div 2
  BY <1>1, FrameAssumption, SMT DEF Received, Positions
<1>3. /\ all \in Seq(Positions)
      /\ Len(all) = Len(s) + Len(new)
      /\ Len(s) \in Nat /\ Len(all) \in Nat
  BY <1>2, SMT
<1> HIDE DEF new, all
<1>4. ~(Len(all) > Cap)
  <2> SUFFICES ASSUME Len(all) > Cap PROVE FALSE
    OBVIOUS
  <2>1. Len(all) - Cap \in 0..Len(all) /\ Len(all) - (Len(all) - Cap) = Cap
    BY <1>3, CapAssumption, SMT
  <2>2. Len(DropFront(all, Len(all) - Cap)) = Cap
    BY <1>3, <2>1, DropFrontProperties
  <2>3. Push(s, new) = DropFront(all, Len(all) - Cap)
    BY DEF Push, all
  <2>4. Len(Push(s, new)) < Cap
    BY DEF new
  <2>5. QED  BY <2>2, <2>3, <2>4, CapAssumption, SMT
<1>5. Push(s, new) = all
  BY <1>4 DEF Push, all
<1>6. Len(Push(s, new)) = Len(s) + (bytes \div 2)
  BY <1>2, <1>3, <1>5
<1>7. QED  BY <1>6 DEF new

(* Each read feeds the analysis: all that it brought is kept, or a frame is  *)
(* analysed.                                                                 *)
Feeds ==
  \A bytes \in Reads :
    Recv(bytes) /\ Frame <= MinLevel /\ MinLevel <= Cap
      => metrics'.tick # metrics.tick \/ Len(pcm') = Len(pcm) + (bytes \div 2)

(* The safe kernel of AnalysisFed: if the window begins at a frame or above  *)
(* and not above the cap, a read is kept whole or a frame is analysed,       *)
(* whatever was evicted, nudged and trimmed.  As the buffer never reaches    *)
(* the window between reads (BufferWindow), a frame is analysed at the       *)
(* latest when the window's lower edge has been received once               *)
(* (snapclient_light.cpp:602-693).                                           *)
THEOREM EachReadFeeds == Spec => [][Feeds]_vars
<1>1. IInv /\ [Next]_vars => [Feeds]_vars
  <2> SUFFICES ASSUME IInv, NEW bytes \in Reads, Recv(bytes),
                      Frame <= MinLevel, MinLevel <= Cap
               PROVE  \/ metrics'.tick # metrics.tick
                      \/ Len(pcm') = Len(pcm) + (bytes \div 2)
    BY DEF Feeds
  <2> DEFINE filled == Push(pcm, Received(bytes))
  <2>1. /\ TypeOK /\ latency \in Nat /\ pcm \in Seq(Positions) /\ next \in Positions
        /\ MinLevel \in Nat /\ Frame \in Nat /\ Cap \in Nat
    <3>1. TypeOK /\ latency \in Nat /\ pcm \in Seq(Positions) /\ next \in Positions
      BY DelayAssumption DEF IInv, TypeOK
    <3>2. MinLevel \in Nat
      BY <3>1, WindowOrdered DEF MinLevel
    <3>3. QED  BY <3>1, <3>2, FrameAssumption, CapAssumption
  <2>2. filled \in Seq(Positions) /\ Len(filled) \in Nat
    BY <2>1, PushProperties
  <2>3. Len(filled) < Cap => Len(filled) = Len(pcm) + (bytes \div 2)
    BY <2>1, PushKeeps
  <2> HIDE DEF filled
  <2>4. CASE RecvFilling(bytes)
    <3>1. pcm' = filled /\ Len(filled) < MinLevel
      BY <2>4 DEF RecvFilling, filled
    <3>2. Len(filled) < Cap
      BY <2>1, <2>2, <3>1, SMT
    <3>3. QED  BY <2>3, <3>1, <3>2
  <2>5. CASE RecvSteady(bytes)
    <3>1. Len(filled) >= MinLevel /\ Analyse(filled)
      BY <2>5 DEF RecvSteady, filled
    <3>2. Len(filled) >= Frame
      BY <2>1, <2>2, <3>1, SMT
    <3>3. QED  BY <2>1, <3>1, <3>2, AnalyseTicks
  <2>6. ASSUME NEW drifting \in BOOLEAN, NEW r \in {0, 1},
               RecvAdjusting(bytes, drifting, r)
        PROVE  metrics'.tick # metrics.tick
    <3> DEFINE nudged  == IF drifting THEN NudgeDrift(filled) ELSE filled
               trimmed == TrimLatency(nudged, Len(filled), r)
    <3>1. Len(filled) >= MinLevel /\ Analyse(trimmed)
      BY <2>6 DEF RecvAdjusting, filled
    <3>2. Len(trimmed) >= Frame
      BY <2>1, <2>2, <3>1, AdjustLeavesFrame
    <3> HIDE DEF trimmed
    <3>3. QED  BY <2>1, <3>1, <3>2, AnalyseTicks
  <2>7. QED  BY <2>4, <2>5, <2>6 DEF Recv
<1>2. QED  BY <1>1, InitInvariant, NextInvariant, PTL DEF Spec
=============================================================================
