----------------------------- MODULE SnapBuffer -----------------------------
(***************************************************************************)
(* The jitter buffer of the Snapcast client: the receive loop of snap_task *)
(* (components/snapclient_light/snapclient_light.cpp), one connection      *)
(* after another.                                                          *)
(*                                                                         *)
(* The server sends interleaved stereo PCM: byte 0 and 1 of every 4 bytes  *)
(* are a left sample, byte 2 and 3 a right one.  A buffered sample is      *)
(* represented by the position, modulo 4, its first byte had in the        *)
(* stream: 0 for a left sample, 2 for a right one, 1 or 3 for a pair of    *)
(* bytes that straddles two samples.  The amplitudes are abstracted away.  *)
(*                                                                         *)
(* Levels are counted in samples, as pcm_buffer.size() is; the code        *)
(* compares milliseconds, which are samples divided by SamplesPerMs.       *)
(* Elapsed times and the drift estimate only decide whether a correction   *)
(* is applied, so they are nondeterministic choices.                       *)
(***************************************************************************)
EXTENDS Integers, Sequences

CONSTANTS
  Frame,         (* samples analysed at a time (frame_samples)             *)
  Cap,           (* most samples ever buffered (max_buffer_samples)        *)
  SamplesPerMs,  (* interleaved samples per millisecond (96 in the code)   *)
  Margin,        (* width of the target window, in ms (12 in the code)     *)
  DefaultDelay,  (* delay for latency_ms = 0 (60 in the code)              *)
  Latencies,     (* the values of latency_ms the user configures           *)
  ReadUnit       (* a read brings a multiple of this many bytes: 1 if TCP  *)
                 (* may split a sample, 4 if only whole stereo pairs come  *)

ASSUME FrameAssumption   == Frame \in Nat /\ Frame > 0
ASSUME CapAssumption     == Cap \in Nat /\ Cap >= Frame
ASSUME RateAssumption    == SamplesPerMs \in Nat /\ SamplesPerMs > 0
ASSUME MarginAssumption  == Margin \in Nat
ASSUME DelayAssumption   == DefaultDelay \in Nat /\ Latencies \subseteq Nat
ASSUME UnitAssumption    == ReadUnit \in 1..(2 * Frame)

VARIABLES
  connected,  (* the task is in its receive loop                           *)
  latency,    (* latency_ms when the loop was entered                      *)
  pcm,        (* pcm_buffer                                                *)
  next,       (* stream position, modulo 4, of the next byte received      *)
  metrics     (* the analysis published last on this connection            *)

vars == <<connected, latency, pcm, next, metrics>>

Positions == 0..3
NoMetrics == [level |-> 0, lead |-> 0, tick |-> 0]

-----------------------------------------------------------------------------
(* The target window of a connection (target_delay_ms, min_ and max_),     *)
(* in samples.                                                             *)

TargetDelay(l) == IF l > 0 THEN l ELSE DefaultDelay
MinDelay(l) ==
  LET t == TargetDelay(l) IN IF t > Margin THEN t - Margin ELSE t
MaxDelay(l) == TargetDelay(l) + Margin

Target   == TargetDelay(latency) * SamplesPerMs
MinLevel == MinDelay(latency) * SamplesPerMs
MaxLevel == MaxDelay(latency) * SamplesPerMs

Least(a, b) == IF a <= b THEN a ELSE b

(* The sequence without its n oldest elements (n times pop_front).         *)
DropFront(s, n) == SubSeq(s, n + 1, Len(s))

(* The samples a read of the given number of bytes yields: a last odd byte *)
(* is in no sample.                                                        *)
Received(bytes) ==
  [i \in 1..(bytes \div 2) |-> (next + 2 * (i - 1)) % 4]

(* Mutation: a cap tested before the read, not before each sample.         *)
PushUnevicted(s, new) ==
  IF Len(s) >= Cap THEN DropFront(s \o new, Len(new)) ELSE s \o new

(* Appending sample by sample, each evicting the oldest one at the cap.    *)
Push(s, new) ==
  LET all == s \o new
  IN  IF Len(all) > Cap THEN DropFront(all, Len(all) - Cap) ELSE all

(* Clock drift correction: the server is fast, drop one sample.            *)
NudgeDrift(s) == IF Len(s) > 2 * Frame THEN DropFront(s, 1) ELSE s

(* Latency control.  level is the level before the drift correction; the   *)
(* number of excess samples goes through float milliseconds, which can     *)
(* round it down by one.  The padding the code has below the window cannot *)
(* be reached: such a level has already left the iteration.                *)
TrimLatency(s, level, rounding) ==
  IF level > MaxLevel
  THEN DropFront(s, Least(level - Target - rounding, Len(s) \div 4))
  ELSE s

-----------------------------------------------------------------------------
Init ==
  /\ connected = FALSE
  /\ latency = 0
  /\ pcm = <<>>
  /\ next = 0
  /\ metrics = NoMetrics

(* A connection is set up and the receive loop entered with empty buffers. *)
Connect ==
  /\ ~connected
  /\ connected' = TRUE
  /\ latency' \in Latencies
  /\ pcm' = <<>>
  /\ next' = 0
  /\ metrics' = NoMetrics

(* recv returns 0 or an error, or the client is stopped.                   *)
Disconnect ==
  /\ connected
  /\ connected' = FALSE
  /\ pcm' = <<>>
  /\ next' = 0
  /\ metrics' = NoMetrics
  /\ UNCHANGED latency

(* Mutations: half a frame consumed, as for overlapping windows; a level   *)
(* taken after the frame has been removed.                                 *)
AnalyseOverlapping(s) ==
  IF Len(s) >= Frame
  THEN /\ metrics' = [level |-> Len(s), lead |-> s[1],
                      tick |-> 1 - metrics.tick]
       /\ pcm' = DropFront(s, Frame \div 2)
  ELSE /\ pcm' = s
       /\ UNCHANGED metrics

AnalyseThenMeasure(s) ==
  IF Len(s) >= Frame
  THEN /\ metrics' = [level |-> Len(s) - Frame, lead |-> s[1],
                      tick |-> 1 - metrics.tick]
       /\ pcm' = DropFront(s, Frame)
  ELSE /\ pcm' = s
       /\ UNCHANGED metrics

(* The last part of an iteration: analyse one frame if there is one.       *)
Analyse(s) ==
  IF Len(s) >= Frame
  THEN /\ metrics' = [level |-> Len(s), lead |-> s[1],
                      tick |-> 1 - metrics.tick]
       /\ pcm' = DropFront(s, Frame)
  ELSE /\ pcm' = s
       /\ UNCHANGED metrics

(* Mutation: a buffer local to the iteration.                              *)
RecvFillingAfresh(bytes) ==
  LET filled == Push(pcm, Received(bytes))
  IN  /\ connected
      /\ Len(filled) < MinLevel
      /\ pcm' = <<>>
      /\ next' = (next + bytes) % 4
      /\ UNCHANGED <<connected, latency, metrics>>

(* An iteration that leaves early, below the window.                       *)
RecvFilling(bytes) ==
  LET filled == Push(pcm, Received(bytes))
  IN  /\ connected
      /\ Len(filled) < MinLevel
      /\ pcm' = filled
      /\ next' = (next + bytes) % 4
      /\ UNCHANGED <<connected, latency, metrics>>

(* An iteration less than 10 ms after the last correction.                 *)
RecvSteady(bytes) ==
  LET filled == Push(pcm, Received(bytes))
  IN  /\ connected
      /\ Len(filled) >= MinLevel
      /\ Analyse(filled)
      /\ next' = (next + bytes) % 4
      /\ UNCHANGED <<connected, latency>>

(* An iteration that also corrects drift and latency.                      *)
RecvAdjusting(bytes, drifting, rounding) ==
  LET filled == Push(pcm, Received(bytes))
      nudged == IF drifting THEN NudgeDrift(filled) ELSE filled
  IN  /\ connected
      /\ Len(filled) >= MinLevel
      /\ Analyse(TrimLatency(nudged, Len(filled), rounding))
      /\ next' = (next + bytes) % 4
      /\ UNCHANGED <<connected, latency>>

(* A read fills at most the frame-sized read buffer.                       *)
Reads == {bytes \in 1..(2 * Frame) : bytes % ReadUnit = 0}

Recv(bytes) ==
  \/ RecvFilling(bytes)
  \/ RecvSteady(bytes)
  \/ \E drifting \in BOOLEAN, rounding \in {0, 1} :
       RecvAdjusting(bytes, drifting, rounding)

Next ==
  \/ Connect
  \/ Disconnect
  \/ \E bytes \in Reads : Recv(bytes)

(* The server keeps streaming whole samples while the connection lives.    *)
Fairness ==
  /\ WF_vars(Connect)
  /\ WF_vars(\E bytes \in Reads \ {1} : Recv(bytes))

Spec == Init /\ [][Next]_vars
LiveSpec == Spec /\ Fairness
-----------------------------------------------------------------------------
TypeOK ==
  /\ connected \in BOOLEAN
  /\ latency \in Latencies \cup {0}
  /\ pcm \in Seq(Positions)
  /\ Len(pcm) <= Cap
  /\ next \in Positions
  /\ metrics \in [level : Nat, lead : Positions, tick : {0, 1}]

Published == metrics.level > 0

Most(a, b) == IF a >= b THEN a ELSE b

(* Between two reads the buffer is short of the window or of one frame: an *)
(* iteration that reaches the window always consumes at least what one     *)
(* read can bring, so the buffer cannot creep up to its one second cap     *)
(* however long the stream runs (snapclient_light.cpp:616-693).            *)
BufferWindow == Len(pcm) < Most(MinLevel, Frame)

(* What the LED task is told about the latency of the analysed frame       *)
(* (metrics.timestamp_us is this level ahead of the clock) stays within a  *)
(* sample of the window's lower edge, and within one read of the most the  *)
(* buffer holds between reads (snapclient_light.cpp:637-681).              *)
LatencyBounded ==
  Published => /\ metrics.level >= MinLevel - 1
               /\ metrics.level < Most(MinLevel, Frame) + Frame

(* The window [min, max] around the configured delay that                  *)
(* docs/AUDIO_LATENCY_ANALYSIS.md:31 promises for every analysed frame     *)
(* (give or take the sample the drift correction drops) is kept if its     *)
(* lower edge is at least a frame and its width another: a level above the *)
(* window, where trimming would be needed, is never reached.               *)
WideWindow == MinLevel >= Frame /\ MinLevel + Frame <= MaxLevel + 1

DelayWindow ==
  Published /\ WideWindow => /\ metrics.level >= MinLevel - 1
                             /\ metrics.level <= MaxLevel

(* While the stream lasts, frames keep being analysed, if the window       *)
(* begins below the buffer's cap: the buffer never settles in a state      *)
(* where reads only fill or evict (snapclient_light.cpp:621-693).  A       *)
(* latency_ms above 1012 puts the window above the cap, and nothing is     *)
(* ever analysed.                                                          *)
Streaming == connected /\ latency \in {l \in Latencies : MinDelay(l) * SamplesPerMs <= Cap}

AnalysisFed ==
  <>[]Streaming => /\ []<>(metrics.tick = 1)
                   /\ []<>(metrics.tick = 0)
=============================================================================
