-------------------------- MODULE LedEngineProofs ---------------------------
(* What the LED engine owns and where its frames lie, for every number of    *)
(* channels, depth of queue and set of configurations.  The invariant says   *)
(* who holds the mutex in which step, what of the configuration has been     *)
(* opened so far, and that a segment is as long as a strip it was opened for.*)
EXTENDS LedEngine, SequenceTheorems, TLAPS

Strips == [pin : STRING, leds : Nat]
Segments == [pin : STRING, ch : Channels, size : Nat]
Filled == [ch : Channels, pin : STRING, to : Nat, size : Nat]

Types ==
    /\ memory \in Configs /\ cfg \in Configs
    /\ view \in Seq(Strips)
    /\ lock \in {"config", "render", NULL}
    /\ request \in {"none", "decoded", "opening"}
    /\ at \in Nat \ {0}
    /\ initialized \in BOOLEAN /\ enabled \in BOOLEAN /\ good \in BOOLEAN
    /\ segments \in Seq(Segments)
    /\ open \subseteq Channels
    /\ sending \in [Channels -> Seq(Nat)]
    /\ frame \in Filled \union {NULL}

Locks ==
    /\ request = "opening" <=> lock = "config"
    /\ frame # NULL <=> lock = "render"

(* The outputs of the strips gone through, unless one failed.                *)
Opened ==
    request = "opening" =>
      /\ at <= Len(cfg.strips) + 1
      /\ good /\ cfg.rmt
           => Pins(segments) = {cfg.strips[i].pin : i \in 1..(at - 1)}

Channel ==
    /\ open = ChannelsOf(segments)
    /\ \A i, j \in DOMAIN segments :
         i # j => /\ segments[i].ch # segments[j].ch
                  /\ segments[i].pin # segments[j].pin
    /\ sync \subseteq open
    /\ \A ch \in Channels : sending[ch] # <<>> => ch \in open

OnItsWay ==
    frame # NULL => /\ frame.pin \in Pins(segments)
                    /\ frame.ch = segments[Of(frame.pin)].ch

Complete ==
    initialized /\ lock # "config" /\ cfg.rmt
      => Pins(cfg.strips) = Pins(segments)

Sized ==
    \A i \in DOMAIN segments :
      \E k \in DOMAIN cfg.strips : /\ cfg.strips[k].pin = segments[i].pin
                                   /\ cfg.strips[k].leds <= segments[i].size

Inv == Types /\ Locks /\ Opened /\ Channel /\ OnItsWay /\ Complete /\ Sized
         /\ InBuffer
-----------------------------------------------------------------------------
(* A configuration's strips.                                                 *)
LEMMA StripsOf ==
    ASSUME NEW c \in Configs
    PROVE  /\ c.strips \in Seq(Strips) /\ c.rmt \in BOOLEAN /\ c.parallel \in Nat
           /\ Len(c.strips) \in Nat /\ DOMAIN c.strips = 1..Len(c.strips)
BY ConfigsAssumption DEF Strips

(* An output that has a segment has it where Of says.                        *)
LEMMA OfSegment ==
    ASSUME segments \in Seq(Segments), NEW pin, pin \in Pins(segments)
    PROVE  Of(pin) \in DOMAIN segments /\ segments[Of(pin)].pin = pin
<1>1. \E i \in DOMAIN segments : segments[i].pin = pin
  BY DEF Pins, Range
<1>2. QED  BY <1>1 DEF Of

LEMMA SegmentTypes ==
    ASSUME segments \in Seq(Segments), NEW i \in DOMAIN segments
    PROVE  /\ segments[i] \in Segments
           /\ segments[i].ch \in Channels /\ segments[i].size \in Nat
           /\ segments[i].pin \in Pins(segments)
           /\ segments[i].ch \in ChannelsOf(segments)
<1>1. segments[i] \in Segments
  BY ElementOfSeq
<1>2. segments[i] \in Range(segments)
  BY DEF Range
<1>3. QED  BY <1>1, <1>2 DEF Segments, Pins, ChannelsOf

(* The length a buffer is given is neither less than before nor than the     *)
(* strip's.                                                                  *)
LEMMA FittedBounds ==
    ASSUME NEW size \in Nat, NEW s \in Strips, NEW p
    PROVE  /\ Fitted(size, s, p) \in Nat
           /\ size <= Fitted(size, s, p) /\ s.leds <= Fitted(size, s, p)
           /\ Fitted(size, s, p) # size => size < s.leds
BY DEF Fitted, Strips
(* What Fill and Open make of the segments.                                  *)
LEMMA FilledFrame ==
    ASSUME Inv, NEW s \in Range(view), NEW q \in Parts(s), Fill(s, q)
    PROVE  /\ s \in Strips /\ q.start \in Nat /\ q.length \in Nat
           /\ frame' \in Filled
           /\ frame'.pin = s.pin /\ frame'.size = s.leds
           /\ frame'.to <= s.leds
           /\ Of(s.pin) \in DOMAIN segments
           /\ segments[Of(s.pin)].pin = s.pin
           /\ frame'.ch = segments[Of(s.pin)].ch
<1>1. segments \in Seq(Segments) /\ view \in Seq(Strips)
  BY DEF Inv, Types
<1>2. s \in Strips
  BY <1>1, ElementOfSeq DEF Range
<1>3. s.leds \in Nat /\ s.pin \in STRING
  BY <1>2 DEF Strips
<1>4. q.start \in Nat /\ q.length \in Nat
  BY <1>3 DEF Parts
<1>5. s.pin \in Pins(segments) /\ q.start + q.length <= s.leds
  BY DEF Fill, Accepted, Fits
<1>6. Of(s.pin) \in DOMAIN segments /\ segments[Of(s.pin)].pin = s.pin
  BY <1>1, <1>5, OfSegment
<1>7. segments[Of(s.pin)].ch \in Channels
  BY <1>1, <1>6, SegmentTypes
<1>8. frame' = [ch |-> segments[Of(s.pin)].ch, pin |-> s.pin,
                to |-> q.start + q.length, size |-> s.leds]
  BY DEF Fill
<1>9. q.start + q.length \in Nat
  BY <1>4
<1>10. frame' \in Filled
  BY <1>3, <1>7, <1>8, <1>9 DEF Filled
<1>11. QED  BY <1>2, <1>4, <1>5, <1>6, <1>8, <1>10
(* Segments with the same outputs and channels.                              *)
LEMMA SameKeys ==
    ASSUME NEW t, DOMAIN t = DOMAIN segments,
           \A i \in DOMAIN segments : /\ t[i].pin = segments[i].pin
                                      /\ t[i].ch = segments[i].ch
    PROVE  Pins(t) = Pins(segments) /\ ChannelsOf(t) = ChannelsOf(segments)
BY DEF Pins, ChannelsOf, Range

LEMMA FilledSegments ==
    ASSUME Inv, NEW s \in Range(view), NEW q \in Parts(s), Fill(s, q)
    PROVE  /\ segments' \in Seq(Segments) /\ DOMAIN segments' = DOMAIN segments
           /\ \A i \in DOMAIN segments :
                /\ segments'[i].pin = segments[i].pin
                /\ segments'[i].ch = segments[i].ch
                /\ segments[i].size <= segments'[i].size
                /\ segments[i].size # segments'[i].size
                     => segments[i].pin = s.pin /\ segments[i].size < s.leds
           /\ s.leds <= segments'[Of(s.pin)].size
           /\ Pins(segments') = Pins(segments)
           /\ ChannelsOf(segments') = ChannelsOf(segments)
<1> DEFINE k == Of(s.pin)
           fit == Fitted(segments[k].size, s, q)
<1>1. segments \in Seq(Segments)
  BY DEF Inv, Types
<1>2. s \in Strips /\ k \in DOMAIN segments /\ segments[k].pin = s.pin
  BY FilledFrame
<1>3. segments[k] \in Segments
  BY <1>1, <1>2, ElementOfSeq
<1>4. /\ fit \in Nat /\ segments[k].size <= fit /\ s.leds <= fit
      /\ fit # segments[k].size => segments[k].size < s.leds
  <2>1. segments[k].size \in Nat
    BY <1>3 DEF Segments
  <2>2. QED  BY <1>2, <2>1, FittedBounds
<1>5. segments' = [segments EXCEPT ![k] = [segments[k] EXCEPT !.size = fit]]
  BY DEF Fill
<1> HIDE DEF k, fit
<1>6. [segments[k] EXCEPT !.size = fit] \in Segments
  BY <1>3, <1>4 DEF Segments
<1>7. segments' \in Seq(Segments) /\ DOMAIN segments' = DOMAIN segments
  BY <1>1, <1>2, <1>5, <1>6
<1>8. /\ segments'[k].pin = segments[k].pin /\ segments'[k].ch = segments[k].ch
      /\ segments'[k].size = fit
  BY <1>1, <1>2, <1>3, <1>5 DEF Segments
<1>9. \A i \in DOMAIN segments : i # k => segments'[i] = segments[i]
  BY <1>1, <1>5
<1>10. \A i \in DOMAIN segments :
         /\ segments'[i].pin = segments[i].pin
         /\ segments'[i].ch = segments[i].ch
         /\ segments[i].size <= segments'[i].size
         /\ segments[i].size # segments'[i].size
              => segments[i].pin = s.pin /\ segments[i].size < s.leds
  <2> TAKE i \in DOMAIN segments
  <2>1. segments[i].size \in Nat
    BY <1>1, SegmentTypes
  <2>2. CASE i = k
    BY <1>2, <1>4, <1>8, <2>2
  <2>3. CASE i # k
    BY <1>9, <2>1, <2>3
  <2>4. QED  BY <2>2, <2>3
<1>11. Pins(segments') = Pins(segments) /\ ChannelsOf(segments') = ChannelsOf(segments)
  BY <1>7, <1>10, SameKeys
<1>12. s.leds <= segments'[k].size
  BY <1>4, <1>8
<1>13. QED  BY <1>7, <1>10, <1>11, <1>12 DEF k

LEMMA OpenedSegments ==
    ASSUME Inv, Open
    PROVE  \E ch \in Channels \ open :
             LET new == [pin |-> Strip.pin, ch |-> ch, size |-> Strip.leds] IN
             /\ open' = open \union {ch} /\ new \in Segments
             /\ segments' = Append(segments, new) /\ segments' \in Seq(Segments)
             /\ Len(segments') = Len(segments) + 1
             /\ segments'[Len(segments) + 1] = new
             /\ \A i \in DOMAIN segments : segments'[i] = segments[i]
             /\ DOMAIN segments' = DOMAIN segments \union {Len(segments) + 1}
             /\ Len(segments) + 1 \notin DOMAIN segments
             /\ Pins(segments') = Pins(segments) \union {Strip.pin}
             /\ ChannelsOf(segments') = ChannelsOf(segments) \union {ch}
<1>1. PICK ch \in Channels \ open :
        /\ open' = open \union {ch}
        /\ segments' = Append(segments, [pin |-> Strip.pin, ch |-> ch,
                                         size |-> Strip.leds])
  BY DEF Open
<1> DEFINE new == [pin |-> Strip.pin, ch |-> ch, size |-> Strip.leds]
<1>2. segments \in Seq(Segments) /\ cfg \in Configs
  BY DEF Inv, Types
<1>3. Strip \in Strips
  <2>1. cfg.strips \in Seq(Strips) /\ at \in DOMAIN cfg.strips
    BY <1>2, StripsOf DEF Open, Opening
  <2>2. QED  BY <2>1, ElementOfSeq DEF Strip
<1>4. new \in Segments
  BY <1>3 DEF Strips, Segments
<1>5. segments' = Append(segments, new)
  BY <1>1
<1>6. new.pin = Strip.pin /\ new.ch = ch
  OBVIOUS
<1> HIDE DEF new
<1>7. /\ segments' \in Seq(Segments) /\ Len(segments') = Len(segments) + 1
      /\ segments'[Len(segments) + 1] = new
      /\ \A i \in DOMAIN segments : segments'[i] = segments[i]
      /\ DOMAIN segments' = DOMAIN segments \union {Len(segments) + 1}
      /\ Len(segments) + 1 \notin DOMAIN segments
  BY <1>2, <1>4, <1>5
<1>8. Range(segments') = Range(segments) \union {new}
  BY <1>7 DEF Range
<1>9. /\ Pins(segments') = Pins(segments) \union {new.pin}
      /\ ChannelsOf(segments') = ChannelsOf(segments) \union {new.ch}
  BY <1>8 DEF Pins, ChannelsOf
<1>10. QED  BY <1>1, <1>4, <1>5, <1>6, <1>7, <1>9 DEF new
(* The chip takes transmissions away, one from each channel that sends.      *)
LEMMA SentTypes ==
    ASSUME sending \in [Channels -> Seq(Nat)], Sent
    PROVE  /\ sending' \in [Channels -> Seq(Nat)]
           /\ \A ch \in Channels : /\ sending'[ch] # <<>> => sending[ch] # <<>>
                                   /\ Range(sending'[ch]) \subseteq Range(sending[ch])
<1>1. PICK group \in {sync} \union {{ch} : ch \in Channels \ sync} :
        /\ \A ch \in group : sending[ch] # <<>>
        /\ sending' = [ch \in Channels |-> IF ch \in group THEN Tail(sending[ch])
                                           ELSE sending[ch]]
  BY DEF Sent
<1>2. ASSUME NEW ch \in Channels
      PROVE  /\ sending'[ch] \in Seq(Nat)
             /\ sending'[ch] # <<>> => sending[ch] # <<>>
             /\ Range(sending'[ch]) \subseteq Range(sending[ch])
  <2>1. CASE ch \in group
    <3> DEFINE t == sending[ch]
    <3>1. sending'[ch] = Tail(t) /\ t \in Seq(Nat) /\ t # <<>>
      BY <1>1, <2>1
    <3> HIDE DEF t
    <3>2. /\ Tail(t) \in Seq(Nat) /\ Len(Tail(t)) = Len(t) - 1
          /\ \A i \in 1..(Len(t) - 1) : Tail(t)[i] = t[i + 1]
      BY <3>1, HeadTailProperties
    <3>3. DOMAIN Tail(t) = 1..(Len(t) - 1) /\ DOMAIN t = 1..Len(t) /\ Len(t) \in Nat
      BY <3>1, <3>2
    <3>4. Range(Tail(t)) \subseteq Range(t)
      <4> SUFFICES ASSUME NEW i \in DOMAIN Tail(t) PROVE Tail(t)[i] \in Range(t)
        BY DEF Range
      <4>1. Tail(t)[i] = t[i + 1] /\ i + 1 \in DOMAIN t
        BY <3>2, <3>3
      <4>2. QED  BY <4>1 DEF Range
    <3>5. QED  BY <3>1, <3>2, <3>4 DEF t
  <2>2. CASE ch \notin group
    BY <1>1, <2>2
  <2>3. QED  BY <2>1, <2>2
<1>3. sending' \in [Channels -> Seq(Nat)]
  BY <1>1, <1>2
<1>4. QED  BY <1>2, <1>3
-----------------------------------------------------------------------------
LEMMA InitInv == Init => Inv
<1> SUFFICES ASSUME Init PROVE Inv
  OBVIOUS
<1> USE DEF Init
<1>1. Types
  <2>1. view \in Seq(Strips) /\ segments \in Seq(Segments)
    BY EmptySeq
  <2>2. sending \in [Channels -> Seq(Nat)]
    BY EmptySeq
  <2>3. memory \in Configs /\ cfg \in Configs /\ at \in Nat \ {0}
    OBVIOUS
  <2>4. /\ lock \in {"config", "render", NULL}
        /\ request \in {"none", "decoded", "opening"}
        /\ frame \in Filled \union {NULL} /\ open \subseteq Channels
    OBVIOUS
  <2>5. initialized \in BOOLEAN /\ enabled \in BOOLEAN /\ good \in BOOLEAN
    OBVIOUS
  <2>6. QED  BY <2>1, <2>2, <2>3, <2>4, <2>5 DEF Types
<1>2. segments = <<>> /\ DOMAIN segments = {} /\ Range(segments) = {}
  BY DEF Range
<1>3. Pins(segments) = {} /\ ChannelsOf(segments) = {}
  BY <1>2 DEF Pins, ChannelsOf
<1>4. Locks
  BY NullAssumption DEF Locks
<1>5. Opened
  <2>1. Len(cfg.strips) \in Nat
    BY StripsOf
  <2>2. 1..(at - 1) = {}
    OBVIOUS
  <2>3. {cfg.strips[i].pin : i \in 1..(at - 1)} = {}
    BY <2>2
  <2>4. QED  BY <1>3, <2>1, <2>3 DEF Opened
<1>6. Channel
  BY <1>2, <1>3 DEF Channel
<1>7. OnItsWay /\ Complete
  BY DEF OnItsWay, Complete
<1>8. Sized /\ InBuffer
  BY <1>2 DEF Sized, InBuffer
<1>9. QED  BY <1>1, <1>4, <1>5, <1>6, <1>7, <1>8 DEF Inv

(* Locks and types.                                                          *)
LEMMA LocksStep == Inv /\ [Next]_vars => Locks'
<1> SUFFICES ASSUME Inv, [Next]_vars PROVE Locks'
  OBVIOUS
<1>1. Locks /\ NULL \notin {"config", "render"}
  BY NullAssumption DEF Inv
<1> USE <1>1 DEF Locks
<1>2. CASE \E c \in Configs : Decode(c)
  BY <1>2 DEF Decode
<1>3. CASE NotApplied
  BY <1>3 DEF NotApplied
<1>4. CASE Configure
  BY <1>4 DEF Configure
<1>5. CASE Refuse \/ Skip \/ Open \/ OpenFail
  BY <1>5 DEF Refuse, Skip, Open, OpenFail, driver
<1>6. CASE Configured
  BY <1>6 DEF Configured
<1>7. CASE Switch \/ Look
  BY <1>7 DEF Switch, Look, config
<1>8. CASE \E s \in Range(view) : \E q \in Parts(s) : Fill(s, q)
  <2> PICK s \in Range(view) : \E q \in Parts(s) : Fill(s, q)
    BY <1>8
  <2>1. PICK q \in Parts(s) : Fill(s, q)
    OBVIOUS
  <2>2. frame' # NULL
    <3>1. frame' \in Filled
      BY <2>1, FilledFrame
    <3>2. QED  BY <3>1, NullAssumption DEF Filled
  <2>3. QED  BY <2>1, <2>2 DEF Fill
<1>9. CASE Transmit \/ TransmitFail
  BY <1>9 DEF Transmit, TransmitFail
<1>10. CASE Sent
  BY <1>10 DEF Sent
<1>11. CASE UNCHANGED vars
  BY <1>11 DEF vars, config
<1>12. QED
  BY <1>2, <1>3, <1>4, <1>5, <1>6, <1>7, <1>8, <1>9, <1>10, <1>11
     DEF Next, Web, Render
LEMMA TypesStep == Inv /\ [Next]_vars => Types'
<1> SUFFICES ASSUME Inv, [Next]_vars PROVE Types'
  OBVIOUS
<1>1. Types
  BY DEF Inv
<1>2. CASE \E c \in Configs : Decode(c)
  BY <1>1, <1>2 DEF Types, Decode, config, driver
<1>3. CASE NotApplied
  BY <1>1, <1>3 DEF Types, NotApplied, config, driver
<1>4. CASE Configure
  <2>1. segments' \in Seq(Segments)
    BY <1>4, EmptySeq DEF Configure
  <2>2. sending' \in [Channels -> Seq(Nat)]
    <3>1. <<>> \in Seq(Nat)
      BY EmptySeq
    <3>2. QED  BY <1>1, <1>4, <3>1 DEF Types, Configure
  <2>3. /\ memory' \in Configs /\ cfg' \in Configs /\ view' \in Seq(Strips)
        /\ open' \subseteq Channels /\ frame' \in Filled \union {NULL}
    BY <1>1, <1>4 DEF Types, Configure
  <2>4. /\ lock' = "config" /\ request' = "opening" /\ at' = 1
    BY <1>4 DEF Configure
  <2>5. initialized' \in BOOLEAN /\ enabled' \in BOOLEAN /\ good' \in BOOLEAN
    BY <1>1, <1>4 DEF Types, Configure
  <2>6. QED  BY <2>1, <2>2, <2>3, <2>4, <2>5 DEF Types
<1>5. CASE Refuse \/ Skip \/ OpenFail
  <2>1. at' \in Nat \ {0}
    BY <1>1, <1>5 DEF Types, Refuse, Skip, OpenFail
  <2>2. good' \in BOOLEAN
    BY <1>1, <1>5 DEF Types, Refuse, Skip, OpenFail
  <2>3. UNCHANGED <<memory, view, cfg, initialized, enabled, lock, request,
                    segments, open, sending, frame>>
    BY <1>5 DEF Refuse, Skip, OpenFail, driver
  <2>4. QED  BY <1>1, <2>1, <2>2, <2>3 DEF Types
<1>6. CASE Open
  <2>1. segments' \in Seq(Segments) /\ open' \subseteq Channels
    BY <1>1, <1>6, OpenedSegments DEF Types
  <2>2. at' \in Nat \ {0}
    BY <1>1, <1>6 DEF Types, Open
  <2>3. UNCHANGED <<memory, view, cfg, initialized, enabled, lock, request, good,
                    sending, frame>>
    BY <1>6 DEF Open
  <2>4. QED  BY <1>1, <2>1, <2>2, <2>3 DEF Types
<1>7. CASE Configured
  <2>1. lock' = NULL /\ request' = "none"
    BY <1>7 DEF Configured
  <2>2. initialized' \in BOOLEAN
    BY <1>1, <1>7 DEF Types, Configured
  <2>3. UNCHANGED <<memory, view, cfg, at, good, enabled, segments, open,
                    sending, frame>>
    BY <1>7 DEF Configured
  <2>4. QED  BY <1>1, <2>1, <2>2, <2>3 DEF Types
<1>8. CASE Switch
  <2>1. enabled' \in BOOLEAN
    BY <1>8 DEF Switch
  <2>2. UNCHANGED <<memory, view, cfg, initialized, at, good, lock, request,
                    segments, open, sending, frame>>
    BY <1>8 DEF Switch, config, driver
  <2>3. QED  BY <1>1, <2>1, <2>2 DEF Types
<1>9. CASE Look
  <2>1. view' \in Seq(Strips)
    BY <1>1, <1>9, StripsOf DEF Look, Types
  <2>2. UNCHANGED <<memory, cfg, initialized, at, good, enabled, lock, request,
                    segments, open, sending, frame>>
    BY <1>9 DEF Look, config, driver
  <2>3. QED  BY <1>1, <2>1, <2>2 DEF Types
<1>10. CASE \E s \in Range(view) : \E q \in Parts(s) : Fill(s, q)
  <2> PICK s \in Range(view) : \E q \in Parts(s) : Fill(s, q)
    BY <1>10
  <2>1. PICK q \in Parts(s) : Fill(s, q)
    OBVIOUS
  <2>2. frame' \in Filled
    BY <2>1, FilledFrame
  <2>3. segments' \in Seq(Segments)
    BY <2>1, FilledSegments
  <2>4. lock' = "render"
    BY <2>1 DEF Fill
  <2>5. UNCHANGED <<memory, view, cfg, initialized, at, good, enabled, request,
                    open, sending>>
    BY <2>1 DEF Fill, config
  <2>6. QED  BY <1>1, <2>2, <2>3, <2>4, <2>5 DEF Types
<1>11. CASE Transmit
  <2>1. sending' \in [Channels -> Seq(Nat)]
    <3>1. frame \in Filled /\ sending \in [Channels -> Seq(Nat)]
      BY <1>1, <1>11 DEF Types, Transmit
    <3>2. /\ frame.ch \in Channels /\ frame.size \in Nat
          /\ sending[frame.ch] \in Seq(Nat)
      BY <3>1 DEF Filled
    <3>3. Append(sending[frame.ch], frame.size) \in Seq(Nat)
      BY <3>2
    <3>4. QED  BY <1>11, <3>1, <3>3 DEF Transmit
  <2>2. lock' = NULL /\ frame' = NULL
    BY <1>11 DEF Transmit
  <2>3. UNCHANGED <<memory, view, cfg, initialized, at, good, enabled, request,
                    segments, open>>
    BY <1>11 DEF Transmit, config, driver
  <2>4. QED  BY <1>1, <2>1, <2>2, <2>3 DEF Types
<1>12. CASE TransmitFail
  BY <1>1, <1>12 DEF Types, TransmitFail, config, driver
<1>13. CASE Sent
  <2>1. sending' \in [Channels -> Seq(Nat)]
    BY <1>1, <1>13, SentTypes DEF Types
  <2>2. UNCHANGED <<memory, view, cfg, initialized, at, good, enabled, lock,
                    request, segments, open, frame>>
    BY <1>13 DEF Sent, config, driver
  <2>3. QED  BY <1>1, <2>1, <2>2 DEF Types
<1>14. CASE UNCHANGED vars
  BY <1>1, <1>14 DEF Types, vars, config, driver
<1>15. QED
  BY <1>2, <1>3, <1>4, <1>5, <1>6, <1>7, <1>8, <1>9, <1>10, <1>11, <1>12, <1>13,
     <1>14 DEF Next, Web, Render

LEMMA OpenedStep == Inv /\ [Next]_vars => Opened'
<1> SUFFICES ASSUME Inv, [Next]_vars, request' = "opening"
             PROVE  /\ at' <= Len(cfg'.strips) + 1
                    /\ good' /\ cfg'.rmt
                         => Pins(segments') = {cfg'.strips[i].pin : i \in 1..(at' - 1)}
  BY DEF Opened
<1>1. /\ Types /\ Locks /\ Opened /\ NULL \notin {"config", "render"}
      /\ at \in Nat \ {0} /\ cfg \in Configs
      /\ Len(cfg.strips) \in Nat /\ DOMAIN cfg.strips = 1..Len(cfg.strips)
  BY StripsOf, NullAssumption DEF Inv, Types
<1>2. CASE Configure
  <2>1. cfg' \in Configs /\ at' = 1 /\ segments' = <<>>
    BY <1>1, <1>2 DEF Types, Configure
  <2>2. Len(cfg'.strips) \in Nat
    BY <2>1, StripsOf
  <2>3. Pins(segments') = {}
    <3>1. Range(segments') = {}
      BY <2>1 DEF Range
    <3>2. QED  BY <3>1 DEF Pins
  <2>4. 1..(at' - 1) = {}
    BY <2>1
  <2>5. {cfg'.strips[i].pin : i \in 1..(at' - 1)} = {}
    BY <2>4
  <2>6. QED  BY <2>1, <2>2, <2>3, <2>5
<1>3. ASSUME Opening, at' = at + 1, UNCHANGED cfg,
             good' /\ cfg.rmt
               => good /\ Pins(segments') = Pins(segments) \union {Strip.pin}
      PROVE  /\ at' <= Len(cfg'.strips) + 1
             /\ good' /\ cfg'.rmt
                  => Pins(segments') = {cfg'.strips[i].pin : i \in 1..(at' - 1)}
  <2>1. at <= Len(cfg.strips)
    BY <1>1, <1>3 DEF Opening
  <2>2. 1..(at' - 1) = (1..(at - 1)) \union {at}
    BY <1>1, <1>3
  <2>3. {cfg.strips[i].pin : i \in 1..(at' - 1)}
          = {cfg.strips[i].pin : i \in 1..(at - 1)} \union {Strip.pin}
    BY <2>2 DEF Strip
  <2>4. good' /\ cfg.rmt
          => Pins(segments) = {cfg.strips[i].pin : i \in 1..(at - 1)}
    BY <1>1, <1>3 DEF Opened, Opening
  <2>5. at' <= Len(cfg.strips) + 1
    BY <1>1, <1>3, <2>1
  <2>6. ASSUME good', cfg'.rmt
        PROVE  Pins(segments') = {cfg'.strips[i].pin : i \in 1..(at' - 1)}
    <3>1. /\ Pins(segments) = {cfg.strips[i].pin : i \in 1..(at - 1)}
          /\ Pins(segments') = Pins(segments) \union {Strip.pin}
      BY ONLY <1>3, <2>4, <2>6, Zenon
    <3>2. QED  BY <1>3, <2>3, <3>1
  <2>7. QED  BY <1>3, <2>5, <2>6
<1>4. CASE Refuse \/ OpenFail
  <2>1. Opening /\ at' = at + 1 /\ UNCHANGED cfg /\ ~good'
    BY <1>4 DEF Refuse, OpenFail
  <2>2. QED  BY <1>3, <2>1
<1>5. CASE Skip
  <2>1. Opening /\ at' = at + 1 /\ UNCHANGED <<cfg, good, segments>>
    BY <1>5 DEF Skip, driver
  <2>2. cfg.rmt => Pins(segments') = Pins(segments) \union {Strip.pin}
    BY <1>5, <2>1 DEF Skip
  <2>3. QED  BY <1>3, <2>1, <2>2
<1>6. CASE Open
  <2>1. Opening /\ at' = at + 1 /\ UNCHANGED <<cfg, good>>
    BY <1>6 DEF Open
  <2>2. Pins(segments') = Pins(segments) \union {Strip.pin}
    BY <1>6, OpenedSegments
  <2>3. QED  BY <1>3, <2>1, <2>2
<1>7. ASSUME UNCHANGED <<request, at, good, cfg>>, Pins(segments') = Pins(segments)
      PROVE  /\ at' <= Len(cfg'.strips) + 1
             /\ good' /\ cfg'.rmt
                  => Pins(segments') = {cfg'.strips[i].pin : i \in 1..(at' - 1)}
  BY <1>1, <1>7 DEF Opened
<1>8. CASE Switch \/ Look \/ Transmit \/ TransmitFail \/ Sent \/ UNCHANGED vars
  <2>1. UNCHANGED <<request, at, good, cfg, segments>>
    BY <1>8 DEF Switch, Look, Transmit, TransmitFail, Sent, vars, config, driver
  <2>2. QED  BY <1>7, <2>1
<1>9. CASE \E s \in Range(view) : \E q \in Parts(s) : Fill(s, q)
  <2> PICK s \in Range(view) : \E q \in Parts(s) : Fill(s, q)
    BY <1>9
  <2>1. PICK q \in Parts(s) : Fill(s, q)
    OBVIOUS
  <2>2. UNCHANGED <<request, at, good, cfg>>
    BY <2>1 DEF Fill, config
  <2>3. Pins(segments') = Pins(segments)
    BY <2>1, FilledSegments
  <2>4. QED  BY <1>7, <2>2, <2>3
<1>10. CASE (\E c \in Configs : Decode(c)) \/ NotApplied \/ Configured
  <2>1. request' # "opening"
    BY <1>10 DEF Decode, NotApplied, Configured
  <2>2. QED  BY <2>1
<1>11. QED
  BY <1>2, <1>4, <1>5, <1>6, <1>8, <1>9, <1>10 DEF Next, Web, Render

LEMMA ChannelStep == Inv /\ [Next]_vars => Channel'
<1> SUFFICES ASSUME Inv, [Next]_vars PROVE Channel'
  OBVIOUS
<1>1. /\ Types /\ Locks /\ Channel /\ segments \in Seq(Segments)
      /\ sending \in [Channels -> Seq(Nat)]
  BY DEF Inv, Types
<1>2. CASE \/ (\E c \in Configs : Decode(c)) \/ NotApplied \/ Refuse \/ Skip
           \/ OpenFail \/ Switch \/ Look \/ TransmitFail \/ UNCHANGED vars
  <2>1. UNCHANGED <<segments, open, sync, sending>>
    BY <1>2 DEF Decode, NotApplied, Refuse, Skip, OpenFail, Switch, Look,
                TransmitFail, vars, driver
  <2>2. QED  BY <1>1, <2>1 DEF Channel
<1>3. CASE Configure
  <2>1. segments' = <<>> /\ DOMAIN segments' = {} /\ Range(segments') = {}
    BY <1>3 DEF Configure, Range
  <2>2. open' = {} /\ ChannelsOf(segments') = {} /\ sync' = {}
    BY <1>1, <1>3, <2>1 DEF Configure, Channel, ChannelsOf
  <2>3. \A ch \in Channels : sending'[ch] = <<>>
    BY <1>1, <1>3 DEF Configure, Channel
  <2>4. QED  BY <2>1, <2>2, <2>3 DEF Channel
<1>4. CASE Open
  <2>1. PICK ch \in Channels \ open :
          LET new == [pin |-> Strip.pin, ch |-> ch, size |-> Strip.leds] IN
          /\ open' = open \union {ch}
          /\ segments'[Len(segments) + 1] = new
          /\ \A i \in DOMAIN segments : segments'[i] = segments[i]
          /\ DOMAIN segments' = DOMAIN segments \union {Len(segments) + 1}
          /\ Len(segments) + 1 \notin DOMAIN segments
          /\ ChannelsOf(segments') = ChannelsOf(segments) \union {ch}
    BY <1>4, OpenedSegments
  <2> DEFINE n == Len(segments) + 1
  <2>2. segments'[n].pin = Strip.pin /\ segments'[n].ch = ch
    BY <2>1
  <2>3. ch \notin ChannelsOf(segments) /\ Strip.pin \notin Pins(segments)
    BY <1>1, <1>4 DEF Channel, Open
  <2>4. \A i \in DOMAIN segments : /\ segments'[i].ch \in ChannelsOf(segments)
                                   /\ segments'[i].pin \in Pins(segments)
    BY <1>1, <2>1, SegmentTypes
  <2>5. \A i, j \in DOMAIN segments :
          i # j => /\ segments'[i].ch # segments'[j].ch
                   /\ segments'[i].pin # segments'[j].pin
    BY <1>1, <2>1 DEF Channel
  <2>6. DOMAIN segments' = DOMAIN segments \union {n}
    BY <2>1
  <2> HIDE DEF n
  <2>7. \A i, j \in DOMAIN segments' :
          i # j => /\ segments'[i].ch # segments'[j].ch
                   /\ segments'[i].pin # segments'[j].pin
    BY <2>2, <2>3, <2>4, <2>5, <2>6
  <2>8. open' = ChannelsOf(segments')
    BY <1>1, <2>1 DEF Channel
  <2>9. UNCHANGED <<sync, sending>>
    BY <1>4 DEF Open
  <2>10. sync' \subseteq open' /\ \A c \in Channels : sending'[c] # <<>> => c \in open'
    BY <1>1, <2>1, <2>9 DEF Channel
  <2>11. QED  BY <2>7, <2>8, <2>10 DEF Channel
<1>5. CASE Configured
  <2>1. sync' \subseteq open
    <3>1. ASSUME NEW P, P \subseteq Pins(segments)
          PROVE  {segments[Of(x)].ch : x \in P} \subseteq open
      <4> SUFFICES ASSUME NEW x \in P PROVE segments[Of(x)].ch \in open
        OBVIOUS
      <4>1. Of(x) \in DOMAIN segments
        BY <1>1, <3>1, OfSegment
      <4>2. segments[Of(x)].ch \in ChannelsOf(segments)
        BY <1>1, <4>1, SegmentTypes
      <4>3. QED  BY <1>1, <4>2 DEF Channel
    <3>2. \/ sync' = {}
          \/ /\ Pins(Together) \subseteq Pins(segments)
             /\ sync' = {segments[Of(x)].ch : x \in Pins(Together)}
      BY <1>5 DEF Configured, Synced
    <3>3. QED  BY <3>1, <3>2
  <2>2. UNCHANGED <<segments, open, sending>>
    BY <1>5 DEF Configured
  <2>3. QED  BY <1>1, <2>1, <2>2 DEF Channel
<1>6. CASE \E s \in Range(view) : \E q \in Parts(s) : Fill(s, q)
  <2> PICK s \in Range(view) : \E q \in Parts(s) : Fill(s, q)
    BY <1>6
  <2>1. PICK q \in Parts(s) : Fill(s, q)
    OBVIOUS
  <2>2. /\ ChannelsOf(segments') = ChannelsOf(segments)
        /\ DOMAIN segments' = DOMAIN segments
        /\ \A i \in DOMAIN segments : /\ segments'[i].pin = segments[i].pin
                                      /\ segments'[i].ch = segments[i].ch
    BY <2>1, FilledSegments
  <2>3. UNCHANGED <<open, sync, sending>>
    BY <2>1 DEF Fill
  <2>4. QED  BY <1>1, <2>2, <2>3 DEF Channel
<1>7. CASE Transmit
  <2>1. UNCHANGED <<segments, open, sync>>
    BY <1>7 DEF Transmit, driver
  <2>2. frame.ch \in open
    <3>1. frame # NULL /\ OnItsWay
      BY <1>7 DEF Transmit, Inv
    <3>2. Of(frame.pin) \in DOMAIN segments
      BY <1>1, <3>1, OfSegment DEF OnItsWay
    <3>3. frame.ch \in ChannelsOf(segments)
      BY <1>1, <3>1, <3>2, SegmentTypes DEF OnItsWay
    <3>4. QED  BY <1>1, <3>3 DEF Channel
  <2>3. \A ch \in Channels : ch # frame.ch => sending'[ch] = sending[ch]
    BY <1>1, <1>7 DEF Transmit
  <2>4. \A ch \in Channels : sending'[ch] # <<>> => ch \in open
    BY <1>1, <2>2, <2>3 DEF Channel
  <2>5. QED  BY <1>1, <2>1, <2>4 DEF Channel
<1>8. CASE Sent
  <2>1. UNCHANGED <<segments, open, sync>>
    BY <1>8 DEF Sent, driver
  <2>2. \A ch \in Channels : sending'[ch] # <<>> => sending[ch] # <<>>
    BY <1>1, <1>8, SentTypes
  <2>3. QED  BY <1>1, <2>1, <2>2 DEF Channel
<1>9. QED
  BY <1>2, <1>3, <1>4, <1>5, <1>6, <1>7, <1>8 DEF Next, Web, Render

LEMMA OnItsWayStep == Inv /\ [Next]_vars => OnItsWay'
<1> SUFFICES ASSUME Inv, [Next]_vars PROVE OnItsWay'
  OBVIOUS
<1>1. /\ Locks /\ Channel /\ OnItsWay /\ NULL \notin {"config", "render"}
  BY NullAssumption DEF Inv
<1>2. CASE \E s \in Range(view) : \E q \in Parts(s) : Fill(s, q)
  <2> PICK s \in Range(view) : \E q \in Parts(s) : Fill(s, q)
    BY <1>2
  <2>1. PICK q \in Parts(s) : Fill(s, q)
    OBVIOUS
  <2> DEFINE k == Of(s.pin)
  <2>2. /\ k \in DOMAIN segments /\ segments[k].pin = s.pin
        /\ frame'.pin = s.pin /\ frame'.ch = segments[k].ch
        /\ s.pin \in Pins(segments)
    BY <2>1, FilledFrame DEF Fill, Accepted
  <2>3. /\ DOMAIN segments' = DOMAIN segments /\ Pins(segments') = Pins(segments)
        /\ \A i \in DOMAIN segments : /\ segments'[i].pin = segments[i].pin
                                      /\ segments'[i].ch = segments[i].ch
    BY <2>1, FilledSegments
  <2> HIDE DEF k
  <2>4. Of(frame.pin)' = k
    <3> DEFINE A(i) == i \in DOMAIN segments' /\ segments'[i].pin = s.pin
    <3>1. A(k)
      BY <2>2, <2>3
    <3>2. \A i : A(i) => i = k
      BY <1>1, <2>2, <2>3 DEF Channel
    <3>3. Of(frame.pin)' = CHOOSE i \in DOMAIN segments' : segments'[i].pin = s.pin
      BY <2>2 DEF Of
    <3>4. A(CHOOSE i \in DOMAIN segments' : segments'[i].pin = s.pin)
      BY <3>1
    <3>5. QED  BY <3>2, <3>3, <3>4
  <2>5. QED  BY <2>2, <2>3, <2>4 DEF OnItsWay
<1>3. CASE Configure \/ Refuse \/ Skip \/ Open \/ OpenFail \/ Transmit \/ TransmitFail
  <2>1. frame' = NULL
    BY <1>1, <1>3 DEF Configure, Refuse, Skip, Open, OpenFail, Transmit, TransmitFail,
                      Locks, Opening
  <2>2. QED  BY <2>1 DEF OnItsWay
<1>4. CASE \/ (\E c \in Configs : Decode(c)) \/ NotApplied \/ Configured \/ Switch
           \/ Look \/ Sent \/ UNCHANGED vars
  <2>1. UNCHANGED <<segments, frame>>
    BY <1>4 DEF Decode, NotApplied, Configured, Switch, Look, Sent, vars, driver
  <2>2. QED  BY <1>1, <2>1 DEF OnItsWay, Of
<1>5. QED  BY <1>2, <1>3, <1>4 DEF Next, Web, Render

LEMMA CompleteStep == Inv /\ [Next]_vars => Complete'
<1> SUFFICES ASSUME Inv, [Next]_vars, initialized', lock' # "config", cfg'.rmt
             PROVE  Pins(cfg'.strips) = Pins(segments')
  BY DEF Complete
<1>1. /\ Locks /\ Opened /\ Complete /\ NULL \notin {"config", "render"}
      /\ at \in Nat \ {0} /\ cfg \in Configs
      /\ Len(cfg.strips) \in Nat /\ DOMAIN cfg.strips = 1..Len(cfg.strips)
  BY StripsOf, NullAssumption DEF Inv, Types
<1>2. CASE Configured
  <2>1. /\ request = "opening" /\ good /\ cfg.rmt
        /\ at \notin DOMAIN cfg.strips /\ UNCHANGED <<cfg, segments>>
    BY <1>2 DEF Configured
  <2>2. at = Len(cfg.strips) + 1
    BY <1>1, <2>1 DEF Opened
  <2>3. Pins(segments) = {cfg.strips[i].pin : i \in 1..(at - 1)}
    BY <1>1, <2>1 DEF Opened
  <2>4. 1..(at - 1) = DOMAIN cfg.strips
    BY <1>1, <2>2
  <2>5. Pins(cfg.strips) = {cfg.strips[i].pin : i \in DOMAIN cfg.strips}
    BY DEF Pins, Range
  <2>6. QED  BY <2>1, <2>3, <2>4, <2>5
<1>3. CASE Configure \/ Refuse \/ Skip \/ Open \/ OpenFail
  BY <1>1, <1>3 DEF Configure, Refuse, Skip, Open, OpenFail, Locks, Opening
<1>4. CASE \E s \in Range(view) : \E q \in Parts(s) : Fill(s, q)
  <2> PICK s \in Range(view) : \E q \in Parts(s) : Fill(s, q)
    BY <1>4
  <2>1. PICK q \in Parts(s) : Fill(s, q)
    OBVIOUS
  <2>2. UNCHANGED <<cfg, initialized>> /\ lock = NULL
    BY <2>1 DEF Fill, config
  <2>3. Pins(segments') = Pins(segments)
    BY <2>1, FilledSegments
  <2>4. QED  BY <1>1, <2>2, <2>3 DEF Complete
<1>5. CASE \/ (\E c \in Configs : Decode(c)) \/ NotApplied \/ Switch \/ Look
           \/ Transmit \/ TransmitFail \/ Sent \/ UNCHANGED vars
  <2>1. UNCHANGED <<cfg, initialized, segments>>
    BY <1>5 DEF Decode, NotApplied, Switch, Look, Transmit, TransmitFail, Sent, vars,
                config, driver
  <2>2. lock # "config"
    BY <1>1, <1>5 DEF Decode, NotApplied, Switch, Look, Transmit, TransmitFail, Sent,
                      vars, Locks
  <2>3. QED  BY <1>1, <2>1, <2>2 DEF Complete
<1>6. QED  BY <1>2, <1>3, <1>4, <1>5 DEF Next, Web, Render

LEMMA SizedStep == Inv /\ [Next]_vars => Sized'
<1> SUFFICES ASSUME Inv, [Next]_vars PROVE Sized'
  OBVIOUS
<1>1. /\ Sized /\ segments \in Seq(Segments) /\ cfg \in Configs
      /\ \A i \in DOMAIN cfg.strips : cfg.strips[i] \in Strips
  BY StripsOf, ElementOfSeq DEF Inv, Types
<1>2. CASE Configure
  BY <1>2 DEF Configure, Sized
<1>3. CASE Open
  <2>1. PICK ch \in Channels \ open :
          LET new == [pin |-> Strip.pin, ch |-> ch, size |-> Strip.leds] IN
          /\ segments'[Len(segments) + 1] = new
          /\ \A i \in DOMAIN segments : segments'[i] = segments[i]
          /\ DOMAIN segments' = DOMAIN segments \union {Len(segments) + 1}
    BY <1>3, OpenedSegments
  <2> DEFINE n == Len(segments) + 1
  <2>2. /\ segments'[n].pin = Strip.pin /\ segments'[n].size = Strip.leds
        /\ DOMAIN segments' = DOMAIN segments \union {n}
    BY <2>1
  <2> HIDE DEF n
  <2>3. at \in DOMAIN cfg.strips /\ UNCHANGED cfg
    BY <1>3 DEF Open, Opening
  <2>4. Strip.leds \in Nat /\ Strip = cfg.strips[at]
    BY <1>1, <2>3 DEF Strip, Strips
  <2>5. /\ cfg.strips[at].pin = segments'[n].pin
        /\ cfg.strips[at].leds <= segments'[n].size
    BY <2>2, <2>4
  <2>6. \A i \in DOMAIN segments :
          \E k \in DOMAIN cfg.strips : /\ cfg.strips[k].pin = segments'[i].pin
                                       /\ cfg.strips[k].leds <= segments'[i].size
    BY <1>1, <2>1 DEF Sized
  <2>7. QED  BY <2>2, <2>3, <2>5, <2>6 DEF Sized
<1>4. CASE \E s \in Range(view) : \E q \in Parts(s) : Fill(s, q)
  <2> PICK s \in Range(view) : \E q \in Parts(s) : Fill(s, q)
    BY <1>4
  <2>1. PICK q \in Parts(s) : Fill(s, q)
    OBVIOUS
  <2>2. /\ DOMAIN segments' = DOMAIN segments /\ segments' \in Seq(Segments)
        /\ \A i \in DOMAIN segments : /\ segments'[i].pin = segments[i].pin
                                      /\ segments[i].size <= segments'[i].size
    BY <2>1, FilledSegments
  <2>3. UNCHANGED cfg
    BY <2>1 DEF Fill, config
  <2>4. ASSUME NEW i \in DOMAIN segments
        PROVE  \E k \in DOMAIN cfg.strips :
                 /\ cfg.strips[k].pin = segments'[i].pin
                 /\ cfg.strips[k].leds <= segments'[i].size
    <3>1. PICK k \in DOMAIN cfg.strips : /\ cfg.strips[k].pin = segments[i].pin
                                         /\ cfg.strips[k].leds <= segments[i].size
      BY <1>1 DEF Sized
    <3>2. cfg.strips[k].leds \in Nat /\ segments[i].size \in Nat
      BY <1>1, SegmentTypes DEF Strips
    <3>3. segments'[i].size \in Nat
      <4>1. segments'[i] \in Segments
        BY <2>2, ElementOfSeq
      <4>2. QED  BY <4>1 DEF Segments
    <3>4. cfg.strips[k].leds <= segments'[i].size
      BY <2>2, <3>1, <3>2, <3>3
    <3>5. QED  BY <2>2, <3>1, <3>4
  <2>5. QED  BY <2>2, <2>3, <2>4 DEF Sized
<1>5. CASE \/ (\E c \in Configs : Decode(c)) \/ NotApplied \/ Refuse \/ Skip
           \/ OpenFail \/ Configured \/ Switch \/ Look \/ Transmit \/ TransmitFail
           \/ Sent \/ UNCHANGED vars
  <2>1. UNCHANGED <<cfg, segments>>
    BY <1>5 DEF Decode, NotApplied, Refuse, Skip, OpenFail, Configured, Switch, Look,
                Transmit, TransmitFail, Sent, vars, config, driver
  <2>2. QED  BY <1>1, <2>1 DEF Sized
<1>6. QED  BY <1>2, <1>3, <1>4, <1>5 DEF Next, Web, Render

LEMMA InBufferStep == Inv /\ [Next]_vars => InBuffer'
<1> SUFFICES ASSUME Inv, [Next]_vars PROVE InBuffer'
  OBVIOUS
<1>1. /\ Locks /\ Channel /\ OnItsWay /\ InBuffer /\ NULL \notin {"config", "render"}
      /\ segments \in Seq(Segments) /\ sending \in [Channels -> Seq(Nat)]
  BY NullAssumption DEF Inv, Types
<1>2. ASSUME segments' = segments, frame' \in {frame, NULL},
             \A ch \in Channels : Range(sending'[ch]) \subseteq Range(sending[ch])
      PROVE  InBuffer'
  <2>1. \A i \in DOMAIN segments : segments[i].ch \in Channels
    BY <1>1, SegmentTypes
  <2>2. QED  BY <1>1, <1>2, <2>1 DEF InBuffer
<1>3. CASE \/ (\E c \in Configs : Decode(c)) \/ NotApplied \/ Refuse \/ Skip
           \/ OpenFail \/ Configured \/ Switch \/ Look \/ TransmitFail
           \/ UNCHANGED vars
  <2>1. UNCHANGED <<segments, sending>> /\ frame' \in {frame, NULL}
    BY <1>3 DEF Decode, NotApplied, Refuse, Skip, OpenFail, Configured, Switch, Look,
                TransmitFail, vars, driver
  <2>2. QED  BY <1>2, <2>1
<1>4. CASE Configure
  BY <1>4 DEF Configure, InBuffer
<1>5. CASE Open
  <2>1. PICK ch \in Channels \ open :
          LET new == [pin |-> Strip.pin, ch |-> ch, size |-> Strip.leds] IN
          /\ segments'[Len(segments) + 1] = new
          /\ \A i \in DOMAIN segments : segments'[i] = segments[i]
          /\ DOMAIN segments' = DOMAIN segments \union {Len(segments) + 1}
    BY <1>5, OpenedSegments
  <2>2. UNCHANGED sending /\ frame' = NULL
    BY <1>1, <1>5 DEF Open, Opening, Locks
  <2>3. sending[ch] = <<>>
    BY <1>1 DEF Channel
  <2>4. Range(sending[ch]) = {}
    BY <2>3 DEF Range
  <2> DEFINE n == Len(segments) + 1
  <2>5. segments'[n].ch = ch /\ DOMAIN segments' = DOMAIN segments \union {n}
    BY <2>1
  <2> HIDE DEF n
  <2>6. \A i \in DOMAIN segments :
          \A m \in Range(sending'[segments'[i].ch]) : m <= segments'[i].size
    BY <1>1, <2>1, <2>2 DEF InBuffer
  <2>7. \A m \in Range(sending'[segments'[n].ch]) : m <= segments'[n].size
    BY <2>2, <2>4, <2>5
  <2>8. QED  BY <2>2, <2>5, <2>6, <2>7 DEF InBuffer
<1>6. CASE \E s \in Range(view) : \E q \in Parts(s) : Fill(s, q)
  <2> PICK s \in Range(view) : \E q \in Parts(s) : Fill(s, q)
    BY <1>6
  <2>1. PICK q \in Parts(s) : Fill(s, q)
    OBVIOUS
  <2> DEFINE k == Of(s.pin)
  <2>2. /\ k \in DOMAIN segments /\ frame'.ch = segments[k].ch
        /\ frame' \in Filled /\ frame'.size = s.leds /\ frame'.to <= s.leds
    BY <2>1, FilledFrame
  <2>3. /\ DOMAIN segments' = DOMAIN segments /\ segments' \in Seq(Segments)
        /\ \A i \in DOMAIN segments : /\ segments'[i].ch = segments[i].ch
                                      /\ segments[i].size <= segments'[i].size
        /\ s.leds <= segments'[k].size
    BY <2>1, FilledSegments
  <2>4. UNCHANGED sending
    BY <2>1 DEF Fill
  <2> HIDE DEF k
  <2>5. \A i \in DOMAIN segments : segments[i].size \in Nat /\ segments'[i].size \in Nat
    <3> TAKE i \in DOMAIN segments
    <3>1. segments'[i] \in Segments
      BY <2>3, ElementOfSeq
    <3>2. QED  BY <1>1, <3>1, SegmentTypes DEF Segments
  <2>6. ASSUME NEW i \in DOMAIN segments, NEW m \in Range(sending[segments[i].ch])
        PROVE  m <= segments'[i].size
    <3>1. m \in Nat
      <4>1. sending[segments[i].ch] \in Seq(Nat)
        BY <1>1, SegmentTypes
      <4>2. QED  BY <4>1, ElementOfSeq DEF Range
    <3>2. m <= segments[i].size
      BY <1>1 DEF InBuffer
    <3>3. QED  BY <2>3, <2>5, <3>1, <3>2
  <2>7. ASSUME NEW i \in DOMAIN segments, frame'.ch = segments'[i].ch
        PROVE  frame'.to <= segments'[i].size /\ frame'.size <= segments'[i].size
    <3>1. i = k
      BY <1>1, <2>2, <2>3, <2>7 DEF Channel
    <3>2. frame'.to \in Nat /\ s.leds \in Nat
      BY <2>2 DEF Filled
    <3>3. QED  BY <2>2, <2>3, <2>5, <3>1, <3>2
  <2>8. QED  BY <2>3, <2>4, <2>6, <2>7 DEF InBuffer
<1>7. CASE Transmit
  <2>1. UNCHANGED segments /\ frame' = NULL /\ frame # NULL
    BY <1>7 DEF Transmit, driver
  <2>2. frame \in Filled
    BY <2>1 DEF Inv, Types
  <2> DEFINE t == sending[frame.ch]
             u == Append(t, frame.size)
  <2>3. t \in Seq(Nat) /\ frame.size \in Nat
    BY <1>1, <2>2 DEF Filled
  <2>4. /\ sending'[frame.ch] = u
        /\ \A ch \in Channels : ch # frame.ch => sending'[ch] = sending[ch]
    BY <1>1, <1>7, <2>2 DEF Transmit, Filled
  <2>5. Range(u) = Range(t) \union {frame.size}
    <3> DEFINE z == frame.size
    <3> HIDE DEF t, z
    <3>1. /\ DOMAIN Append(t, z) = DOMAIN t \union {Len(t) + 1}
          /\ \A i \in DOMAIN t : Append(t, z)[i] = t[i]
          /\ Append(t, z)[Len(t) + 1] = z
      BY <2>3 DEF z
    <3>2. Range(Append(t, z)) = Range(t) \union {z}
      BY <3>1 DEF Range
    <3>3. QED  BY <3>2 DEF z
  <2> HIDE DEF u
  <2>6. ASSUME NEW i \in DOMAIN segments, NEW m \in Range(sending'[segments[i].ch])
        PROVE  m <= segments[i].size
    <3>1. CASE segments[i].ch = frame.ch
      <4>1. frame.size <= segments[i].size
        BY <1>1, <2>1, <3>1 DEF InBuffer
      <4>2. \A x \in Range(t) : x <= segments[i].size
        BY <1>1, <3>1 DEF InBuffer
      <4>3. m \in Range(t) \union {frame.size}
        BY <2>4, <2>5, <3>1
      <4>4. QED  BY <4>1, <4>2, <4>3
    <3>2. CASE segments[i].ch # frame.ch
      <4>1. sending'[segments[i].ch] = sending[segments[i].ch]
        BY <1>1, <2>4, <3>2, SegmentTypes
      <4>2. QED  BY <1>1, <4>1 DEF InBuffer
    <3>3. QED  BY <3>1, <3>2
  <2>7. QED  BY <2>1, <2>6 DEF InBuffer
<1>8. CASE Sent
  <2>1. UNCHANGED <<segments, frame>>
    BY <1>8 DEF Sent, driver
  <2>2. \A ch \in Channels : Range(sending'[ch]) \subseteq Range(sending[ch])
    BY <1>1, <1>8, SentTypes
  <2>3. QED  BY <1>2, <2>1, <2>2
<1>9. QED
  BY <1>3, <1>4, <1>5, <1>6, <1>7, <1>8 DEF Next, Web, Render
-----------------------------------------------------------------------------
(* The invariant holds throughout.                                           *)
LEMMA Invariance == Spec => []Inv
<1>1. Inv /\ [Next]_vars => Inv'
  BY TypesStep, LocksStep, OpenedStep, ChannelStep, OnItsWayStep, CompleteStep,
     SizedStep, InBufferStep DEF Inv
<1>2. QED  BY InitInv, <1>1, PTL DEF Spec

(* No channel is leaked or shared, for every number of channels and every    *)
(* set of configurations, whichever step of opening one fails: those that    *)
(* exist are the segments', one each, and transmissions, the sync manager    *)
(* and the frame on its way are on channels that exist.                      *)
THEOREM OutputsOwned == Spec => []Owned
<1>1. Inv => Owned
  BY DEF Inv, Channel, OnItsWay, Complete, Owned
<1>2. QED  BY Invariance, <1>1, PTL

(* Neither the copy of a part nor a transmission reaches past the end of its *)
(* buffer, for strips and buffers of every length and queues of every depth. *)
THEOREM FramesInBuffers == Spec => []InBuffer
<1>1. Inv => InBuffer
  BY DEF Inv
<1>2. QED  BY Invariance, <1>1, PTL

(* A buffer is moved while its channel sends from it only when the strips    *)
(* drawn are not those configured or do not agree on a length: a segment is  *)
(* never shorter than one of the strips configured on its output (Sized).    *)
THEOREM BuffersStay == Spec => BufferStays
<1>1. ASSUME Inv, [Next]_vars, Agreed
      PROVE  ~Moved
  <2>1. /\ Channel /\ Sized /\ segments \in Seq(Segments) /\ cfg \in Configs
    BY <1>1 DEF Inv, Types
  <2> SUFFICES ASSUME NEW i \in DOMAIN segments, NEW j \in DOMAIN segments',
                      segments'[j].ch = segments[i].ch,
                      segments'[j].size # segments[i].size
               PROVE  FALSE
    BY DEF Moved
  <2>2. ASSUME j \in DOMAIN segments, segments'[j].ch = segments[j].ch
        PROVE  i = j
    BY <2>1, <2>2 DEF Channel
  <2>3. CASE Configure
    BY <2>3 DEF Configure
  <2>4. CASE Open
    <3>1. PICK ch \in Channels \ open :
            LET new == [pin |-> Strip.pin, ch |-> ch, size |-> Strip.leds] IN
            /\ segments'[Len(segments) + 1] = new
            /\ \A n \in DOMAIN segments : segments'[n] = segments[n]
            /\ DOMAIN segments' = DOMAIN segments \union {Len(segments) + 1}
      BY <1>1, <2>4, OpenedSegments
    <3>2. j \notin DOMAIN segments
      BY <2>2, <3>1
    <3>3. segments'[j].ch = ch
      BY <3>1, <3>2
    <3>4. segments[i].ch \in open
      BY <2>1, SegmentTypes DEF Channel
    <3>5. QED  BY <3>3, <3>4
  <2>5. CASE \E s \in Range(view) : \E q \in Parts(s) : Fill(s, q)
    <3> PICK s \in Range(view) : \E q \in Parts(s) : Fill(s, q)
      BY <2>5
    <3>1. PICK q \in Parts(s) : Fill(s, q)
      OBVIOUS
    <3>2. /\ DOMAIN segments' = DOMAIN segments
          /\ segments'[j].ch = segments[j].ch
          /\ segments[j].size # segments'[j].size
               => segments[j].pin = s.pin /\ segments[j].size < s.leds
      BY <1>1, <3>1, FilledSegments
    <3>3. i = j
      BY <2>2, <3>2
    <3>4. segments[i].pin = s.pin /\ segments[i].size < s.leds
      BY <3>2, <3>3
    <3>5. PICK k \in DOMAIN cfg.strips : /\ cfg.strips[k].pin = segments[i].pin
                                         /\ cfg.strips[k].leds <= segments[i].size
      BY <2>1 DEF Sized
    <3>6. cfg.strips[k] \in Range(view)
      BY <1>1 DEF Agreed, Range
    <3>7. cfg.strips[k].leds = s.leds
      BY <1>1, <3>4, <3>5, <3>6 DEF Agreed
    <3>8. segments[i].size \in Nat /\ s.leds \in Nat
      BY <1>1, <2>1, <3>1, SegmentTypes, FilledFrame DEF Strips
    <3>9. QED  BY <3>4, <3>5, <3>7, <3>8
  <2>6. CASE UNCHANGED segments
    BY <2>2, <2>6
  <2>7. ASSUME \/ (\E c \in Configs : Decode(c)) \/ NotApplied \/ Refuse \/ Skip
               \/ OpenFail \/ Configured \/ Switch \/ Look \/ Transmit
               \/ TransmitFail \/ Sent \/ UNCHANGED vars
        PROVE  UNCHANGED segments
    BY <2>7 DEF Decode, NotApplied, Refuse, Skip, OpenFail, Configured, Switch, Look,
                Transmit, TransmitFail, Sent, vars, driver
  <2>8. QED  BY <1>1, <2>3, <2>4, <2>5, <2>6, <2>7 DEF Next, Web, Render
<1>2. Inv /\ [Next]_vars => [Moved => ~Agreed]_<<segments, sending>>
  BY <1>1
<1>3. QED  BY Invariance, <1>2, PTL DEF Spec, BufferStays
=============================================================================
