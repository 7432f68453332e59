------------------------------ MODULE LedEngine ------------------------------
(* LedEngineRuntime (components/led_engine/led_engine.cpp) and the RMT       *)
(* driver under it (rmt_driver.cpp): a web request gives them a new          *)
(* configuration while the render task draws strips and the chip's transmit  *)
(* channels send frames from the driver's buffers by themselves.             *)
(*                                                                           *)
(* A strip is [pin, leds]: pin stands for its (gpio, rmt_channel), the key   *)
(* the driver finds segments by; an encoder goes with its channel.  Lengths  *)
(* are in pixels.  Pixel values, gamma and chipsets are left out.            *)
EXTENDS Naturals, Sequences, FiniteSets, Functions

CONSTANTS
    Channels,    \* transmit channels of the chip (the ESP32-P4 has four)
    Configs,     \* the configurations stored: [rmt, parallel, strips]
    Allowed,     \* the pins that led_pin_is_allowed accepts
    QueueDepth,  \* transmissions a channel holds (trans_queue_depth)
    NULL

ASSUME ConfigsAssumption ==
    \A c \in Configs : /\ c.rmt \in BOOLEAN
                       /\ c.parallel \in Nat
                       /\ c.strips \in Seq([pin : STRING, leds : Nat])
ASSUME DepthAssumption == QueueDepth \in Nat \ {0}
ASSUME NullAssumption ==
    /\ NULL \notin {"config", "render"}
    /\ NULL \notin [ch : Channels, pin : STRING, to : Nat, size : Nat]

VARIABLES
    memory,       \* AppConfig's led_engine, which the web handlers write
    view,         \* the render task's copy of its strips
    cfg,          \* the engine's cfg_
    initialized, enabled,
    lock,         \* who holds the engine's mutex_: "config", "render" or NULL
    request,      \* the web request: "none", "decoded" or "opening"
    at, good,     \* configure_driver: next segment, and whether status is OK
    segments,     \* s_segments: [pin, ch, size]
    open,         \* the channels that exist
    sync,         \* the channels of s_sync_manager ({}: none)
    sending,      \* per channel, the lengths of the transmissions it holds
    frame         \* the frame between memcpy and rmt_transmit, or NULL

config == <<cfg, initialized, at, good>>
driver == <<segments, open, sync>>
vars == <<memory, view, config, enabled, lock, request, driver, sending, frame>>

Lesser(x, y) == IF x < y THEN x ELSE y
ChannelsOf(list) == {s.ch : s \in Range(list)}
Pins(list) == {s.pin : s \in Range(list)}
Of(pin) == CHOOSE i \in DOMAIN segments : segments[i].pin = pin

(* app_main has called init, which holds the mutex.                          *)
Init ==
    /\ memory \in Configs
    /\ cfg = memory
    /\ view = <<>>
    /\ initialized = FALSE
    /\ enabled = TRUE
    /\ lock = "config"
    /\ request = "opening"
    /\ at = 1
    /\ good = TRUE
    /\ segments = <<>>
    /\ open = {}
    /\ sync = {}
    /\ sending = [ch \in Channels |-> <<>>]
    /\ frame = NULL

-----------------------------------------------------------------------------
(* The web server: POST /api/led and, for its first half, POST               *)
(* /api/wled/effects.                                                        *)

(* config_apply_json writes the live AppConfig.                              *)
Decode(c) ==
    /\ request = "none"
    /\ memory' = c
    /\ request' = "decoded"
    /\ UNCHANGED <<view, config, enabled, lock, driver, sending, frame>>

(* The request ends without a call of the engine: config_save failed, or the *)
(* handler is the effects' one.                                              *)
NotApplied ==
    /\ request = "decoded"
    /\ request' = "none"
    /\ UNCHANGED <<memory, view, config, enabled, lock, driver, sending, frame>>

(* update_config takes the mutex and starts with rmt_driver_deinit_all: the  *)
(* sync manager goes first, then the channels with what they hold.           *)
Configure ==
    /\ request = "decoded"
    /\ lock = NULL
    /\ lock' = "config"
    /\ request' = "opening"
    /\ cfg' = memory
    /\ at' = 1
    /\ good' = TRUE
    /\ sync' = {}
    /\ open' = open \ ChannelsOf(segments)
    /\ sending' = [ch \in Channels |->
                     IF ch \in ChannelsOf(segments) THEN <<>> ELSE sending[ch]]
    /\ segments' = <<>>
    /\ UNCHANGED <<memory, view, initialized, enabled, frame>>

Opening == request = "opening" /\ at \in DOMAIN cfg.strips
Strip == cfg.strips[at]
Usable == Strip.pin \in Allowed

(* A pin that may not be used makes the status an error.                     *)
Refuse ==
    /\ Opening
    /\ ~Usable
    /\ at' = at + 1
    /\ good' = FALSE
    /\ UNCHANGED <<memory, view, cfg, initialized, enabled, lock, request,
                   driver, sending, frame>>

(* Nothing to open: another driver, or the segment is there already.         *)
Skip ==
    /\ Opening
    /\ Usable
    /\ ~cfg.rmt \/ Strip.pin \in Pins(segments)
    /\ at' = at + 1
    /\ UNCHANGED <<memory, view, cfg, initialized, good, enabled, lock, request,
                   driver, sending, frame>>

(* rmt_driver_init_segment takes a free channel and allocates the buffer.    *)
Open ==
    /\ Opening
    /\ Usable
    /\ cfg.rmt
    /\ Strip.pin \notin Pins(segments)
    /\ \E ch \in Channels \ open :
         /\ open' = open \union {ch}
         /\ segments' = Append(segments, [pin |-> Strip.pin, ch |-> ch,
                                          size |-> Strip.leds])
    /\ at' = at + 1
    /\ UNCHANGED <<memory, view, cfg, initialized, good, enabled, lock, request,
                   sync, sending, frame>>

(* No channel is free, the encoder cannot be made or the channel not         *)
(* enabled: what was made is given back.                                     *)
(* Mutation: a channel that cannot be enabled is kept.                       *)
OpenFailLeaks ==
    /\ Opening
    /\ Usable
    /\ cfg.rmt
    /\ Strip.pin \notin Pins(segments)
    /\ \E ch \in Channels \ open : open' = open \union {ch}
    /\ at' = at + 1
    /\ good' = FALSE
    /\ UNCHANGED <<memory, view, cfg, initialized, enabled, lock, request,
                   segments, sync, sending, frame>>

OpenFail ==
    /\ Opening
    /\ Usable
    /\ cfg.rmt
    /\ Strip.pin \notin Pins(segments)
    /\ at' = at + 1
    /\ good' = FALSE
    /\ UNCHANGED <<memory, view, cfg, initialized, enabled, lock, request,
                   driver, sending, frame>>

(* The first strips, as many as outputs are to send together.                *)
Together == SubSeq(cfg.strips, 1,
                   Lesser(cfg.parallel, Lesser(Len(cfg.strips), Cardinality(Channels))))

(* rmt_driver_init_parallel_mode over these, if each has its segment; its    *)
(* failure is not one of configure_driver.                                   *)
Synced ==
    IF /\ cfg.rmt
       /\ Len(Together) > 1
       /\ Pins(Together) \subseteq Pins(segments)
    THEN {{}, {segments[Of(p)].ch : p \in Pins(Together)}}
    ELSE {{}}

Configured ==
    /\ request = "opening"
    /\ at \notin DOMAIN cfg.strips
    /\ sync' \in Synced
    /\ initialized' = good
    /\ lock' = NULL
    /\ request' = "none"
    /\ UNCHANGED <<memory, view, cfg, at, good, enabled, segments, open, sending,
                   frame>>

(* set_enabled: at boot with autostart, by the web server and by MQTT.       *)
Switch ==
    /\ lock = NULL
    /\ enabled' = ~enabled
    /\ UNCHANGED <<memory, view, config, lock, request, driver, sending, frame>>

-----------------------------------------------------------------------------
(* The render task.                                                          *)

(* The loop copies the strips of the live AppConfig.                         *)
Look ==
    /\ lock # "render"
    /\ view' = memory.strips
    /\ UNCHANGED <<memory, config, enabled, lock, request, driver, sending, frame>>

(* What the loop asks for: a whole strip, or the part of it that is member   *)
(* of a virtual segment; given is the length of the frame it passes.         *)
Parts(s) ==
    {[start |-> 0, length |-> s.leds, given |-> s.leds]} \union
    {[start |-> i, length |-> n, given |-> n] : i \in 0..s.leds, n \in 1..s.leds}
Fits(s, p) == p.start < s.leds /\ p.start + p.length <= s.leds

(* The checks of render_frame and rmt_driver_render that lead to a frame; a  *)
(* call that fails one changes nothing.                                      *)
Accepted(s, p) ==
    /\ initialized
    /\ enabled
    /\ cfg.rmt
    /\ p.start < s.leds
    /\ s.pin \in Pins(segments)
    /\ p.given >= p.start + p.length

(* The buffer is enlarged for a strip that is longer than the segment.       *)
(* Mutation: the buffer is left at the size it was opened with.              *)
FittedNever(size, s, p) == size
(* Mutation: the buffer is made as long as the part that is drawn.           *)
FittedToPart(size, s, p) == p.start + p.length
Fitted(size, s, p) == IF size < s.leds THEN s.leds ELSE size

(* From render_frame's lock to the copy into the buffer and the segment's    *)
(* handles; only the chip runs meanwhile.                                    *)
Fill(s, p) ==
    /\ lock = NULL
    /\ Fits(s, p)
    /\ Accepted(s, p)
    /\ lock' = "render"
    /\ segments' = [segments EXCEPT ![Of(s.pin)].size = Fitted(@, s, p)]
    /\ frame' = [ch |-> segments[Of(s.pin)].ch, pin |-> s.pin,
                 to |-> p.start + p.length, size |-> s.leds]
    /\ UNCHANGED <<memory, view, config, enabled, request, open, sync, sending>>

(* rmt_transmit waits for a place in the channel's queue.                    *)
Transmit ==
    /\ frame # NULL
    /\ Len(sending[frame.ch]) < QueueDepth
    /\ sending' = [sending EXCEPT ![frame.ch] = Append(@, frame.size)]
    /\ frame' = NULL
    /\ lock' = NULL
    /\ UNCHANGED <<memory, view, config, enabled, request, driver>>

TransmitFail ==
    /\ frame # NULL
    /\ frame' = NULL
    /\ lock' = NULL
    /\ UNCHANGED <<memory, view, config, enabled, request, driver, sending>>

Render ==
    \/ Look
    \/ \E s \in Range(view) : \E p \in Parts(s) : Fill(s, p)
    \/ Transmit
    \/ TransmitFail

-----------------------------------------------------------------------------
(* The chip: a channel on its own, or all of a sync manager's, which start   *)
(* when each of them has something to send.                                  *)
Sent ==
    \E group \in {sync} \union {{ch} : ch \in Channels \ sync} :
      /\ group # {}
      /\ \A ch \in group : sending[ch] # <<>>
      /\ sending' = [ch \in Channels |-> IF ch \in group THEN Tail(sending[ch])
                                         ELSE sending[ch]]
      /\ UNCHANGED <<memory, view, config, enabled, lock, request, driver, frame>>

Web ==
    \/ \E c \in Configs : Decode(c)
    \/ NotApplied
    \/ Configure
    \/ Refuse
    \/ Skip
    \/ Open
    \/ OpenFail
    \/ Configured

Next == Web \/ Switch \/ Render \/ Sent

Spec == Init /\ [][Next]_vars
-----------------------------------------------------------------------------
(* Channels are neither leaked nor shared: those that exist are the driver's *)
(* segments', one each, whatever step of opening one failed and however      *)
(* often the configuration changed; transmissions, the sync manager and the  *)
(* frame on its way are on channels that exist, and an engine that says it   *)
(* is initialised has a channel for every strip (rmt_driver.cpp:197, 357,    *)
(* 375, led_engine.cpp:61).                                                  *)
Owned ==
    /\ open = ChannelsOf(segments)
    /\ \A i, j \in DOMAIN segments :
         i # j => /\ segments[i].ch # segments[j].ch
                  /\ segments[i].pin # segments[j].pin
    /\ sync \subseteq open
    /\ \A ch \in Channels : sending[ch] # <<>> => ch \in open
    /\ frame # NULL => /\ frame.pin \in Pins(segments)
                       /\ frame.ch = segments[Of(frame.pin)].ch
    /\ initialized /\ lock # "config" /\ cfg.rmt
         => Pins(cfg.strips) = Pins(segments)

(* No frame leaves its buffer: neither the copy of a part into the buffer    *)
(* nor a transmission from it reaches past its end, although strips are      *)
(* drawn with lengths other than those the buffers were allocated for        *)
(* (rmt_driver.cpp:281-288, 322, 348).                                       *)
InBuffer ==
    \A i \in DOMAIN segments :
      /\ \A n \in Range(sending[segments[i].ch]) : n <= segments[i].size
      /\ frame # NULL /\ frame.ch = segments[i].ch
           => frame.to <= segments[i].size /\ frame.size <= segments[i].size

(* A buffer is reallocated while its channel sends from it, only when the    *)
(* strips drawn are not those configured, as in a request between decoding   *)
(* and update_config or one whose save failed, or when two of them use one   *)
(* output with different lengths (rmt_driver.cpp:285, wled_effects.cpp:1792).*)
Agreed ==
    /\ view = cfg.strips
    /\ \A s, t \in Range(view) : s.pin = t.pin => s.leds = t.leds
Moved ==
    \E i \in DOMAIN segments :
      /\ sending[segments[i].ch] # <<>>
      /\ \E j \in DOMAIN segments' :
           segments'[j].ch = segments[i].ch /\ segments'[j].size # segments[i].size
BufferStays == [][Moved => ~Agreed]_<<segments, sending>>
=============================================================================
