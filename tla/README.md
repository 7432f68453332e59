# LEDBrain: models, model checking and proofs

LEDBrain is firmware for an ESP32-P4 (C++ on ESP-IDF and FreeRTOS): it receives
audio from a Snapcast server, analyses it, renders effects and sends them to
WLED devices over DDP and to LED strips of its own.  An ESP32-C6 coprocessor
gives it WiFi when there is no Ethernet.  This directory holds TLA+ models of
its parts, the TLC configurations that check them and TLAPS proofs.

## The system

| component | source | state | operations | works with |
|---|---|---|---|---|
| Snapcast client | `components/snapclient_light/snapclient_light.cpp` | `s_running`, `s_task`, `s_cfg`; per connection `pcm_buffer` | start, stop; task: connect, receive, correct, analyse, reconnect | web server, app_main (callers), audio pipeline (metrics) |
| Effects runtime | `main/wled_effects.cpp` | `effects_`, `devices_`, `active_ddp_devices_`, `frame_cache_`, `ddp_addr_cache_`, `seq_` | update_config; task: snapshot, render, send, release | AppConfig (shared), discovery (status), DDP sender, LED engine |
| DDP sender | `main/ddp_tx.cpp` | `s_ddp_sock` | send a frame, packet by packet; test frame | effects runtime, app_main, WLED devices |
| Boot and network monitor | `main/main.cpp` | locals `eth_was_connected`, `wifi_was_active` | the boot's order; switch Ethernet/WiFi every 5 s | PPP link, control UART, mDNS |
| PPP link, control UART | `main/wifi_c6.cpp`, `main/wifi_c6_ctrl.cpp` | `s_initialized` (both), UART receive buffer | init, deinit, scan, connect, status | monitor, web server, coprocessor |
| Coprocessor firmware | `esp32c6_firmware/main/main.c` | WiFi mode, stored credentials, retries, web server | command handling, provisioning, PPP server | control UART |
| LED engine, RMT driver | `components/led_engine/led_engine.cpp`, `rmt_driver.cpp` | configuration, enabled flag, RMT channels and encoders | init, update_config, render_frame | effects runtime, web server, MQTT |
| Audio pipeline | `components/led_engine/audio_pipeline.cpp` | metrics, running flag | set_metrics, get_metrics, set_running | Snapcast client (writer), effects runtime (reader) |
| WLED discovery | `main/wled_discovery.cpp` | `s_status`, `AppConfig::wled_devices` | scan, merge, register by hand | web server, effects runtime |
| Configuration | `main/config.cpp` | `AppConfig`, NVS | load, apply JSON, save, deduplicate | everything |
| Web server, MQTT | `main/web_setup.cpp`, `main/mqtt_ha.cpp` | pointers to the above | handlers; `set` command | everything |
| OTA | `main/ota.cpp` | state, handle, sizes | update from URL, upload | web server |

The rest (effect rendering, colour and matrix helpers, SD card, temperature,
heartbeat, mDNS, the browser code) has no control state worth a model;
`esp-protocols`, `esp_dsp`, `mdns` and `managed_components` are vendored.

**What is hard.** The tasks are httpd (one handler at a time), `snapclient`
(core 1, priority 9), `wled_fx` (core 1, 8), `wled_scan`, `heartbeat`,
`net_monitor`, the MQTT event task, `ota_task` and app_main.  They share
`AppConfig` and a handful of statics, mostly without locks; tasks are stopped
by deleting them wherever they are; sockets, links and HTTP requests fail; what
one task remembers of the hardware another one may have changed.  The hazards
are listed at their lines in `PROJECT.json`.

**What makes each component correct.**

- Jitter buffer: it neither overflows nor starves, and the latency it reports
  is the configured one; it keeps left and right apart.
- Client life cycle: one client at most, none lost; stopped means gone; no
  socket lost; a started client reaches its server.
- Effects runtime: a bound device is served, an unbound one released; each
  device gets its own effect.
- DDP sender: packets tile the frame; the socket is neither lost nor doubled;
  the device shows whole frames in order.
- Network: WiFi exactly when there is no Ethernet, the stored network told, the
  name announced.
- Coprocessor: a command gets its own answer; a station that has been given a
  network keeps trying.
- Devices: each is listed once, at its address; bindings name devices there are.
- LED engine: outputs are neither leaked nor shared; frames stay in their buffers.
- Updates: one at a time; what is written is the file; only whole images boot.

## The modules

| module | models | state and actions |
|---|---|---|
| `SnapBuffer` | the receive loop of `snap_task` | `pcm`, `next`, `latency`, `metrics`; an action per way through an iteration: `RecvFilling` (below the window), `RecvSteady` (no correction due), `RecvAdjusting` (drift and latency corrected); `Connect`, `Disconnect` |
| `SnapBufferProofs` | | theorems about `SnapBuffer` |
| `SnapClient` | who starts and stops the client, and where the task is when it is deleted | `running`, `handle` (`s_running`, `s_task`), `task`, `lost` (sockets nobody closes), `call` (what each caller is doing); start is `StartCheck`, `StartCreate` or `StartFail`, stop is `StopFlag`, `StopDelete` (`StopSelf` if a start that failed meanwhile has cleared `s_task`); the calls of `app_main` and of the web server interleave at these steps, and `raced` remembers that they have; the task has an action per blocking point |
| `FxLoop` | `WledEffectsRuntime::task_loop` | `cfg`, `fx`, `snap` (the configuration, the runtime's copy, the loop's snapshot), `active`, `live`, `cache`, `loose` (devices whose release failed or that a virtual segment drove); an action per part of a round, and `Save`, `UpdateConfig`, `SaveFail` of the handlers |
| `VirtualSplit` | how the frame of a virtual segment is cut into its members' shares: operators, used by `FxLoop` | `Total` is the first pass over the members, `Cuts` the second |
| `DdpTx` | splitting a frame, the shared socket | `offset`, `packets`, `sock`, `open`, the device's `stored` and `shown`; an action per system call |
| `DdpDisplay` | the abstract specification of `DdpTx`: a device shows whole frames, one after the other | `shown` |
| `NetMonitor` | `app_main`, `network_monitor_task`, the web request to join a network | `eth`; the link: `wifi`, its address `ip`, its UART `ctrl`, `told`; `cred`, `mdns`; where boot, monitor and web request are; `ethWas`, `wifiWas`; each of the three is a process of its own with an action per call that waits |
| `OtaUpload` | `ota.cpp` and `api_ota_upload`: the updater task, the multipart parser, the partition to boot | `state`, `handle`, `written` (`s_state`, `s_ota_handle`, `s_written_size`), `slot` (the bytes in the partition, by their place in the upload), `boot`, `lo`, `got`, `inFile`, `timeouts` (the parser); `Receive` of any number of bytes, each way the upload can fail, `PowerCut` anywhere |
| `OtaPromise` | the abstract specification of `OtaUpload`: updates one after the other, and only a success changes what boots next | `state`, `boots` |
| `OtaUploadProofs` | | theorems about `OtaUpload`, among them that it implements `OtaPromise` |
| `C6Link` | `wifi_c6_ctrl.cpp` and the coprocessor's `main.c`, composed over a UART that loses and spoils lines | per caller `at`, `cmd`, `buf`; `alone` remembers who began on a quiet line; `toC6`, `rx` (the two directions of the line); the command task (`step`, `job`), `stored`, the station (`conf`, `sta`, `retries`), its boot and provisioning page |
| `DeviceBook` | the list of WLED devices in `AppConfig`, in NVS and in discovery's `s_status`, with the bindings that name its devices | `devs`, `bind`, `status`, `stored`; `web` and `scan` are the two tasks that change and save it, in two steps (`blob` is what is encoded and not yet written); requests to add, to delete by any id and address, to apply lists of devices and bindings, to reset |
| `LedEngine` | `led_engine.cpp` and `rmt_driver.cpp` between a web request that reconfigures them, the render task and the chip | `memory` (the live `AppConfig`), `view` (the loop's strips), `cfg`, `lock`, `segments`, `open`, `sync`, `sending`, `frame`; an action per segment opened, per way of failing, and for copy and transmission of a frame |
| `LedEngineProofs`, `DdpTxProofs`, `SnapClientProofs`, `NetworkProofs`, `FxLoopProofs`, `DeviceBookProofs` | | theorems about `LedEngine`, `DdpTx`, `SnapClient`, `C6Link` and `NetMonitor`, `FxLoop` (with `VirtualSplit`) and `DeviceBook` |
| `MCSnapBuffer`, `MCSnapClient`, `MCFxLoop`, `MCOtaUpload`, `MCDeviceBook`, `MCLedEngine` | | constants for TLC |

Definitions named `...` after a comment that begins with *Mutation* are
deliberate mistakes: variants of the definition that follows, with a plausible
bug.  Nothing uses them; replacing a definition by its variant must violate the
property `PROJECT.json` lists with it.

Choices made once, at the start, and never changed again are variables that
every action keeps (`responsive`, `lossy`, `testing`, `linkFails`, `coprocessor`): one run then
covers the friendly and the hostile environment, and a property that needs the
friendly one says so.

Data that no property distinguishes is abstracted: samples to the position they
had in the stream (modulo a stereo pair), frames to the effect, length and look
they were rendered from, payload chunks to their frame's number, the bytes of an upload to their
place in it, a line on the UART to the command it carries or answers, a name or
password that the coprocessor's parser cuts to one network that is not the one meant
(`Parsed`, `Garbled`).  Time is
abstracted to choices: whether 10 ms have passed, whether a delay ends.  One
timing fact is kept, in `SnapClient`: a delay of 0.5 s or more that begins
during the 50 ms of stop does not end in them (`fresh`).

## The runs

| run | checks | instance |
|---|---|---|
| `SnapBuffer_stream` | `TypeOK` `BufferWindow` `DelayWindow` `AnalysisFed` | frames of 3, cap 7, window 3 to 7 ms at one sample per ms, reads of any number of bytes; latencies 0 (the default), 1 (a window narrower than a frame), 12 (above the cap) |
| `SnapClient_life` | `TypeOK` `OneClient` `RunningMeansClient` `NoSocketLost` `ClientReaches` | two task identities, one server, two sockets; `app_main`'s start beside requests |
| `SnapClient_silent` | violates `StartMeansReaching` | the same; servers may be silent |
| `FxLoop_live` | `LiveTracked` `Released` `Served` | two devices, bindings that come, go and are disabled, a strip and a virtual segment that come and go, a configuration with nothing at all; sends, releases and saves fail |
| `FxLoop_rich` | `TypeOK` `OwnEffect` `OwnShare` | two devices, three strips of two lengths, strips that differ in their link to the audio, without effect and without assignment, cache of four; virtual segments with members of and without given length, on part of a strip, on one that is gone, on an unknown device, asking for too much; lengths counted modulo four |
| `DdpTx_frames` | `TypeOK` `Tiled` `OneSocket` `ShowsFrames` | packets of 4 bytes, payloads of 4, 8 and 9: one packet, two full ones, a remainder; two sockets, three frame numbers |
| `NetMonitor_switch` | `TypeOK` `WifiWithoutEth` `WifiOffWithEth` `NetworkTold` `NamedOnEthernet` | every way of plugging the cable, with and without coprocessor, link, UART and commands failing, the address lost, requests at any time |
| `OtaUpload_update` | `TypeOK` `OneUpdate` `WritesTheFile` `BootsWholeImages` `CompleteAccepted` `UpdateEnds` | uploads of 3 or 7 bytes, with and without a preamble, a length and a CR LF at the file's end; reads of 1 to 5 bytes |
| `C6Link_one` | `TypeOK` `OwnAnswer` `KeepsTrying` | one caller, a network whose name or password is cut, one retry; answers may come after the caller has given up |
| `C6Link_two` | violates `AnyAnswer` | two callers |
| `DeviceBook_still` | `OneEntry` `NoOrphans` `Settles` | two lamps, two addresses, any configuration one device can make at the start; one request (to delete with any id and address, to apply one of three lists of devices), move or incomplete scan and one restart, failing saves |
| `LedEngine_reconfigure` | `Owned` `InBuffer` `BufferStays` | three channels, queues of two, five configurations: a forbidden pin, one output twice, other lengths, another driver, parallel outputs |

**Why the bounds are enough.**  `SnapBuffer` keeps the proportions of the code
(a frame of 2048, a window of 48 to 72 ms at 96 samples per ms, a cap of 96000
samples): the window begins at or above one frame and is at least as wide as one;
the latencies add the cases where it is not.  The theorems remove the bounds
for its safety properties.  `SnapClient` needs one task more than the client
should use to show a second one, and two sockets to lose them one by one.
`FxLoop` needs two devices or strips to share a frame (a third strip is in the same
group but for its link to the audio), and its periods (1 or 2,
and 3) let every frame meet or miss the clearing and the cleanup.  `DdpTx` has every
kind of payload, and a second socket for one that is left open; frame
numbers modulo three tell the last frame, the current one and an older one
apart.  `NetMonitor` has no parameter to bound.  `OtaUpload`'s reads end before, inside and behind
every part of the stream, whose parts are longer and shorter than the reserve;
its theorems remove the bounds for the safety properties.  `C6Link` has a
network that the coprocessor's parser changes, so that what is understood differs
from what was asked (the provisioning page brings it unchanged), and a retry that can
be spent and left; a second command may be written while the first, given up by its
caller, is unread or being handled: lines pile up to two.
`DeviceBook` needs two lamps to exchange an address: `SentLists` of `MCDeviceBook` has
the list in which both are where the other one is, one that has a lamp twice and one
that has an address twice; each request meets every point of a scan and of the restart.  `LedEngine` has configurations that
ask for as many channels as there are, with three strips, and queues that fill.

**Fairness.**  Weak fairness of a task's steps: FreeRTOS schedules all tasks
that are ready, and those modelled block in every round.  Strong fairness where
an attempt is repeated and may fail: name resolution, connecting, creating a
task, setting up the link (`Resolve`, `Connected`, `StartCreate`,
`MonitorWifi`).  This says that what can succeed does so at one of infinitely
many attempts; it never makes a resource available that is not (no socket is
left: `Resolve` is not enabled).  `SnapBuffer` assumes that a server that is
connected goes on sending, and at least a sample at a time: one byte at a
time, which no TCP stack does, would starve the analysis.  An update from a URL
comes to its result (the HTTP client has a time limit), each receive of an
upload ends by data or time-out, and a restart that was asked for happens
(`OtaUpload`); the discovery task goes on scanning (`DeviceBook`).  Users are
under no fairness: nobody has to press a button.

## What the violations show

- `SnapClient_silent`: stop deletes a task that is blocked in `recv` or
  `connect`; its socket is never closed.  With a server that accepts or stalls
  silently every stop costs a socket, until none is left.
- `C6Link_two`: the web server's task and the one of `app_main` or the monitor
  may be in `send_command` at once; nothing locks the UART, so one of them reads
  (or flushes) the answer that was meant for the other.

Disagreements and limits met on the way, without a run of their own:

- The drift correction drops one `int16` (`snapclient_light.cpp:652`) where a
  stereo pair has two: left and right swap (`NudgeDrift`).
- A new Snapcast host or port is saved (`web_setup.cpp:1005`), but the running
  client keeps the old one, although `README.md:76` says that changes apply
  instantly; `snapclient_light_start` returns early while a task exists.
- With nothing else to render the effects loop rests (`wled_effects.cpp:1862`)
  before it reaches the code that releases devices: the last one stays live.
- The length of a virtual segment's frame counts a WLED member with all its LEDs,
  whatever length it is given (`wled_effects.cpp:2107-2108`), although the comment
  above (`2094`) says that this is for a length of zero; the shares go by the length
  given, so that a member with a length above its device's takes the LEDs of
  those behind it.  `OwnShare` holds for members that do not.  The sum is cut to 16
  bits.  A physical member whose strip is gone draws on the strip at its index.
- The frame cache and the groups of strips (`wled_effects.cpp:1665`, `2022`) ignore
  colours: of two bindings that differ in them only, one is shown with the other's.
- Groups of strips go by the link to the audio (`wled_effects.cpp:2023`), the cache
  does not (`2048`): of two groups that differ in it only, the second is shown the
  frame of the first.
- WiFi set up at boot is unknown to the monitor (`wifi_was_active`,
  `main.cpp:163`): when the cable is plugged between boot's wait and the monitor's
  first look, WiFi stays on next to Ethernet, although `IMPLEMENTATION_PLAN.md:8`
  wants it off.  The run has this case; `WifiOffWithEth` and the theorem
  `NoWifiNextToEthernet` speak of the time from when the monitor has known a link.
- If the link has no address 3 s after it was brought up at boot, or fails at boot
  and is brought up by the monitor (`main.cpp:203-213`), nothing ever calls
  `mdns_start`: a device on WiFi only is not found at `http://ledbrain.local`
  (`README.md:63`).  `NamedOnEthernet` says that it is once Ethernet comes.
- Without a coprocessor `eppp_connect` (`wifi_c6.cpp:59`) does not return: boot stays
  before discovery, client and effects, although `main.cpp:120` means to continue
  without WiFi (`coprocessor`, and `boot = "wifi"` for ever).
- A request to join a network may meet a link the monitor is taking down: the network
  is stored, and the next link is told the stored one, but when the monitor brings the
  link up between the command and the storing, the new network is told to nobody
  (`web_setup.cpp:264-276`).  `NetworkTold` and `LinkIsTold` except a request that
  stores while its command is lost.
- `CONNECT` is answered with OK whatever the coprocessor understood
  (`esp32c6_firmware/main/main.c:748-783`): the name ends at its first `|` or after
  31 characters, the password at its first `|` or after 63, and both begin at the first
  `SSID:` and `PASS:` of the line.  Such a network is joined as something else
  (`Parsed`); `OwnAnswer` says whose answer it is, not that the network was understood.
- A packet can carry the sequence number 0: a frame that begins at 15 sends its second
  packet with `16 & 0x0F` (`ddp_tx.cpp:85`, `202`), although `ddp_tx.cpp:31` and
  `wled_effects.cpp:527` say 1 to 15.  `Tiled` says what numbers there are.
- A latency of 1013 ms or more, which `config.cpp:660-663` lets pass, puts the
  window above the one second cap: nothing is analysed (`AnalysisFed` excludes
  it, `MCSnapBuffer` includes such a latency).
- A device whose release fails, or that a virtual segment drove, stays live and is
  forgotten (`wled_effects.cpp:1995`, `2146`): `loose` counts these, and `LiveTracked`
  excepts them.
- `OneSocket` is false while app_main sends a test frame.
- The web server takes requests (`main.cpp:87`) before `app_main` starts the client
  (`main.cpp:126`).  Both may find `s_task` unset and create a client each; one is then
  out of reach.  A stop whose 50 ms end after a start that failed has cleared `s_task`
  calls `vTaskDelete(nullptr)`: the web server's task deletes itself (`StopSelf`).
  `OneClient` and `RunningMeansClient` are about times when no call has stepped into
  another since boot (`raced`).
- The task function of the client returns after its loop, which FreeRTOS answers
  with an abort; `Exit` and `Reboot` model it.
- The client is not stopped when the effects are switched off by MQTT.
- The handler of the firmware upload is not registered with the web server,
  although `README.md:62` offers uploads; `OtaUpload` models it as if it were.
- Between the success of an upload and the restart (`ota.cpp:188`, half a second)
  the state admits another update, which erases the partition that is set to
  boot; `BootsWholeImages` needs `PromptRestart`.  A file that ends in CR LF loses
  that end with the end marker's (`web_setup.cpp:1328`).  After a failing
  `esp_ota_set_boot_partition` a handle stays that has been ended already.
- The coprocessor's retry counter is reset by an address only, and no interface
  that could get one is created while the access point is kept: its retries are
  spent once in its life (`KeepsTrying` says so).  The provisioning handler
  (`main.c:488`) stops the web server whose task it runs in.
- An answer to a scan that has other text in it makes `std::stoi` throw
  (`wifi_c6_ctrl.cpp:176-205`), and the device restarts (`Throws`).
- The save of a scan and the save of a request may overlap: what is in NVS then
  lacks one of the changes until the next save (`wled_discovery.cpp:408`).  A
  device that has been deleted comes back with the next scan that sees it.  An
  entry for an absent device takes the address of a lamp that moved to it.
- A device is deleted by id or by address, its binding only by the texts of the request
  (`web_setup.cpp:847-871`).  The page sends the id of discovery's list
  (`app.js:1219-1225`, `3613-3615`), which may be the address: the device goes, and the
  binding that names it by its MAC stays, although the comment (`864`) says that
  bindings are removed too.
- A list of devices that a request brings (`wled_devices`) is deduplicated by address
  only (`config.cpp:106-130`): an id may come in twice.
- A strip made longer is drawn before `update_config`, or although the save
  failed: its buffer is reallocated while the chip sends from it
  (`rmt_driver.cpp:285`; `BufferStays` says when).
- One strip with a forbidden pin makes the engine uninitialised and all strips
  dark.  The part of a strip that a virtual segment draws is refused unless it
  begins at zero: the frame passed has the part's length, the driver asks for
  everything before it too (`rmt_driver.cpp:277`).
- When a member of the sync manager is not drawn, the others wait, and once a
  queue is full the render task waits with the engine's mutex held.

## Proofs

`SnapBufferProofs` proves, for every frame size, cap, rate, margin, set of
latencies and read unit that satisfy the assumptions of `SnapBuffer` (a frame
fits under the cap; the rate is positive; the rest are naturals):

- `TypeCorrect`: `Spec => []TypeOK`
- `BufferStaysInWindow`: `Spec => []BufferWindow`
- `LatencyStaysBounded`: `Spec => []LatencyBounded`
- `DelayStaysInWindow`: `Spec => []DelayWindow`
- `EachReadFeeds`: `Spec => [][Feeds]_vars`, the safe kernel of `AnalysisFed`: a
  read is kept whole or a frame is analysed, if the window begins between a frame
  and the cap.  With `BufferStaysInWindow` this bounds the bytes between two frames

The inductive invariant is `IInv`: the three of `TypeOK`, `BufferWindow` and
`LatencyBounded` together.  None is inductive alone.  A read adds at most a
frame (`Received`); if the level then reaches the window, at least a frame is
consumed unless there is less than one; so the level between two reads returns below
the larger of window and frame — and only because it was below it before is the
published level bounded above.  The lower bound needs that trimming takes at
most what exceeds the target and at most a quarter, and the drift correction at
most one sample.  The lemmas about `DropFront`, `Push`, `NudgeDrift` and
`TrimLatency` give their lengths and that they keep positions; the theorem that
a step keeps `IInv` has one step per action.  `DelayWindow` follows from
`LatencyBounded` and the widths by arithmetic.

`OtaUploadProofs` proves, for every set of uploads, length of the marker, greater
reserve, chunk size and limit of time-outs (`LengthsAssumption`,
`StreamsAssumption`):

- `TypeCorrect`: `Spec => []TypeOK`
- `OneUpdateAtATime`: `Spec => []OneUpdate`
- `UploadWritesTheFile`: `Spec => []WritesTheFile`
- `CompleteIsAccepted`: `Spec => []CompleteAccepted`
- `OnlyWholeImagesBoot`: `Spec => []BootsWholeImages`, if `PromptRestart`
- `KeepsPromise`: `Spec => Promise!Spec`, if `PromptRestart`: the safety of `OtaPromise`,
  what boots next being the running firmware or, once it is set and whole, the image
- `UploadAdvances`: the safe kernel of `UpdateEnds`: each step of the handler ends
  the upload or makes `Left`, which `MostSteps` bounds, smaller

The inductive invariant `Inv` has, besides `TypeOK` and `OneUpdate`: `Parsed` (the
bytes written are the file's first, the accumulated data continues them, and
before the end marker has been seen it is not behind the file's end), `Judged`
(`CompleteAccepted`), and `RestartDue` (after a success, with a whole image in
the partition, nothing but the restart is under way).  The heart of the argument is
`FileDataParsed`: the reserve is longer than the marker, so what is passed on
ends before the marker begins as long as the marker has not been seen; once it
has been seen, cutting off the CR LFs before it ends at the file's end
(`CutEndBounds`).  `BytesConcatenate` and `BytesPrefix` are the facts about
sequences that make consecutive writes one piece of the file.  `KeepsPromise` maps each
step with `PromiseStep`: because of `RestartDue` nothing that writes to the partition
runs while it is set to boot, so only `UrlDone` and `Done` change what boots next,
and a set partition that is not whole (`"broken"`, which the promise does not know)
is never met.  `Left` counts a byte that is missing as `MaxTimeouts + 1` steps, from which
the time-outs since the last byte are taken off.

`LedEngineProofs` proves, for every set of channels and of configurations, every
set of allowed pins and every depth of queue (`ConfigsAssumption`,
`DepthAssumption`, `NullAssumption`):

- `OutputsOwned`: `Spec => []Owned`
- `FramesInBuffers`: `Spec => []InBuffer`
- `BuffersStay`: `Spec => BufferStays`

`Inv` is, besides the types, `Owned` (as `Channel`, `OnItsWay` and `Complete`),
`InBuffer`, and what these lean on: `Locks` (a request is opening segments exactly
while the mutex is its own, and a frame is on its way exactly while the render task
has it; so no segment is opened under a frame), `Opened` (as long as nothing failed
and the driver is RMT, the outputs that have a segment are those of the strips gone
through, which is what makes an engine that says it is initialised complete), and
`Sized` (a segment is at least as long as some strip configured on its output, since
it is opened for one and only ever grows).  `BuffersStay` is `Sized` at work: a
buffer that is moved was shorter than the strip drawn, hence shorter than every
strip configured on that output if strips drawn and configured agree.
`FilledSegments` and `OpenedSegments` say what a frame and a newly opened output
make of the segments.

`DdpTxProofs` proves, for every size of payload and of packet, every set of
sockets and every number of frame numbers from two on:

- `TypeCorrect`: `Spec => []TypeOK`
- `PacketsTile`: `Spec => []Tiled`
- `NoSocketForgotten`: `Spec => []OneSocket`
- `ShowsWholeFrames`: `Spec => Display!Shows`, if `TwoSockets`

The first three rest on `Built` (the packets so far are consecutive and end at
`offset`, at a multiple of `Chunk` without a push while the frame is unfinished, at
its size with one push when it is done) and `Single` (with one sender, a socket is
created only when none is open).  The last is the step simulation of the refinement
that `DdpTx_frames` checks with its fairness: `Smooth` says that without losses no
sender ever meets a closed socket, `Pictured` that the device has the packets sent
so far and shows the frame before; the arithmetic that puts a packet at its place
is in `PieceOf`.  It needs a socket for either sender (`TwoSockets`): with a single
one, `app_main`'s test frame may find `s_ddp_sock` unset, fail to get the socket that
the render task has just got, and overwrite `s_ddp_sock` with its failure.

`SnapClientProofs` proves, for every set of tasks and servers and every number of
sockets, with `app_main`'s start beside the requests:

- `SocketsBounded`: `Spec => []TypeOK`
- `OneClientAtATime`: `Spec => []OneClient`
- `RunningTellsTheTruth`: `Spec => []RunningMeansClient`
- `StreamingStopsClean`: `Spec => []NoSocketLost`
- `NeverOutOfSockets`: `Spec => []SocketLeft`, the safe half of `ClientReaches`: a client of
  servers that answer finds a socket whenever it wants one, unless calls met halfway
- `EndsOnlyWhenTold`: the client's function returns, with the abort that follows,
  only between the two steps of a stop, unless calls met halfway

None is inductive alone.  What holds whatever meets is in `Basic`: sockets are counted,
and a client that is settled has none.  The rest is `Single`, which holds until a call
has stepped into another (`raced`): `Turns` makes the two steps of a start and of a
stop one after the other; `Truthful`
says what `s_running` and `s_task` are between and during calls; `Named` that a live
task is `s_task` until its function returns; `Held` where a task has a socket.  With
one task, the sockets in use are those lost and at most one more (`Counting`).

`NetworkProofs` proves of `C6Link`, for every set of callers and of networks, whatever of
these the parser changes, and every number of retries:

- `TypeCorrect`: `Spec => []TypeOK`
- `AnswersAreOwn`: `Spec => []OwnAnswer`: of a call that began on a quiet line and that no
  other has disturbed since (`alone`)
- `StationKeepsTrying`: `Spec => []KeepsTrying`
- `ConnectIsUnderstood`: `Spec => [][Connecting => Understood]_vars`: a `CONNECT` is answered
  only when the station's configuration is what the coprocessor made of the command's
  network, and if a caller is alone this command is its own

Commands carry no number, so `OwnAnswer` rests on turns: `Turn` says that while a caller
is alone its command is the only one, on the line, being handled or answered, one after
the other and only while it waits, so that clearing the receive buffer before a command
leaves nothing of earlier calls; what answers positively, on the line or read, answers
its command (a spoiled one is answered by an error).  A caller that begins while an
earlier command is unread or unanswered, or beside another caller, may be given the
answer of that one: for these `AnyAnswer` is false (`C6Link_two`).  `KeepsTrying` needs
`Started`: commands are handled only after `app_main` has loaded the stored network,
what is started is a `CONNECT`, and nothing changes the station's configuration between
the two steps of handling it.

Of `NetMonitor` it proves, with and without coprocessor:

- `NetTypeCorrect`: `Spec => []TypeOK`
- `MonitorKnows`: `Spec => []KnowsWifi`: if the monitor holds WiFi to be active, the link is
  set up and it has not noted Ethernet
- `NoWifiNextToEthernet`: `Spec => [](wifiWas => [](ethWas => ~wifi))`, the safe half of
  `WifiOffWithEth`: from when the monitor has known a link, none is up while it has
  Ethernet noted
- `LinkIsTold`: `Spec /\ []SavesTold => []LinkTold`, the safe half of `NetworkTold`

`NetInv` is the types, `KnowsWifi` and `Reaches`, which says how boot hands over to the
monitor: until boot has ended the monitor has noted nothing, and it sets up a link only
without Ethernet noted.  A link of boot's own is not among what it knows; `AllKnown`,
that every link is one the monitor knows of, holds from its first link on and is kept by
every step, the web server's included, which never sets up a link.

`FxLoopProofs` proves, for every set of configurations (`ConfigAssumption`: what
their fields are), LED counts (`LengthAssumption`), cache limit and periods:

- `TypeCorrect`: `Spec => []TypeOK`
- `OwnEffectHolds`: `Spec => []OwnEffect`
- `OwnShareHolds`: `Spec => []OwnShare`
- `LiveTrackedHolds`: `Spec => []LiveTracked`
- `BoundStayLive`: no step takes a device out of live mode while an enabled
  binding of the snapshot leads to it (`Spec => [][BoundKept]_vars`)
- `RoundServesAll`: `Spec => []RoundServes`, the safe half of `Served`: a round
  that has gone through its bindings has each device with a drivable one among those it
  remembers and, if sends do not fail, in live mode
- `RoundForgetsAll`: `Spec => []RoundForgets`, the safe half of `Released` in what the loop
  remembers: no device once it has seen no enabled binding, and after a cleanup none
  without one; `UnboundReleased` (`Spec => []UnboundDark`) says it of the devices in live
  mode but those in `loose`

`FxInv` has, besides the types, that the cache is finite and within its limit
(`Caching`), which needs that the groups of strips, and so the frames rendered for them, are
finitely many (`FreshFinite`), and `OwnEffect`, whose proof is that a frame from the cache is of
the effect and length it was looked up by (`FrameFits`), and that a strip's group
has the strip's effect (`LocalShows`).  `OwnShare` is about two recursions over the
members, for any number of them: `SharesFit` shows by induction that with
modest members a share never ends behind the sum of the lengths so far, so that the
total is not reached before the last member, and `FrameNat` that this total is
the frame's length while it does not overflow.  `LiveTracked` is inductive by
itself, as `loose` has what is forgotten while live; `RoundServes` is together with the
same about the bindings gone through so far (`SoFar`).

`DeviceBookProofs` proves, for every set of addresses, every finite set of lamps and all bounds:

- `OneEntryHolds`: `Spec => OneEntry`, an action property
- `NoOrphansHolds`: `Spec => NoOrphans`, another, for requests with any id and address
- `ReadOnce`: what `Decoded` makes of a configuration of any length
- `MergeShowsFound`: `Spec => [][MergeShows]_vars`; after a merge discovery's own list has no
  address twice, and has every address the scan has found

`OneEntry` is about every copy of the list: the one in memory, the one in NVS, and what each
task has encoded and not yet written, since a restart reads one of these.
`KnownGood` shows by induction over the devices found that merging them keeps the
list free of doubles and loses no id (`UpsertGood`, `Moved`, `Added`): the first
match by id or address gets the address, and only without a match is a
device added.  `KeptGood` says what is left when devices are taken out: no double comes
in, and what reading deduplicates has none by address.  So a double comes in only by a
request's list that has it (`BringsDouble`).
`NoOrphans` needs that merging loses no id, that a restart and a request to apply prune
the bindings (`Pruned`), and of a request to delete that it takes the binding with the
device unless it names the device's address and not its id (`ByAddress`).
`MergeShowsFound` needs that what a scan has found agrees where each device is
(`Coherent`): an entry noted in a merge is overwritten, if at all, by one with its address
(`NoteMarks`).  The configuration's list has no such guarantee, since
`Upsert` keeps the id of the entry it changes; it only gets there in the end (`Settles`).

Both modules define their recursions as functions.  That these are defined at all
(`Recursion`) and what they compute (`KeptPicks`, `KnownGood`, `SumGrows`,
`SharesFit`) is proved with `Induction`, which speaks of a set of numbers instead of a
predicate and follows from the library's theorem that inclusion among finite sets
of numbers is well-founded (`LeastNat`).

Only model-checked, because the provers do not reach liveness under fairness:
`AnalysisFed`, `ClientReaches`, `Released`, `Served`, the liveness of
`ShowsFrames`, `WifiWithoutEth`, `WifiOffWithEth`, `NetworkTold`, `NamedOnEthernet`,
`UpdateEnds` and `Settles`.  What of these can be said without fairness
is proved: that the resource is there or the flag is right when the step that matters is
taken (`NeverOutOfSockets`, `NoWifiNextToEthernet`, `LinkIsTold`, `RoundServesAll`, `RoundForgetsAll`, `ShowsWholeFrames`) or that a measure falls
(`UploadAdvances`, `EachReadFeeds`); that the step is taken at all is for TLC.
Every invariant and action property the passing runs check is also a theorem.

## Not modelled

Pixels, FFT and beat detection, JSON and NVS encoding, pins and registers; the
wait of the render loop for the audio time; the components marked *not_modelled* in `PROJECT.json`.  Data
races on `AppConfig` are modelled at the granularity of a handler and of a part
of the loop's round, not of a memory access: the vectors' memory, and the copy
of a frame into a buffer that is being sent (tearing), are left out.  The
network of the coprocessor's access point and PPP traffic are left out of
`C6Link`; of a read on its UART only the commands it returns are kept, and a read is
taken to return as soon as there is something.  `stop` of the effects runtime,
`rmt_driver_render_parallel` and `rmt_driver_deinit_segment` are never called.

Most lines of the repository are not the program's own: `components/mdns`,
`components/esp-protocols`, `components/esp_dsp` and `managed_components` are
libraries.  Of its own code the control flow of each task is modelled; what
remains is mostly conversion (JSON, HTTP responses, pixels).

## Plan

1. `SnapClient` with `SnapBuffer` and the audio pipeline: what the render loop
   sees after a stop.
