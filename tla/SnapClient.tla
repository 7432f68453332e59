----------------------------- MODULE SnapClient -----------------------------
(***************************************************************************)
(* The life of the Snapcast client task: who starts and stops it, what it  *)
(* is doing when it is deleted, and what it keeps connected to.            *)
(*                                                                         *)
(* Callers are the HTTP server's task (its handlers run one at a time) and *)
(* app_main, which starts the client at boot when the web server already   *)
(* takes requests: nothing keeps their calls apart.  Stop clears           *)
(* s_running, waits 50 ms and deletes the task wherever it is.  A delay of *)
(* the task (1.5 s, 0.5 s) that begins within these 50 ms does not end in  *)
(* them (fresh); one that began before may.                                *)
(***************************************************************************)
EXTENDS Naturals, FiniteSets

CONSTANTS
  Tasks,          (* task identities                                        *)
  Hosts,          (* Snapcast servers the user may configure                *)
  MaxSockets,     (* sockets the network stack can hand out to this client  *)
  Autostart,      (* the effects are on at boot (AppConfig::autostart)      *)
  NULL

ASSUME SocketsAssumption == MaxSockets \in Nat /\ MaxSockets > 0
ASSUME FlagsAssumption   == Autostart \in BOOLEAN
ASSUME NullAssumption    == NULL \notin Tasks \cup Hosts

VARIABLES
  responsive,(* the servers answer and stream within stop's 50 ms; never    *)
             (* changes                                                     *)
  cfg,       (* led_engine.audio: [snapcast (the source), enabled, host]    *)
  led,       (* effects enabled                                             *)
  forced,    (* g_audio_force_disabled: audio disabled by hand              *)
  running,   (* s_running                                                   *)
  handle,    (* s_task                                                      *)
  host,      (* s_cfg.host, the client's copy                               *)
  task,      (* [at: where the task is, sock: its server, fresh]            *)
  lost,      (* sockets of deleted tasks, which nothing closes              *)
  call,      (* what each caller is doing                                   *)
  raced,     (* since boot a call took a step in the middle of another      *)
  panicked   (* a task function returned: FreeRTOS aborts                   *)

vars == <<responsive, cfg, led, forced, running, handle, host, task, lost, call, raced,
          panicked>>

Callers == {"httpd", "main"}
Configs == [snapcast : BOOLEAN, enabled : BOOLEAN, host : Hosts \cup {NULL}]

NoTask == [at |-> "none", sock |-> NULL, fresh |-> FALSE]
Alive(t) == task[t].at # "none"
Midway(c) == call[c] \in {"create", "wait"}
Stopping == \E c \in Callers : call[c] = "wait"

Used == lost + Cardinality({t \in Tasks : task[t].sock # NULL})

-----------------------------------------------------------------------------
(* Boot: app_main has the stored configuration and is about to start the   *)
(* client if the source is Snapcast and enabled.                           *)

BootCall == IF cfg.snapcast /\ cfg.enabled THEN "start" ELSE "idle"

Init ==
  /\ responsive \in BOOLEAN
  /\ cfg \in Configs
  /\ led = Autostart
  /\ forced = FALSE
  /\ running = FALSE
  /\ handle = NULL
  /\ host = NULL
  /\ task = [t \in Tasks |-> NoTask]
  /\ lost = 0
  /\ call = [c \in Callers |-> IF c = "main" THEN BootCall ELSE "idle"]
  /\ raced = FALSE
  /\ panicked = FALSE

(* The watchdog restarts the chip: only the configuration is kept.         *)
Reboot ==
  /\ panicked
  /\ panicked' = FALSE
  /\ raced' = FALSE
  /\ led' = Autostart
  /\ forced' = FALSE
  /\ running' = FALSE
  /\ handle' = NULL
  /\ host' = NULL
  /\ task' = [t \in Tasks |-> NoTask]
  /\ lost' = 0
  /\ call' = [c \in Callers |-> IF c = "main" THEN BootCall ELSE "idle"]
  /\ UNCHANGED <<responsive, cfg>>

-----------------------------------------------------------------------------
(* Requests.                                                               *)

Request(what) ==
  /\ ~panicked
  /\ call["httpd"] = "idle"
  /\ call' = [call EXCEPT !["httpd"] = what]
  /\ UNCHANGED raced

(* The call a request to switch on or off makes.                           *)
SwitchCall(on) ==
  IF ~cfg.snapcast THEN "idle"
  ELSE IF ~on THEN "stop"
  ELSE IF cfg.enabled THEN "start" ELSE "idle"

(* POST /api/led/state.                                                    *)
LedState(on) ==
  /\ Request(SwitchCall(on))
  /\ led' = on
  /\ UNCHANGED <<responsive, cfg, forced, running, handle, host, task, lost, panicked>>

(* POST /api/audio/state.                                                  *)
AudioState(on) ==
  /\ Request(SwitchCall(on))
  /\ forced' = ~on
  /\ UNCHANGED <<responsive, cfg, led, running, handle, host, task, lost, panicked>>

(* POST /api/led/save: stores a new configuration and hands it to the LED  *)
(* and effect runtimes, not to the client.                                 *)
SaveLed(c) ==
  /\ Request("idle")
  /\ cfg' = c
  /\ UNCHANGED <<responsive, led, forced, running, handle, host, task, lost, panicked>>

(* A command on the MQTT topic <base>/set.                                 *)
MqttSet(on) ==
  /\ ~panicked
  /\ led' = on
  /\ UNCHANGED <<responsive, cfg, forced, running, handle, host, task, lost, call, raced,
                 panicked>>

-----------------------------------------------------------------------------
(* snapclient_light_start and snapclient_light_stop.                       *)

(* Start is halfway between its look at s_task and the new task, stop      *)
(* between its request and the deletion.                                   *)
Become(c, step) ==
  /\ call' = [call EXCEPT ![c] = step]
  /\ raced' = (raced \/ \E d \in Callers \ {c} : Midway(d))

(* Start copies the configuration and looks for a task.                    *)
StartCheck(c) ==
  LET refused == ~cfg.enabled \/ cfg.host = NULL
      create  == ~refused /\ handle = NULL
  IN  /\ ~panicked
      /\ call[c] = "start"
      /\ host' = cfg.host
      /\ Become(c, IF create THEN "create" ELSE "idle")
      /\ running' = (create \/ running)
      /\ UNCHANGED <<responsive, cfg, led, forced, handle, task, lost, panicked>>

(* Start creates the task.                                                 *)
StartCreate(c) ==
  /\ ~panicked
  /\ call[c] = "create"
  /\ \E t \in Tasks :
       /\ ~Alive(t)
       /\ task' = [task EXCEPT ![t].at = "outer"]
       /\ handle' = t
  /\ Become(c, "idle")
  /\ UNCHANGED <<responsive, cfg, led, forced, running, host, lost, panicked>>

(* Mutation: a failed start still counts as running.                       *)
StartFailUnnoticed(c) ==
  /\ ~panicked
  /\ call[c] = "create"
  /\ handle' = NULL
  /\ Become(c, "idle")
  /\ UNCHANGED <<responsive, cfg, led, forced, running, host, task, lost, panicked>>

(* Start could not create the task (out of memory).                        *)
StartFail(c) ==
  /\ ~panicked
  /\ call[c] = "create"
  /\ running' = FALSE
  /\ handle' = NULL
  /\ Become(c, "idle")
  /\ UNCHANGED <<responsive, cfg, led, forced, host, task, lost, panicked>>

(* Stop asks the task to end.                                              *)
StopFlag(c) ==
  /\ ~panicked
  /\ call[c] = "stop"
  /\ running' = FALSE
  /\ Become(c, IF handle = NULL THEN "idle" ELSE "wait")
  /\ UNCHANGED <<responsive, cfg, led, forced, handle, host, task, lost, panicked>>

(* Where a task can be 50 ms after stop's request, if servers answer.      *)
Settled(t) == task[t].at \in {"retry", "pause"}

(* Mutation: stop forgets the task and leaves it to end by itself.         *)
StopForget(c) ==
  /\ ~panicked
  /\ call[c] = "wait"
  /\ handle # NULL
  /\ handle' = NULL
  /\ Become(c, "idle")
  /\ UNCHANGED <<responsive, cfg, led, forced, running, host, task, lost, panicked>>

(* Stop deletes the task: a socket it had open stays allocated.            *)
StopDelete(c) ==
  /\ ~panicked
  /\ call[c] = "wait"
  /\ handle # NULL
  /\ responsive => Settled(handle)
  /\ lost' = IF task[handle].sock = NULL THEN lost ELSE lost + 1
  /\ task' = [task EXCEPT ![handle] = NoTask]
  /\ handle' = NULL
  /\ Become(c, "idle")
  /\ UNCHANGED <<responsive, cfg, led, forced, running, host, panicked>>

(* A start that failed meanwhile has cleared s_task: vTaskDelete deletes   *)
(* the task that calls it, for good.                                       *)
StopSelf(c) ==
  /\ ~panicked
  /\ call[c] = "wait"
  /\ handle = NULL
  /\ Become(c, "gone")
  /\ UNCHANGED <<responsive, cfg, led, forced, running, handle, host, task, lost, panicked>>

-----------------------------------------------------------------------------
(* snap_task.                                                              *)

At(t, step) == ~panicked /\ task[t].at = step
Goto(t, step) == task' = [task EXCEPT ![t].at = step]
Sleep(t, step) ==
  task' = [task EXCEPT ![t] = [at |-> step, sock |-> NULL, fresh |-> Stopping]]

(* The outer loop's test.                                                  *)
Outer(t) ==
  /\ At(t, "outer")
  /\ Goto(t, IF running THEN "resolve" ELSE "exit")
  /\ UNCHANGED <<responsive, cfg, led, forced, running, handle, host, lost, call, raced,
                 panicked>>

(* Mutation: the result of socket() is not looked at.                      *)
ResolveUnchecked(t) ==
  /\ At(t, "resolve")
  /\ host # NULL
  /\ task' = [task EXCEPT ![t] = [@ EXCEPT !.at = "connect", !.sock = host]]
  /\ UNCHANGED <<responsive, cfg, led, forced, running, handle, host, lost, call, raced,
                 panicked>>

(* connect_snap resolves the name and gets a socket.                       *)
Resolve(t) ==
  /\ At(t, "resolve")
  /\ host # NULL
  /\ Used < MaxSockets
  /\ task' = [task EXCEPT ![t] = [@ EXCEPT !.at = "connect", !.sock = host]]
  /\ UNCHANGED <<responsive, cfg, led, forced, running, handle, host, lost, call, raced,
                 panicked>>

(* connect_snap fails before it has a socket.                              *)
ResolveFail(t) ==
  /\ At(t, "resolve")
  /\ Sleep(t, "retry")
  /\ UNCHANGED <<responsive, cfg, led, forced, running, handle, host, lost, call, raced,
                 panicked>>

Connected(t) ==
  /\ At(t, "connect")
  /\ Goto(t, "inner")
  /\ UNCHANGED <<responsive, cfg, led, forced, running, handle, host, lost, call, raced,
                 panicked>>

(* Mutation: the socket of a refused connection is not closed.             *)
ConnectFailLeaks(t) ==
  /\ At(t, "connect")
  /\ task' = [task EXCEPT ![t].at = "retry", ![t].fresh = Stopping]
  /\ UNCHANGED <<responsive, cfg, led, forced, running, handle, host, lost, call, raced,
                 panicked>>

(* The connection is refused or times out; the socket is closed.           *)
ConnectFail(t) ==
  /\ At(t, "connect")
  /\ Sleep(t, "retry")
  /\ UNCHANGED <<responsive, cfg, led, forced, running, handle, host, lost, call, raced,
                 panicked>>

(* A delay ends: the next round of the outer loop.                         *)
DelayEnd(t) ==
  /\ At(t, "retry") \/ At(t, "pause")
  /\ ~(task[t].fresh /\ Stopping)
  /\ Goto(t, "outer")
  /\ UNCHANGED <<responsive, cfg, led, forced, running, handle, host, lost, call, raced,
                 panicked>>

(* The receive loop's test.                                                *)
Inner(t) ==
  /\ At(t, "inner")
  /\ Goto(t, IF running THEN "recv" ELSE "close")
  /\ UNCHANGED <<responsive, cfg, led, forced, running, handle, host, lost, call, raced,
                 panicked>>

(* recv brings data, which is buffered and analysed.                       *)
RecvData(t) ==
  /\ At(t, "recv")
  /\ Goto(t, "inner")
  /\ UNCHANGED <<responsive, cfg, led, forced, running, handle, host, lost, call, raced,
                 panicked>>

(* recv reports the end of the stream or an error.                         *)
RecvEnd(t) ==
  /\ At(t, "recv")
  /\ Goto(t, "close")
  /\ UNCHANGED <<responsive, cfg, led, forced, running, handle, host, lost, call, raced,
                 panicked>>

(* Mutation: the socket of an ended stream is not closed.                  *)
CloseLeaks(t) ==
  /\ At(t, "close")
  /\ Sleep(t, "pause")
  /\ lost' = lost + 1
  /\ UNCHANGED <<responsive, cfg, led, forced, running, handle, host, call, raced,
                 panicked>>

(* After the receive loop.                                                 *)
Close(t) ==
  /\ At(t, "close")
  /\ Sleep(t, "pause")
  /\ UNCHANGED <<responsive, cfg, led, forced, running, handle, host, lost, call, raced,
                 panicked>>

(* The task clears its handle and its function returns.                    *)
Exit(t) ==
  /\ At(t, "exit")
  /\ handle' = NULL
  /\ panicked' = TRUE
  /\ UNCHANGED <<responsive, cfg, led, forced, running, host, task, lost, call, raced>>

-----------------------------------------------------------------------------
Requests ==
  \/ \E on \in BOOLEAN : LedState(on) \/ AudioState(on) \/ MqttSet(on)
  \/ \E c \in Configs : SaveLed(c)

Calls(c) ==
  \/ StartCheck(c) \/ StartCreate(c) \/ StartFail(c)
  \/ StopFlag(c) \/ StopDelete(c) \/ StopSelf(c)

Step(t) ==
  \/ Outer(t) \/ Resolve(t) \/ ResolveFail(t) \/ Connected(t) \/ ConnectFail(t)
  \/ DelayEnd(t) \/ Inner(t) \/ RecvData(t) \/ RecvEnd(t) \/ Close(t) \/ Exit(t)

Next ==
  \/ Requests
  \/ \E c \in Callers : Calls(c)
  \/ \E t \in Tasks : Step(t)
  \/ Reboot

Spec == Init /\ [][Next]_vars

(* Tasks and calls are scheduled.  Name resolution, a connection attempt   *)
(* and task creation that are tried again and again succeed at some time   *)
(* if they can, and a connection does not end each time it has begun.      *)
Fairness ==
  /\ \A c \in Callers : WF_vars(Calls(c)) /\ SF_vars(StartCreate(c))
  /\ \A t \in Tasks :
       WF_vars(Step(t)) /\ SF_vars(Resolve(t)) /\ SF_vars(Connected(t))
  /\ WF_vars(Reboot)

LiveSpec == Spec /\ Fairness
-----------------------------------------------------------------------------
TypeOK ==
  /\ cfg \in Configs
  /\ {responsive, led, forced, running, raced, panicked} \subseteq BOOLEAN
  /\ handle \in Tasks \cup {NULL}
  /\ host \in Hosts \cup {NULL}
  /\ task \in [Tasks -> [at : {"none", "outer", "resolve", "connect", "retry",
                               "inner", "recv", "close", "pause", "exit"},
                         sock : Hosts \cup {NULL}, fresh : BOOLEAN]]
  /\ lost \in 0..MaxSockets
  /\ Used <= MaxSockets
  /\ call \in [Callers -> {"idle", "start", "create", "stop", "wait", "gone"}]

NoClient == \A t \in Tasks : ~Alive(t)

(* However starts, stops, lost connections and task failures follow each   *)
(* other, every live client is the one the next stop will delete: no       *)
(* second client feeds the metrics, none is out of reach, as long as       *)
(* app_main's start and a request have not met halfway                     *)
(* (snapclient_light.cpp:704-733).                                         *)
OneClient == ~raced /\ ~panicked => \A t \in Tasks : Alive(t) => handle = t

(* Between the calls s_running tells the truth: stopped means that the     *)
(* task is gone, started that there is one, as long as app_main's start    *)
(* and a request have not met halfway (snapclient_light.cpp:704-733).      *)
RunningMeansClient ==
  ~raced /\ ~panicked /\ (\A c \in Callers : ~Midway(c)) => (running <=> ~NoClient)

(* A client that is stopped while its server streams closes its socket     *)
(* before it is deleted, also when calls met halfway                       *)
(* (snapclient_light.cpp:695, 726-733).                                    *)
NoSocketLost == responsive => lost = 0

(* connect() has returned: the client is receiving.                        *)
Reached == \E t \in Tasks : task[t].at \in {"inner", "recv"}

(* A client that is left running gets connected to a server that can be    *)
(* reached, again and again, whatever was stopped and started before, and  *)
(* also when calls met halfway (snapclient_light.cpp:601-606, 726-733):    *)
(* for servers that let stop find the client without a socket.             *)
ClientReaches == <>[](responsive /\ running /\ host # NULL) => []<>Reached

(* web_setup.cpp:1105: switching the effects on starts the client; here:   *)
(* a client left running gets connected, also if servers were silent while *)
(* it was stopped before.                                                  *)
StartMeansReaching == <>[](running /\ host # NULL) => []<>Reached
=============================================================================
