------------------------------- MODULE C6Link -------------------------------
(***************************************************************************)
(* The control UART between the ESP32-P4 (main/wifi_c6_ctrl.cpp) and its   *)
(* WiFi coprocessor (esp32c6_firmware/main/main.c), and the coprocessor's  *)
(* station that CONNECT sets to work.                                      *)
(*                                                                         *)
(* Commands and answers are text lines without a number.  A line is one    *)
(* element of the sequence that is on its way; the NUL that                *)
(* handle_connect_command sends after its answer (16 bytes for a text of   *)
(* 15) is an element of its own.  One read of the coprocessor may return   *)
(* several commands, of which it handles the first; a password then runs   *)
(* on into what follows.  A name or password is cut at a '|' and at the    *)
(* coprocessor's limits on their lengths.  An answer may come after the    *)
(* P4's time limit; contents of scans and states are left out.             *)
(***************************************************************************)
EXTENDS Naturals, Sequences

CONSTANTS
  Callers,   (* tasks of the P4 that call wifi_c6_ctrl_*: the web server's  *)
             (* and the one of app_main or the network monitor              *)
  Nets,      (* WiFi networks, each with its password                       *)
  Whole,     (* those that the coprocessor's parser returns as they are     *)
  Garbled,   (* a network with a name or password that was cut or ran on    *)
  MaxRetry,  (* WIFI_MAX_RETRY                                              *)
  MaxLine,   (* the commands on their way are at most this many             *)
  NULL

ASSUME LinkAssumption ==
  /\ MaxRetry \in Nat /\ MaxLine \in Nat \ {0}
  /\ Whole \subseteq Nets
  /\ Garbled \notin Nets /\ NULL \notin Nets \cup Callers \cup {Garbled}

VARIABLES
  at,      (* where each caller is in send_command                          *)
  cmd,     (* its command, noise if it has none                             *)
  buf,     (* what it has read                                              *)
  alone,   (* history: the caller that began last, if the line was quiet    *)
  toC6,    (* commands the coprocessor has not read                         *)
  rx,      (* answers in the P4's receive buffer                            *)
  c6,      (* where the coprocessor's app_main is                           *)
  step,    (* where its command task is                                     *)
  job,     (* the command being handled                                     *)
  stored,  (* the network in its NVS                                        *)
  conf,    (* the station's configuration                                   *)
  sta,     (* the station                                                   *)
  retries, (* s_retry_num                                                   *)
  stuck    (* its web server waits for itself                               *)

p4 == <<at, cmd, buf, alone>>
chip == <<c6, step, job, stored, conf, sta, retries, stuck>>
vars == <<at, cmd, buf, alone, toC6, rx, c6, step, job, stored, conf, sta,
          retries, stuck>>

Commands == [do : {"SCAN", "STATUS"}, net : {NULL}]
              \cup [do : {"CONNECT"}, net : Nets]
Noise == [do |-> "noise", net |-> NULL]
Answer(c, good) == [to |-> c, good |-> good]
Nul == [to |-> [do |-> "NUL", net |-> NULL], good |-> FALSE]

Init ==
  /\ at = [c \in Callers |-> "idle"]
  /\ cmd = [c \in Callers |-> Noise]
  /\ buf = [c \in Callers |-> <<>>]
  /\ alone = NULL
  /\ toC6 = <<>> /\ rx = <<>>
  /\ c6 = "load" /\ step = "read" /\ job = Noise
  /\ stored \in Nets \cup {NULL}
  /\ conf = NULL /\ sta = "idle" /\ retries = 0 /\ stuck = FALSE
-----------------------------------------------------------------------------
(* Nobody else calls, and no earlier command is unread or unanswered.      *)
Quiet == (\A d \in Callers : at[d] = "idle") /\ toC6 = <<>> /\ step = "read"

Begins(c) ==
  /\ at[c] = "idle"
  /\ \E x \in Commands : cmd' = [cmd EXCEPT ![c] = x]
  /\ at' = [at EXCEPT ![c] = "write"]
  /\ alone' = IF Quiet THEN c ELSE NULL

(* Mutation: the receive buffer is not cleared.                            *)
CallUnflushed(c) ==
  /\ Begins(c)
  /\ UNCHANGED <<buf, toC6, rx, chip>>

(* send_command: the receive buffer is cleared, then the command written.  *)
Call(c) ==
  /\ Begins(c)
  /\ rx' = <<>>
  /\ UNCHANGED <<buf, toC6, chip>>

(* Nobody receives what is written before the coprocessor's task is there. *)
Write(c) ==
  /\ at[c] = "write"
  /\ c6 = "ready" => Len(toC6) < MaxLine
  /\ at' = [at EXCEPT ![c] = "read"]
  /\ toC6' = IF c6 = "ready" THEN Append(toC6, cmd[c]) ELSE toC6
  /\ UNCHANGED <<cmd, buf, alone, rx, chip>>

(* A read returns some of what is there, and ends the wait if it ends with *)
(* a line's end.                                                           *)
Read(c) ==
  /\ at[c] = "read"
  /\ \E k \in 1..Len(rx) :
       /\ buf' = [buf EXCEPT ![c] = @ \o SubSeq(rx, 1, k)]
       /\ rx' = SubSeq(rx, k + 1, Len(rx))
       /\ at' = IF rx[k] # Nul THEN [at EXCEPT ![c] = "parse"] ELSE at
  /\ UNCHANGED <<cmd, alone, toC6, chip>>

(* A read returns nothing, after something or until the time is up; the    *)
(* command may then still be handled.                                      *)
Nothing(c) ==
  /\ at[c] = "read"
  /\ rx = <<>>
  /\ at' = [at EXCEPT ![c] = "parse"]
  /\ UNCHANGED <<cmd, buf, alone, toC6, rx, chip>>

(* The answer is taken by its beginning.  In the numbers of a scan there   *)
(* may be no other text: std::stoi throws, and the P4 restarts.            *)
Throws(c) ==
  /\ cmd[c].do = "SCAN"
  /\ buf[c] # <<>> /\ buf[c][1].good
  /\ \E i \in 1..Len(buf[c]) :
       \/ buf[c][i].to.do = "STATUS"
       \/ i > 1 /\ buf[c][i].to.do = "SCAN"

Succeeds(c) == buf[c] # <<>> /\ buf[c][1].good

Parse(c) ==
  /\ at[c] = "parse"
  /\ LET over == IF Throws(c) THEN Callers ELSE {c} IN
       /\ at' = [d \in Callers |-> IF d \in over THEN "idle" ELSE at[d]]
       /\ buf' = [d \in Callers |-> IF d \in over THEN <<>> ELSE buf[d]]
       /\ cmd' = [d \in Callers |-> IF d \in over THEN Noise ELSE cmd[d]]
  /\ UNCHANGED <<alone, toC6, rx, chip>>
-----------------------------------------------------------------------------
(* The coprocessor's command task reads one or more commands.              *)
First(s) ==
  IF s[1].do = "CONNECT" /\ Len(s) > 1 THEN [s[1] EXCEPT !.net = Garbled]
                                       ELSE s[1]

Take ==
  /\ c6 = "ready" /\ step = "read"
  /\ \E k \in 1..Len(toC6) :
       /\ job' = First(SubSeq(toC6, 1, k))
       /\ toC6' = SubSeq(toC6, k + 1, Len(toC6))
  /\ step' = "handle"
  /\ UNCHANGED <<p4, rx, c6, stored, conf, sta, retries, stuck>>

(* SCAN, STATUS and what it does not know are answered; a scan may lack    *)
(* the memory for its records.                                             *)
Reply ==
  /\ step = "handle" /\ job.do # "CONNECT"
  /\ \E good \in BOOLEAN :
       /\ good => job # Noise
       /\ ~good => job.do # "STATUS"
       /\ rx' = Append(rx, Answer(job, good))
  /\ step' = "read" /\ job' = Noise
  /\ UNCHANGED <<p4, toC6, c6, stored, conf, sta, retries, stuck>>

(* handle_connect_command finds the network's name and password and cuts   *)
(* them.                                                                   *)
Parsed(net) == IF net \in Whole THEN net ELSE Garbled

(* It is stored; whether that succeeds or not the station is started, half *)
(* a second later told to connect, and the command answered.               *)
Store ==
  /\ step = "handle" /\ job.do = "CONNECT"
  /\ stored' \in {Parsed(job.net), stored}
  /\ step' = "start"
  /\ UNCHANGED <<p4, toC6, rx, c6, job, conf, sta, retries, stuck>>

(* Mutation: the station is expected to connect by itself.                 *)
StartUnconnected ==
  /\ step = "start"
  /\ conf' = Parsed(job.net)
  /\ step' = "answer"
  /\ UNCHANGED <<p4, toC6, rx, c6, job, stored, sta, retries, stuck>>

Start ==
  /\ step = "start"
  /\ conf' = Parsed(job.net)
  /\ sta' = "trying"
  /\ step' = "answer"
  /\ UNCHANGED <<p4, toC6, rx, c6, job, stored, retries, stuck>>

Connecting ==
  /\ step = "answer"
  /\ rx' = rx \o <<Answer(job, TRUE), Nul>>
  /\ step' = "read" /\ job' = Noise
  /\ UNCHANGED <<p4, toC6, c6, stored, conf, sta, retries, stuck>>
-----------------------------------------------------------------------------
(* The station joins its network, or WIFI_EVENT_STA_DISCONNECTED says that *)
(* it has not or no longer: retries are counted from the last address the  *)
(* station got, which it never gets, as no interface is created for it     *)
(* next to the access point.                                               *)
Join ==
  /\ sta = "trying"
  /\ sta' = "joined"
  /\ UNCHANGED <<p4, toC6, rx, c6, step, job, stored, conf, retries, stuck>>

(* Mutation: one retry too many.                                           *)
DisconnectedLate ==
  /\ sta # "idle"
  /\ \/ retries <= MaxRetry /\ retries' = retries + 1 /\ sta' = "trying"
     \/ retries > MaxRetry /\ sta' = "idle" /\ UNCHANGED retries
  /\ UNCHANGED <<p4, toC6, rx, c6, step, job, stored, conf, stuck>>

Disconnected ==
  /\ sta # "idle"
  /\ \/ retries < MaxRetry /\ retries' = retries + 1 /\ sta' = "trying"
     \/ retries = MaxRetry /\ sta' = "idle" /\ UNCHANGED retries
  /\ UNCHANGED <<p4, toC6, rx, c6, step, job, stored, conf, stuck>>

(* app_main: the stored network is tried; after the connection's result or *)
(* 15 seconds the PPP server is started, then the command task.            *)
Load ==
  /\ c6 = "load"
  /\ c6' = "listen"
  /\ IF stored = NULL THEN UNCHANGED <<conf, sta>>
                      ELSE conf' = stored /\ sta' = "trying"
  /\ UNCHANGED <<p4, toC6, rx, step, job, stored, retries, stuck>>

Listened ==
  /\ c6 = "listen"
  /\ c6' \in {"ready", "failed"}
  /\ UNCHANGED <<p4, toC6, rx, step, job, stored, conf, sta, retries, stuck>>

(* api_wifi_connect_handler, on the coprocessor's own access point, stores *)
(* a network and stops the web server whose task it runs in.               *)
Provision ==
  /\ c6 # "load" /\ ~stuck
  /\ stored' \in Nets \cup {Garbled, stored}
  /\ stuck' = TRUE
  /\ UNCHANGED <<p4, toC6, rx, c6, step, job, conf, sta, retries>>

(* The coprocessor restarts: by hand, or aborted by an ESP_ERROR_CHECK.    *)
Crash ==
  /\ c6' = "load" /\ step' = "read" /\ job' = Noise
  /\ conf' = NULL /\ sta' = "idle" /\ retries' = 0 /\ stuck' = FALSE
  /\ toC6' = <<>>
  /\ UNCHANGED <<p4, rx, stored>>

(* The line loses a command or an answer, or spoils the first letters of a *)
(* command.                                                                *)
Disturb ==
  \/ /\ toC6 # <<>>
     /\ toC6' \in {Tail(toC6), <<Noise>> \o Tail(toC6)}
     /\ UNCHANGED <<p4, rx, chip>>
  \/ /\ rx # <<>>
     /\ rx' = Tail(rx)
     /\ UNCHANGED <<p4, toC6, chip>>

P4 == \E c \in Callers : Call(c) \/ Write(c) \/ Read(c) \/ Nothing(c) \/ Parse(c)
Task == Take \/ Reply \/ Store \/ Start \/ Connecting
Station == Join \/ Disconnected
Boot == Load \/ Listened
Next == P4 \/ Task \/ Station \/ Boot \/ Provision \/ Crash \/ Disturb

Spec == Init /\ [][Next]_vars
-----------------------------------------------------------------------------
TypeOK ==
  /\ at \in [Callers -> {"idle", "write", "read", "parse"}]
  /\ cmd \in [Callers -> Commands \cup {Noise}]
  /\ alone \in Callers \cup {NULL}
  /\ Len(toC6) <= MaxLine
  /\ c6 \in {"load", "listen", "ready", "failed"}
  /\ step \in {"read", "handle", "start", "answer"}
  /\ stored \in Nets \cup {NULL, Garbled} /\ conf \in Nets \cup {NULL, Garbled}
  /\ sta \in {"idle", "trying", "joined"}
  /\ retries \in 0..MaxRetry
  /\ stuck \in BOOLEAN

(* What a call takes for its answer, and succeeds by, is the answer to its *)
(* own command, one that arrived as it was given, if the line was quiet    *)
(* when it began and nobody else has called since: what calls that         *)
(* overlapped, timed out or lost their answer left on the line is cleared. *)
AnswersOwn(c) == at[c] = "parse" /\ Succeeds(c) => buf[c][1].to = cmd[c]

OwnAnswer == \A c \in Callers : alone = c => AnswersOwn(c)

(* The same for every call, as send_command's "Send command and wait for   *)
(* response" has it.                                                       *)
AnyAnswer == \A c \in Callers : AnswersOwn(c)

(* A station that has been given a network is joined to it or trying,      *)
(* unless it has spent its retries; and it has been given one when one is  *)
(* stored, except by the provisioning page, which is stuck after storing.  *)
KeepsTrying ==
  /\ conf # NULL => sta # "idle" \/ retries = MaxRetry
  /\ stored # NULL /\ c6 # "load" /\ ~stuck /\ step # "start" => conf # NULL
=============================================================================
