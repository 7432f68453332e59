----------------------------- MODULE NetworkProofs ----------------------------
(* The control UART (C6Link), over a line that loses, delays and spoils what *)
(* is sent, for every set of callers and networks and number of retries: a   *)
(* call on a quiet line that no other call disturbs takes only the answer to *)
(* its own command; the station keeps trying.  And the network monitor       *)
(* (NetMonitor, as Net): what its flags say of Ethernet and WiFi.            *)
EXTENDS C6Link, SequenceTheorems, TLAPS

(* What the coprocessor may take for a command, and what answers it.         *)
Orders == Commands \cup {Noise}
Heard == Orders \cup [do : {"CONNECT"}, net : {Garbled}]
Networks == Nets \cup {NULL, Garbled}
Lines == [to : Heard \cup {Nul.to}, good : BOOLEAN]

Types ==
    /\ at \in [Callers -> {"idle", "write", "read", "parse"}]
    /\ cmd \in [Callers -> Orders]
    /\ buf \in [Callers -> Seq(Lines)]
    /\ alone \in Callers \cup {NULL}
    /\ toC6 \in Seq(Heard) /\ Len(toC6) <= MaxLine
    /\ rx \in Seq(Lines)
    /\ c6 \in {"load", "listen", "ready", "failed"}
    /\ step \in {"read", "handle", "start", "answer"}
    /\ job \in Heard
    /\ stored \in Networks /\ conf \in Networks
    /\ sta \in {"idle", "trying", "joined"}
    /\ retries \in 0..MaxRetry
    /\ stuck \in BOOLEAN

(* Who is not waiting has read nothing.                                      *)
Unread == \A c \in Callers : at[c] \in {"idle", "write"} => buf[c] = <<>>

(* Commands are handled only after app_main has loaded the stored network,   *)
(* and a CONNECT is answered with its network in place.                      *)
Started ==
    /\ step # "read" => c6 = "ready"
    /\ step \in {"start", "answer"} => job.do = "CONNECT"
    /\ step = "answer" => conf = Parsed(job.net)

(* All positive answers in s are to command x.                               *)
Answers(s, x) == \A i \in 1..Len(s) : s[i].good => s[i].to = x

(* While a caller is alone its command is the only one: on the line, being   *)
(* handled, or answered.                                                     *)
TurnOf(c) ==
    /\ \A d \in Callers : d # c => at[d] = "idle"
    /\ Len(toC6) <= 1
    /\ toC6 = <<>> \/ step = "read"
    /\ at[c] = "write" => toC6 = <<>> /\ step = "read"
    /\ toC6 # <<>> => toC6[1] \in {cmd[c], Noise}
    /\ step # "read" => job \in {cmd[c], Noise}
    /\ at[c] = "write" \/ toC6 # <<>> \/ step # "read" => rx = <<>> /\ buf[c] = <<>>
    /\ Answers(rx, cmd[c]) /\ Answers(buf[c], cmd[c])

Turn == \A c \in Callers : alone = c /\ at[c] # "idle" => TurnOf(c)

Inv == Types /\ Unread /\ Started /\ KeepsTrying /\ Turn
-----------------------------------------------------------------------------
(* A sequence cut in two.                                                     *)
LEMMA Rest ==
    ASSUME NEW S, NEW s \in Seq(S), NEW k \in 1..Len(s)
    PROVE  /\ SubSeq(s, 1, k) \in Seq(S) /\ Len(SubSeq(s, 1, k)) = k
           /\ \A i \in 1..k : SubSeq(s, 1, k)[i] = s[i]
           /\ SubSeq(s, k + 1, Len(s)) \in Seq(S)
           /\ Len(SubSeq(s, k + 1, Len(s))) = Len(s) - k
           /\ \A i \in 1..(Len(s) - k) : SubSeq(s, k + 1, Len(s))[i] = s[k + i]
<1>1. /\ Len(s) \in Nat
      /\ \A i \in 1..Len(s) : s[i] \in S
  BY LenProperties, ElementOfSeq
<1>2. /\ SubSeq(s, 1, k) \in Seq(S) /\ Len(SubSeq(s, 1, k)) = k
      /\ \A i \in 1..k : SubSeq(s, 1, k)[i] = s[i]
  <2>1. \A i \in 1..k : s[i] \in S
    BY <1>1
  <2>2. /\ SubSeq(s, 1, k) \in Seq(S)
        /\ Len(SubSeq(s, 1, k)) = IF 1 <= k THEN k - 1 + 1 ELSE 0
        /\ \A i \in 1..(k - 1 + 1) : SubSeq(s, 1, k)[i] = s[1 + i - 1]
    BY <2>1, <1>1, SubSeqProperties
  <2>3. QED  BY <2>2, <1>1
<1>3. QED
  <2>1. \A i \in (k + 1)..Len(s) : s[i] \in S
    BY <1>1
  <2>2. /\ SubSeq(s, k + 1, Len(s)) \in Seq(S)
        /\ Len(SubSeq(s, k + 1, Len(s)))
             = IF k + 1 <= Len(s) THEN Len(s) - (k + 1) + 1 ELSE 0
        /\ \A i \in 1..(Len(s) - (k + 1) + 1) :
             SubSeq(s, k + 1, Len(s))[i] = s[(k + 1) + i - 1]
    BY <2>1, <1>1, SubSeqProperties
  <2>3. QED  BY <2>2, <1>2, <1>1
-----------------------------------------------------------------------------
LEMMA InitInv == Init => Inv
<1> SUFFICES ASSUME Init PROVE Inv
  OBVIOUS
<1>1. Types
  <2>1. cmd \in [Callers -> Orders] /\ job \in Heard /\ alone \in Callers \cup {NULL}
    BY DEF Init, Heard, Orders
  <2>2. /\ buf \in [Callers -> Seq(Lines)]
        /\ toC6 \in Seq(Heard) /\ rx \in Seq(Lines)
    BY EmptySeq DEF Init
  <2>3. Len(toC6) <= MaxLine /\ retries \in 0..MaxRetry
    BY LinkAssumption DEF Init
  <2>4. stored \in Networks /\ conf \in Networks /\ stuck \in BOOLEAN
    BY DEF Init, Networks
  <2>5. /\ at \in [Callers -> {"idle", "write", "read", "parse"}]
        /\ c6 = "load" /\ step = "read" /\ sta = "idle"
    BY DEF Init
  <2>6. QED  BY <2>1, <2>2, <2>3, <2>4, <2>5 DEF Types
<1>2. Unread /\ Started /\ KeepsTrying /\ Turn
  BY LinkAssumption DEF Init, Unread, Started, KeepsTrying, Turn
<1>3. QED  BY <1>1, <1>2 DEF Inv

(* What no caller and nothing on the line changes.                           *)
LEMMA ChipKept ==
    ASSUME Inv, UNCHANGED chip
    PROVE  Started' /\ KeepsTrying'
  BY DEF Inv, Started, KeepsTrying, chip

(* The callers.                                                              *)
LEMMA CallKeeps ==
    ASSUME Inv, NEW c \in Callers, Call(c)
    PROVE  Inv'
<1>1. PICK x \in Commands : cmd' = [cmd EXCEPT ![c] = x]
  BY DEF Call, Begins
<1>2. /\ at[c] = "idle" /\ at' = [at EXCEPT ![c] = "write"]
      /\ alone' = IF Quiet THEN c ELSE NULL
      /\ rx' = <<>> /\ buf' = buf /\ toC6' = toC6
      /\ UNCHANGED chip
  BY DEF Call, Begins
<1>3. Types /\ Unread
  BY DEF Inv
<1>4. Types'
  <2>1. <<>> \in Seq(Lines)
    BY EmptySeq
  <2>2. cmd' \in [Callers -> Orders]
    BY <1>1, <1>3 DEF Types, Orders
  <2>3. /\ at' \in [Callers -> {"idle", "write", "read", "parse"}]
        /\ alone' \in Callers \cup {NULL}
    BY <1>2, <1>3 DEF Types
  <2>4. QED  BY <1>2, <1>3, <2>1, <2>2, <2>3 DEF Types, chip
<1>5. Unread'
  BY <1>2, <1>3 DEF Types, Unread
<1>6. Turn'
  <2> SUFFICES ASSUME NEW d \in Callers, alone' = d
               PROVE  TurnOf(d)'
    BY DEF Turn
  <2>1. d = c /\ Quiet
    BY <1>2, LinkAssumption
  <2>2. /\ \A e \in Callers : at[e] = "idle"
        /\ toC6 = <<>> /\ step = "read" /\ buf[c] = <<>>
    BY <1>2, <1>3, <2>1 DEF Quiet, Unread
  <2>3. \A e \in Callers : e # c => at'[e] = "idle"
    BY <1>2, <1>3, <2>2 DEF Types
  <2>4. /\ toC6' = <<>> /\ step' = "read" /\ rx' = <<>> /\ buf'[c] = <<>>
        /\ Len(toC6') = 0
    BY <1>2, <2>2 DEF chip
  <2>5. Answers(rx', cmd'[c]) /\ Answers(buf'[c], cmd'[c])
    BY <2>4 DEF Answers
  <2>6. QED  BY <2>1, <2>3, <2>4, <2>5 DEF TurnOf
<1>7. QED  BY <1>2, <1>4, <1>5, <1>6, ChipKept DEF Inv

(* A caller that is alone stays alone while others do nothing; so only its   *)
(* own steps matter.                                                         *)
LEMMA OwnStep ==
    ASSUME Inv, NEW c \in Callers, at[c] # "idle",
           NEW d \in Callers, alone = d, at[d] # "idle"
    PROVE  d = c /\ TurnOf(c)
  BY DEF Inv, Turn, TurnOf

LEMMA WriteKeeps ==
    ASSUME Inv, NEW c \in Callers, Write(c)
    PROVE  Inv'
<1>1. /\ at[c] = "write" /\ at' = [at EXCEPT ![c] = "read"]
      /\ c6 = "ready" => Len(toC6) < MaxLine
      /\ toC6' = IF c6 = "ready" THEN Append(toC6, cmd[c]) ELSE toC6
      /\ UNCHANGED <<cmd, buf, alone, rx, chip>>
  BY DEF Write
<1>2. Types /\ Unread
  BY DEF Inv
<1>3. Types'
  <2>1. cmd[c] \in Heard /\ Len(toC6) \in Nat
    BY <1>2, LenProperties DEF Types, Heard
  <2>2. toC6' \in Seq(Heard) /\ Len(toC6') <= MaxLine
    <3>1. CASE c6 = "ready"
      <4>1. /\ Append(toC6, cmd[c]) \in Seq(Heard)
            /\ Len(Append(toC6, cmd[c])) = Len(toC6) + 1
        BY <1>2, <2>1, AppendProperties DEF Types
      <4>2. QED  BY <1>1, <2>1, <3>1, <4>1, LinkAssumption
    <3>2. CASE c6 # "ready"
      BY <1>1, <1>2, <3>2 DEF Types
    <3>3. QED  BY <3>1, <3>2
  <2>3. QED  BY <1>1, <1>2, <2>2 DEF Types, chip
<1>4. Unread'
  BY <1>1, <1>2 DEF Types, Unread
<1>5. Turn'
  <2> SUFFICES ASSUME NEW d \in Callers, alone' = d, at'[d] # "idle"
               PROVE  TurnOf(d)'
    BY DEF Turn
  <2>1. alone = d /\ at[d] # "idle"
    BY <1>1, <1>2 DEF Types
  <2>2. d = c /\ TurnOf(c)
    BY <1>1, <2>1, OwnStep
  <2>3. toC6 = <<>> /\ step = "read" /\ rx = <<>> /\ buf[c] = <<>>
    BY <1>1, <2>2 DEF TurnOf
  <2>4. toC6' = <<>> \/ toC6' = <<cmd[c]>>
    BY <1>1, <2>3
  <2>5. at'[c] = "read" /\ \A e \in Callers : e # c => at'[e] = "idle"
    BY <1>1, <1>2, <2>2 DEF Types, TurnOf
  <2>6. Len(toC6') <= 1 /\ (toC6' # <<>> => toC6'[1] = cmd[c])
    <3>1. CASE toC6' = <<>>
      BY <3>1
    <3>2. CASE toC6' = <<cmd[c]>>
      BY <3>2
    <3>3. QED  BY <2>4, <3>1, <3>2
  <2>7. step' = "read" /\ rx' = <<>> /\ buf'[c] = <<>> /\ cmd' = cmd
    BY <1>1, <2>3 DEF chip
  <2>8. Answers(rx', cmd'[c]) /\ Answers(buf'[c], cmd'[c])
    BY <2>7 DEF Answers
  <2>9. QED  BY <2>2, <2>5, <2>6, <2>7, <2>8 DEF TurnOf
<1>6. QED  BY <1>1, <1>3, <1>4, <1>5, ChipKept DEF Inv

LEMMA ReadKeeps ==
    ASSUME Inv, NEW c \in Callers, Read(c)
    PROVE  Inv'
<1>1. PICK k \in 1..Len(rx) :
        /\ buf' = [buf EXCEPT ![c] = @ \o SubSeq(rx, 1, k)]
        /\ rx' = SubSeq(rx, k + 1, Len(rx))
        /\ at' = IF rx[k] # Nul THEN [at EXCEPT ![c] = "parse"] ELSE at
  BY DEF Read
<1>2. at[c] = "read" /\ UNCHANGED <<cmd, alone, toC6, chip>>
  BY DEF Read
<1>3. Types /\ Unread
  BY DEF Inv
<1>4. /\ rx \in Seq(Lines) /\ Len(rx) \in Nat
      /\ buf[c] \in Seq(Lines) /\ Len(buf[c]) \in Nat
  BY <1>3, LenProperties DEF Types
<1>5. /\ SubSeq(rx, 1, k) \in Seq(Lines) /\ Len(SubSeq(rx, 1, k)) = k
      /\ \A i \in 1..k : SubSeq(rx, 1, k)[i] = rx[i]
      /\ rx' \in Seq(Lines) /\ Len(rx') = Len(rx) - k
      /\ \A i \in 1..(Len(rx) - k) : rx'[i] = rx[k + i]
  BY <1>1, <1>4, Rest
<1>6. /\ buf'[c] \in Seq(Lines) /\ Len(buf'[c]) = Len(buf[c]) + k
      /\ \A i \in 1..(Len(buf[c]) + k) :
           buf'[c][i] = IF i <= Len(buf[c]) THEN buf[c][i] ELSE rx[i - Len(buf[c])]
  <2>1. buf'[c] = buf[c] \o SubSeq(rx, 1, k)
    BY <1>1, <1>3 DEF Types
  <2>2. ASSUME NEW p \in Seq(Lines), NEW q \in Seq(Lines)
        PROVE  /\ p \o q \in Seq(Lines) /\ Len(p \o q) = Len(p) + Len(q)
               /\ \A i \in 1..(Len(p) + Len(q)) :
                    (p \o q)[i] = IF i <= Len(p) THEN p[i] ELSE q[i - Len(p)]
    BY ConcatProperties
  <2>3. /\ buf'[c] \in Seq(Lines) /\ Len(buf'[c]) = Len(buf[c]) + k
        /\ \A i \in 1..(Len(buf[c]) + k) :
             buf'[c][i] = IF i <= Len(buf[c]) THEN buf[c][i]
                          ELSE SubSeq(rx, 1, k)[i - Len(buf[c])]
    BY ONLY <1>4, <1>5, <2>1, <2>2
  <2>4. \A i \in 1..(Len(buf[c]) + k) :
          ~(i <= Len(buf[c])) => i - Len(buf[c]) \in 1..k
    BY <1>4, SMT
  <2>5. QED  BY ONLY <1>5, <2>3, <2>4
<1>7. /\ \A e \in Callers : e # c => at'[e] = at[e] /\ buf'[e] = buf[e]
      /\ at'[c] \in {"read", "parse"}
  BY <1>1, <1>2, <1>3 DEF Types
<1>8. Types'
  <2>1. buf' \in [Callers -> Seq(Lines)]
    BY <1>1, <1>3, <1>6, <1>7 DEF Types
  <2>2. at' \in [Callers -> {"idle", "write", "read", "parse"}]
    BY <1>1, <1>3 DEF Types
  <2>3. QED  BY <1>2, <1>3, <1>5, <2>1, <2>2 DEF Types, chip
<1>9. Unread'
  BY <1>3, <1>7 DEF Unread
<1>10. Turn'
  <2> SUFFICES ASSUME NEW d \in Callers, alone' = d, at'[d] # "idle"
               PROVE  TurnOf(d)'
    BY DEF Turn
  <2>1. alone = d /\ at[d] # "idle"
    BY <1>2, <1>7
  <2>2. d = c /\ TurnOf(c)
    BY <1>2, <2>1, OwnStep
  <2>3. rx # <<>>
    BY <1>1
  <2>4. toC6 = <<>> /\ step = "read"
    BY <2>2, <2>3 DEF TurnOf
  <2>5. Answers(rx, cmd[c]) /\ Answers(buf[c], cmd[c])
    BY <2>2 DEF TurnOf
  <2>6. Answers(rx', cmd[c])
    <3>1. SUFFICES ASSUME NEW i \in 1..Len(rx'), rx'[i].good
                   PROVE  rx'[i].to = cmd[c]
      BY DEF Answers
    <3>2. rx'[i] = rx[k + i] /\ k + i \in 1..Len(rx)
      BY <1>4, <1>5
    <3>3. QED  BY <2>5, <3>1, <3>2 DEF Answers
  <2>7. Answers(buf'[c], cmd[c])
    <3>1. SUFFICES ASSUME NEW i \in 1..Len(buf'[c]), buf'[c][i].good
                   PROVE  buf'[c][i].to = cmd[c]
      BY DEF Answers
    <3>2. CASE i <= Len(buf[c])
      <4>1. buf'[c][i] = buf[c][i] /\ i \in 1..Len(buf[c])
        BY <1>4, <1>6, <3>2
      <4>2. QED  BY <2>5, <3>1, <4>1 DEF Answers
    <3>3. CASE i > Len(buf[c])
      <4>1. buf'[c][i] = rx[i - Len(buf[c])] /\ i - Len(buf[c]) \in 1..k
        BY <1>4, <1>6, <3>3
      <4>2. i - Len(buf[c]) \in 1..Len(rx)
        BY <1>4, <4>1
      <4>3. QED  BY <2>5, <3>1, <4>1, <4>2 DEF Answers
    <3>4. QED  BY <1>4, <3>2, <3>3
  <2>8. \A e \in Callers : e # c => at'[e] = "idle"
    BY <1>7, <2>2 DEF TurnOf
  <2>9. toC6' = <<>> /\ Len(toC6') = 0 /\ step' = "read" /\ cmd' = cmd
    BY <1>2, <2>4 DEF chip
  <2>10. QED  BY <1>7, <2>2, <2>6, <2>7, <2>8, <2>9 DEF TurnOf
<1>11. QED  BY <1>2, <1>8, <1>9, <1>10, ChipKept DEF Inv

LEMMA NothingKeeps ==
    ASSUME Inv, NEW c \in Callers, Nothing(c)
    PROVE  Inv'
<1>1. /\ at[c] = "read" /\ at' = [at EXCEPT ![c] = "parse"]
      /\ UNCHANGED <<cmd, buf, alone, toC6, rx, chip>>
  BY DEF Nothing
<1>2. Types /\ Unread
  BY DEF Inv
<1>3. Types' /\ Unread'
  BY <1>1, <1>2 DEF Types, Unread, chip
<1>4. Turn'
  <2> SUFFICES ASSUME NEW d \in Callers, alone' = d, at'[d] # "idle"
               PROVE  TurnOf(d)'
    BY DEF Turn
  <2>1. alone = d /\ at[d] # "idle"
    BY <1>1, <1>2 DEF Types
  <2>2. d = c /\ TurnOf(c)
    BY <1>1, <2>1, OwnStep
  <2>3. at'[c] = "parse" /\ \A e \in Callers : e # c => at'[e] = "idle"
    BY <1>1, <1>2, <2>2 DEF Types, TurnOf
  <2>4. QED  BY <1>1, <2>2, <2>3 DEF TurnOf, Answers, chip
<1>5. QED  BY <1>1, <1>3, <1>4, ChipKept DEF Inv

LEMMA ParseKeeps ==
    ASSUME Inv, NEW c \in Callers, Parse(c)
    PROVE  Inv'
<1>1. PICK over \in SUBSET Callers :
        /\ c \in over
        /\ at' = [d \in Callers |-> IF d \in over THEN "idle" ELSE at[d]]
        /\ buf' = [d \in Callers |-> IF d \in over THEN <<>> ELSE buf[d]]
        /\ cmd' = [d \in Callers |-> IF d \in over THEN Noise ELSE cmd[d]]
  <2>1. CASE Throws(c)
    BY <2>1 DEF Parse
  <2>2. CASE ~Throws(c)
    BY <2>2 DEF Parse
  <2>3. QED  BY <2>1, <2>2
<1>2. at[c] = "parse" /\ UNCHANGED <<alone, toC6, rx, chip>>
  BY DEF Parse
<1>3. Types /\ Unread
  BY DEF Inv
<1>4. Types'
  <2>1. <<>> \in Seq(Lines) /\ Noise \in Orders
    BY EmptySeq DEF Orders
  <2>2. /\ at' \in [Callers -> {"idle", "write", "read", "parse"}]
        /\ buf' \in [Callers -> Seq(Lines)]
        /\ cmd' \in [Callers -> Orders]
    BY <1>1, <1>3, <2>1 DEF Types
  <2>3. QED  BY <1>2, <1>3, <2>2 DEF Types, chip
<1>5. Unread'
  BY <1>1, <1>3 DEF Unread
<1>6. Turn'
  <2> SUFFICES ASSUME NEW d \in Callers, alone' = d, at'[d] # "idle"
               PROVE  FALSE
    BY DEF Turn
  <2>1. alone = d /\ at[d] # "idle" /\ d # c
    BY <1>1, <1>2
  <2>2. QED  BY <1>2, <2>1, OwnStep
<1>7. QED  BY <1>2, <1>4, <1>5, <1>6, ChipKept DEF Inv
-----------------------------------------------------------------------------
(* What the coprocessor does changes nothing for the callers but the line.   *)
LEMMA LineKept ==
    ASSUME Inv, UNCHANGED p4,
           \A c \in Callers : TurnOf(c) /\ at[c] # "idle" => TurnOf(c)'
    PROVE  Unread' /\ Turn'
  BY DEF Inv, Unread, Turn, p4

LEMMA TakeKeeps ==
    ASSUME Inv, Take
    PROVE  Inv'
<1>1. /\ c6 = "ready" /\ step = "read" /\ step' = "handle"
      /\ UNCHANGED <<p4, rx, c6, stored, conf, sta, retries, stuck>>
  BY DEF Take
<1>2. PICK k \in 1..Len(toC6) : /\ job' = First(SubSeq(toC6, 1, k))
                                /\ toC6' = SubSeq(toC6, k + 1, Len(toC6))
  BY DEF Take
<1>3. /\ Types /\ Started /\ KeepsTrying
      /\ toC6 \in Seq(Heard) /\ Len(toC6) \in Nat /\ Len(toC6) <= MaxLine
  BY LenProperties DEF Inv, Types
<1>4. /\ Len(SubSeq(toC6, 1, k)) = k /\ SubSeq(toC6, 1, k)[1] = toC6[1]
      /\ toC6' \in Seq(Heard) /\ Len(toC6') = Len(toC6) - k
  BY <1>2, <1>3, Rest
<1>5. toC6[1] \in Heard
  BY <1>2, <1>3, ElementOfSeq
<1>6. job' \in Heard
  <2>1. \/ job' = toC6[1]
        \/ toC6[1].do = "CONNECT" /\ job' = [toC6[1] EXCEPT !.net = Garbled]
    BY <1>2, <1>4 DEF First
  <2>2. \A x \in Heard : x.do = "CONNECT" => [x EXCEPT !.net = Garbled] \in Heard
    BY DEF Heard, Orders, Commands, Noise
  <2>3. QED  BY <1>5, <2>1, <2>2
<1>7. Types'
  <2>1. Len(toC6') <= MaxLine
    BY <1>2, <1>3, <1>4, LinkAssumption
  <2>2. QED  BY <1>1, <1>3, <1>4, <1>6, <2>1 DEF Types, p4
<1>8. Started' /\ KeepsTrying'
  BY <1>1, <1>3 DEF Started, KeepsTrying
<1>9. ASSUME NEW c \in Callers, TurnOf(c)
      PROVE  TurnOf(c)'
  <2>1. Len(toC6) = 1 /\ k = 1 /\ toC6 # <<>>
    <3>1. Len(toC6) <= 1
      BY <1>9 DEF TurnOf
    <3>2. \A n \in Nat : \A j \in 1..n : n <= 1 => j = 1 /\ n = 1
      OBVIOUS
    <3>3. Len(toC6) = 1 /\ k = 1
      BY <1>2, <1>3, <3>1, <3>2
    <3>4. QED  BY <3>3
  <2>2. toC6' = <<>> /\ Len(toC6') = 0
    BY <1>3, <1>4, <2>1, EmptySeq
  <2>3. job' = toC6[1]
    <3>1. ~(Len(SubSeq(toC6, 1, k)) > 1)
      BY <1>4, <2>1
    <3>2. First(SubSeq(toC6, 1, k)) = SubSeq(toC6, 1, k)[1]
      BY <3>1 DEF First
    <3>3. QED  BY <1>2, <1>4, <3>2
  <2>4. at[c] # "write" /\ rx = <<>> /\ buf[c] = <<>> /\ toC6[1] \in {cmd[c], Noise}
    BY <1>9, <2>1 DEF TurnOf
  <2>5. QED  BY <1>1, <1>9, <2>2, <2>3, <2>4 DEF TurnOf, Answers, p4
<1>10. QED  BY <1>1, <1>7, <1>8, <1>9, LineKept DEF Inv

(* An answer to the command of a caller that is alone.                       *)
LEMMA AnswerKeeps ==
    ASSUME Inv, step \in {"handle", "answer"}, step' = "read",
           NEW c \in Callers, TurnOf(c), UNCHANGED <<p4, toC6>>,
           rx = <<>> => Answers(rx', job), job # Noise \/ Answers(rx', cmd[c])
    PROVE  TurnOf(c)'
<1>1. /\ toC6 = <<>> /\ rx = <<>> /\ buf[c] = <<>> /\ at[c] # "write"
      /\ job \in {cmd[c], Noise}
  BY DEF TurnOf
<1>2. Answers(rx', cmd[c])
  BY <1>1
<1>3. QED  BY <1>1, <1>2 DEF TurnOf, Answers, p4

LEMMA ReplyKeeps ==
    ASSUME Inv, Reply
    PROVE  Inv'
<1>1. /\ step = "handle" /\ step' = "read" /\ job' = Noise
      /\ UNCHANGED <<p4, toC6, c6, stored, conf, sta, retries, stuck>>
  BY DEF Reply
<1>2. PICK good \in BOOLEAN : /\ good => job # Noise
                              /\ rx' = Append(rx, Answer(job, good))
  BY DEF Reply
<1>3. Types /\ Started /\ KeepsTrying
  BY DEF Inv
<1>4. Answer(job, good) \in Lines /\ Answer(job, good).good = good
      /\ Answer(job, good).to = job
  BY <1>2, <1>3 DEF Types, Lines, Answer
<1>5. rx' \in Seq(Lines)
  BY <1>2, <1>3, <1>4, AppendProperties DEF Types
<1>6. Types'
  BY <1>1, <1>3, <1>5 DEF Types, p4, Heard, Orders
<1>7. Started' /\ KeepsTrying'
  BY <1>1, <1>3 DEF Started, KeepsTrying
<1>8. ASSUME NEW c \in Callers, TurnOf(c)
      PROVE  TurnOf(c)'
  <2>1. rx = <<>> /\ Len(rx) = 0
    BY <1>1, <1>8 DEF TurnOf
  <2>2. Len(rx') = 1 /\ rx'[1] = Answer(job, good)
    BY <1>2, <1>3, <1>4, <2>1, AppendProperties DEF Types
  <2>3. Answers(rx', job) /\ (job # Noise \/ Answers(rx', cmd[c]))
    BY <1>2, <1>4, <2>2 DEF Answers
  <2>4. QED  BY <1>1, <1>8, <2>3, AnswerKeeps
<1>9. QED  BY <1>1, <1>6, <1>7, <1>8, LineKept DEF Inv

LEMMA ConnectingKeeps ==
    ASSUME Inv, Connecting
    PROVE  Inv'
<1>1. /\ step = "answer" /\ step' = "read" /\ job' = Noise
      /\ rx' = rx \o <<Answer(job, TRUE), Nul>>
      /\ UNCHANGED <<p4, toC6, c6, stored, conf, sta, retries, stuck>>
  BY DEF Connecting
<1>2. Types /\ Started /\ KeepsTrying
  BY DEF Inv
<1>3. /\ Answer(job, TRUE) \in Lines /\ Answer(job, TRUE).to = job
      /\ Nul \in Lines /\ ~Nul.good
  BY <1>2 DEF Types, Lines, Answer, Nul
<1>4. rx' \in Seq(Lines)
  <2>1. \A a, b \in Lines : <<a, b>> \in Seq(Lines)
    OBVIOUS
  <2>2. <<Answer(job, TRUE), Nul>> \in Seq(Lines)
    BY <1>3, <2>1
  <2>3. QED  BY <1>1, <1>2, <2>2, ConcatProperties DEF Types
<1>5. Types'
  BY <1>1, <1>2, <1>4 DEF Types, p4, Heard, Orders
<1>6. Started' /\ KeepsTrying'
  BY <1>1, <1>2 DEF Started, KeepsTrying
<1>7. ASSUME NEW c \in Callers, TurnOf(c)
      PROVE  TurnOf(c)'
  <2>1. rx = <<>> /\ job # Noise
    BY <1>1, <1>2, <1>7 DEF TurnOf, Started, Noise
  <2>2. \A a, b \in Lines : /\ Len(<<>> \o <<a, b>>) = 2
                             /\ (<<>> \o <<a, b>>)[1] = a
                             /\ (<<>> \o <<a, b>>)[2] = b
    OBVIOUS
  <2>3. Len(rx') = 2 /\ rx'[1] = Answer(job, TRUE) /\ rx'[2] = Nul
    BY <1>1, <1>3, <2>1, <2>2
  <2>4. \A i \in 1..2 : i = 1 \/ i = 2
    OBVIOUS
  <2>5. Answers(rx', job)
    BY <1>3, <2>3, <2>4 DEF Answers
  <2>6. QED  BY <1>1, <1>7, <2>1, <2>5, AnswerKeeps
<1>8. QED  BY <1>1, <1>5, <1>6, <1>7, LineKept DEF Inv

(* What the parser makes of a network is never nothing.                      *)
LEMMA ParsedNet == \A net : Parsed(net) \in Networks \ {NULL}
  BY LinkAssumption DEF Parsed, Networks

(* The rest of the coprocessor leaves the line alone.                        *)
LEMMA ChipKeeps ==
    ASSUME Inv, Store \/ Start \/ Station \/ Boot \/ Provision
    PROVE  Inv'
<1>1. /\ Types /\ Started /\ KeepsTrying
      /\ UNCHANGED <<p4, toC6, rx, job>>
      /\ step' = "read" <=> step = "read"
  BY DEF Inv, Store, Start, Station, Boot, Join, Disconnected, Load, Listened,
         Provision
<1>2. \A c \in Callers : TurnOf(c) => TurnOf(c)'
  BY <1>1 DEF TurnOf, Answers, p4
<1>3. Types' /\ Started' /\ KeepsTrying'
  <2>1. CASE Store
    <3>1. stored' \in Networks
      BY <1>1, <2>1, ParsedNet DEF Store, Types
    <3>2. Types'
      BY <1>1, <2>1, <3>1 DEF Store, Types, p4
    <3>3. QED  BY <1>1, <2>1, <3>2 DEF Store, Started, KeepsTrying
  <2>2. CASE Start
    <3>1. conf' \in Networks \ {NULL}
      BY <2>2, ParsedNet DEF Start
    <3>2. Types'
      BY <1>1, <2>2, <3>1 DEF Start, Types, p4
    <3>3. QED  BY <1>1, <2>2, <3>1, <3>2 DEF Start, Started, KeepsTrying
  <2>3. CASE Join
    BY <1>1, <2>3 DEF Join, Types, Started, KeepsTrying, p4
  <2>4. CASE Disconnected
    <3>1. retries' \in 0..MaxRetry
      BY <1>1, <2>4, LinkAssumption DEF Disconnected, Types
    <3>2. Types'
      BY <1>1, <2>4, <3>1 DEF Disconnected, Types, p4
    <3>3. QED  BY <1>1, <2>4, <3>2 DEF Disconnected, Started, KeepsTrying
  <2>5. CASE Load
    <3>1. Types'
      BY <1>1, <2>5 DEF Load, Types, p4
    <3>2. QED  BY <1>1, <2>5, <3>1 DEF Load, Started, KeepsTrying
  <2>6. CASE Listened
    BY <1>1, <2>6 DEF Listened, Types, Started, KeepsTrying, p4
  <2>7. CASE Provision
    <3>1. stored' \in Networks
      BY <1>1, <2>7 DEF Provision, Types, Networks
    <3>2. Types'
      BY <1>1, <2>7, <3>1 DEF Provision, Types, p4
    <3>3. QED  BY <1>1, <2>7, <3>2 DEF Provision, Started, KeepsTrying
  <2>8. QED
    BY <2>1, <2>2, <2>3, <2>4, <2>5, <2>6, <2>7 DEF Station, Boot
<1>4. QED  BY <1>1, <1>2, <1>3, LineKept DEF Inv

(* The coprocessor restarts, or the line loses or spoils something.          *)
LEMMA CrashKeeps ==
    ASSUME Inv, Crash
    PROVE  Inv'
<1>1. /\ c6' = "load" /\ step' = "read" /\ job' = Noise
      /\ conf' = NULL /\ sta' = "idle" /\ retries' = 0 /\ stuck' = FALSE
      /\ toC6' = <<>>
      /\ UNCHANGED <<p4, rx, stored>>
  BY DEF Crash
<1>2. Types
  BY DEF Inv
<1>3. Types'
  <2>1. toC6' \in Seq(Heard) /\ Len(toC6') <= MaxLine
    BY <1>1, EmptySeq, LinkAssumption
  <2>2. job' \in Heard /\ conf' \in Networks /\ stuck' \in BOOLEAN
    BY <1>1 DEF Heard, Orders, Networks
  <2>3. retries' \in 0..MaxRetry
    BY <1>1, LinkAssumption
  <2>4. QED  BY <1>1, <1>2, <2>1, <2>2, <2>3 DEF Types, p4
<1>4. Started' /\ KeepsTrying'
  BY <1>1 DEF Started, KeepsTrying
<1>5. \A c \in Callers : TurnOf(c) => TurnOf(c)'
  BY <1>1 DEF TurnOf, Answers, p4
<1>6. QED  BY <1>1, <1>3, <1>4, <1>5, LineKept DEF Inv

LEMMA CommandDisturbed ==
    ASSUME Inv, toC6 # <<>>, toC6' \in {Tail(toC6), <<Noise>> \o Tail(toC6)},
           UNCHANGED <<p4, rx, chip>>
    PROVE  Inv'
<1>1. Types /\ toC6 \in Seq(Heard) /\ Len(toC6) \in Nat /\ Len(toC6) <= MaxLine
  BY LenProperties DEF Inv, Types
<1>2. Tail(toC6) \in Seq(Heard) /\ Len(Tail(toC6)) = Len(toC6) - 1
  BY <1>1, HeadTailProperties
<1>3. <<Noise>> \in Seq(Heard) /\ Len(<<Noise>>) = 1
  <2>1. \A a \in Heard : <<a>> \in Seq(Heard)
    OBVIOUS
  <2>2. QED  BY <2>1 DEF Heard, Orders
<1>4. ASSUME NEW p \in Seq(Heard), NEW q \in Seq(Heard)
      PROVE  p \o q \in Seq(Heard) /\ Len(p \o q) = Len(p) + Len(q)
  BY ConcatProperties
<1>5. /\ <<Noise>> \o Tail(toC6) \in Seq(Heard)
      /\ Len(<<Noise>> \o Tail(toC6)) = 1 + Len(Tail(toC6))
  BY <1>2, <1>3, <1>4
<1>6. toC6' \in Seq(Heard) /\ Len(toC6') <= MaxLine
  <2>1. CASE toC6' = Tail(toC6)
    BY <1>1, <1>2, <2>1, LinkAssumption
  <2>2. CASE toC6' = <<Noise>> \o Tail(toC6)
    <3>1. Len(toC6') = 1 + (Len(toC6) - 1)
      BY <1>2, <1>5, <2>2
    <3>2. QED  BY <1>1, <1>5, <2>2, <3>1
  <2>3. QED  BY <2>1, <2>2
<1>7. Types'
  BY <1>1, <1>6 DEF Types, p4, chip
<1>8. ASSUME NEW c \in Callers, TurnOf(c)
      PROVE  TurnOf(c)'
  <2>1. Tail(toC6) = <<>>
    <3>1. Len(toC6) <= 1
      BY <1>8 DEF TurnOf
    <3>2. Len(Tail(toC6)) \in Nat
      BY <1>2, LenProperties
    <3>3. Len(Tail(toC6)) = 0
      BY <1>1, <1>2, <3>1, <3>2
    <3>4. QED  BY <1>2, <3>3, EmptySeq
  <2>2. <<Noise>> \o <<>> = <<Noise>>
    OBVIOUS
  <2>3. toC6' \in {<<>>, <<Noise>>}
    BY <2>1, <2>2
  <2>4. Len(toC6') <= 1 /\ (toC6' = <<>> \/ toC6'[1] = Noise)
    BY <2>3
  <2>5. QED  BY <1>8, <2>4 DEF TurnOf, Answers, p4, chip
<1>9. QED  BY <1>7, <1>8, LineKept, ChipKept DEF Inv

LEMMA AnswerLost ==
    ASSUME Inv, rx # <<>>, rx' = Tail(rx), UNCHANGED <<p4, toC6, chip>>
    PROVE  Inv'
<1>1. Types
  BY DEF Inv
<1>2. /\ rx' \in Seq(Lines) /\ Len(rx') = Len(rx) - 1 /\ Len(rx) \in Nat
      /\ \A i \in 1..Len(rx') : rx'[i] = rx[i + 1]
  BY <1>1, HeadTailProperties, LenProperties DEF Types
<1>3. Types'
  BY <1>1, <1>2 DEF Types, p4, chip
<1>4. ASSUME NEW c \in Callers, TurnOf(c)
      PROVE  TurnOf(c)'
  <2>1. Answers(rx', cmd[c])
    BY <1>2, <1>4 DEF TurnOf, Answers
  <2>2. QED  BY <1>4, <2>1 DEF TurnOf, p4, chip
<1>5. QED  BY <1>3, <1>4, LineKept, ChipKept DEF Inv

LEMMA Invariance == Spec => []Inv
<1>1. Inv /\ [Next]_vars => Inv'
  <2> SUFFICES ASSUME Inv, [Next]_vars PROVE Inv'
    OBVIOUS
  <2>1. CASE P4
    BY <2>1, CallKeeps, WriteKeeps, ReadKeeps, NothingKeeps, ParseKeeps DEF P4
  <2>2. CASE Take \/ Reply \/ Connecting
    BY <2>2, TakeKeeps, ReplyKeeps, ConnectingKeeps
  <2>3. CASE Store \/ Start \/ Station \/ Boot \/ Provision
    BY <2>3, ChipKeeps
  <2>4. CASE Crash \/ Disturb
    BY <2>4, CrashKeeps, CommandDisturbed, AnswerLost DEF Disturb
  <2>5. CASE UNCHANGED vars
    BY <2>5 DEF vars, Inv, Types, Unread, Started, KeepsTrying, Turn, TurnOf, Answers
  <2>6. QED  BY <2>1, <2>2, <2>3, <2>4, <2>5 DEF Next, Task
<1>2. QED  BY <1>1, InitInv, PTL DEF Spec

(* Types, and no more than MaxRetry retries are counted, for every set of    *)
(* callers and networks.                                                     *)
THEOREM TypeCorrect == Spec => []TypeOK
<1>1. Inv => TypeOK
  <2> SUFFICES ASSUME Inv PROVE TypeOK
    OBVIOUS
  <2>1. Types
    BY DEF Inv
  <2>2. stored \in Nets \cup {NULL, Garbled} /\ conf \in Nets \cup {NULL, Garbled}
    BY <2>1 DEF Types, Networks
  <2>3. QED  BY <2>1, <2>2 DEF Types, TypeOK, Orders
<1>2. QED  BY Invariance, <1>1, PTL

(* A call that began on a quiet line and that no other call has disturbed    *)
(* succeeds by the answer to its own command, whatever the line loses, delays*)
(* or spoils, whenever the coprocessor restarts and whatever earlier calls   *)
(* left behind, for every set of callers (wifi_c6_ctrl.cpp's send_command).  *)
THEOREM AnswersAreOwn == Spec => []OwnAnswer
<1>1. Inv => OwnAnswer
  <2> SUFFICES ASSUME Inv, NEW c \in Callers, alone = c, at[c] = "parse", Succeeds(c)
               PROVE  buf[c][1].to = cmd[c]
    BY DEF OwnAnswer, AnswersOwn
  <2>1. buf[c] \in Seq(Lines) /\ buf[c] # <<>> /\ buf[c][1].good
    BY DEF Inv, Types, Succeeds
  <2>2. 1 \in 1..Len(buf[c])
    BY <2>1, EmptySeq, LenProperties
  <2>3. Answers(buf[c], cmd[c])
    BY DEF Inv, Turn, TurnOf
  <2>4. QED  BY <2>1, <2>2, <2>3 DEF Answers
<1>2. QED  BY Invariance, <1>1, PTL

(* A station given a network is joined or trying until its retries are       *)
(* spent, and a stored network is given to it, for every set of callers and  *)
(* networks and every number of retries (the coprocessor's main.c).          *)
THEOREM StationKeepsTrying == Spec => []KeepsTrying
<1>1. Inv => KeepsTrying
  BY DEF Inv
<1>2. QED  BY Invariance, <1>1, PTL

(* A CONNECT is answered only when the station has what the coprocessor      *)
(* understood of the command's network: no boot, restart or provisioning gets*)
(* in between.  If a caller is alone this is the answer to its command, and  *)
(* it still waits for it or has given up; whether the network understood is  *)
(* the one given depends on the parser (handle_connect_command).             *)
Understood ==
    /\ conf = Parsed(job.net)
    /\ \A c \in Callers : alone = c /\ at[c] # "idle"
         => /\ at[c] \in {"read", "parse"} /\ cmd[c] = job
            /\ conf = Parsed(cmd[c].net)

THEOREM ConnectIsUnderstood == Spec => [][Connecting => Understood]_vars
<1>1. Inv /\ [Next]_vars => [Connecting => Understood]_vars
  <2> SUFFICES ASSUME Inv, Connecting PROVE Understood
    OBVIOUS
  <2>1. step = "answer" /\ job.do = "CONNECT" /\ conf = Parsed(job.net)
    BY DEF Connecting, Inv, Started
  <2>2. ASSUME NEW c \in Callers, alone = c, at[c] # "idle"
        PROVE  at[c] \in {"read", "parse"} /\ cmd[c] = job
    <3>1. TurnOf(c) /\ at[c] \in {"idle", "write", "read", "parse"}
      BY <2>2 DEF Inv, Turn, Types
    <3>2. at[c] # "write" /\ job \in {cmd[c], Noise}
      BY <2>1, <3>1 DEF TurnOf
    <3>3. QED  BY <2>1, <2>2, <3>1, <3>2 DEF Noise
  <2>3. QED  BY <2>1, <2>2 DEF Understood
<1>2. QED  BY Invariance, <1>1, PTL DEF Spec

-----------------------------------------------------------------------------
VARIABLES coprocessor, linkFails, eth, cred, wifi, ip, ctrl, told, mdns, boot,
          monitor, ethWas, wifiWas, web

Net == INSTANCE NetMonitor

(* What the monitor remembers of the link is so: it is up, for want of       *)
(* Ethernet.  Only a link that is up has an address and a network it was     *)
(* told.                                                                     *)
KnowsWifi == /\ wifiWas => wifi /\ ~ethWas
             /\ ip \/ told => wifi

(* Before the monitor runs, and on its way to bringing the link up, it has   *)
(* not noted Ethernet; who is joining a network has brought the link up.     *)
Reaches ==
  /\ boot # "done" => ~ethWas /\ ~wifiWas
  /\ boot \in {"wait", "wifi"} => ~wifi
  /\ boot = "join" => wifi
  /\ monitor \in {"enable", "try"} => ~ethWas
  /\ monitor \in {"join", "tryjoin"} => wifiWas

(* There is no link the monitor does not know of.                            *)
AllKnown == boot = "done" /\ (wifi => wifiWas)

(* A link that is up has been told the stored network, or is about to be.    *)
LinkTold ==
  ~linkFails /\ cred /\ wifi
    => told \/ boot = "join" \/ monitor \in {"join", "tryjoin"}
SavesTold == web = "save" => told

NetTypes ==
  /\ coprocessor \in BOOLEAN /\ linkFails \in BOOLEAN /\ eth \in BOOLEAN
  /\ cred \in BOOLEAN /\ wifi \in BOOLEAN /\ ip \in BOOLEAN /\ ctrl \in BOOLEAN
  /\ told \in BOOLEAN /\ mdns \in BOOLEAN /\ ethWas \in BOOLEAN
  /\ wifiWas \in BOOLEAN
  /\ boot \in {"wait", "wifi", "join", "rest", "done"}
  /\ monitor \in {"none", "sleep", "enable", "try", "join", "tryjoin"}
  /\ web \in {"idle", "start", "send", "answer", "save"}
  /\ boot = "done" <=> monitor # "none"

NetInv == NetTypes /\ KnowsWifi /\ Reaches

LEMMA NetInit == Net!Init => NetInv /\ LinkTold
  BY DEF Net!Init, NetInv, NetTypes, KnowsWifi, Reaches, LinkTold

USE DEF Net!world, Net!link

(* What each action does to the types, from the types of what it assigns.    *)
LEMMA NetTypesKept ==
    ASSUME NetTypes, Net!Next
    PROVE  NetTypes'
<1>1. CASE Net!Cable
  <2>1. eth' \in BOOLEAN
    BY <1>1 DEF Net!Cable
  <2>2. UNCHANGED <<coprocessor, linkFails, cred, wifi, ip, ctrl, told, mdns, boot,
                    monitor, ethWas, wifiWas, web>>
    BY <1>1 DEF Net!Cable
  <2>3. QED  BY ONLY NetTypes, <2>1, <2>2 DEF NetTypes
<1>2. CASE Net!Address
  <2>1. ip' \in BOOLEAN
    BY <1>2 DEF Net!Address
  <2>2. UNCHANGED <<coprocessor, linkFails, eth, cred, wifi, ctrl, told, mdns, boot,
                    monitor, ethWas, wifiWas, web>>
    BY <1>2 DEF Net!Address
  <2>3. QED  BY ONLY NetTypes, <2>1, <2>2 DEF NetTypes
<1>3. CASE Net!Boot
  <2>1. CASE Net!BootEth \/ Net!BootNoEth \/ Net!BootWifiFail \/ Net!BootRest
    <3>1. /\ UNCHANGED <<coprocessor, linkFails, eth, cred, wifi, ip, ctrl, told,
                         ethWas, wifiWas, web>>
          /\ mdns' \in {mdns, TRUE}
          /\ boot' \in {"rest", "wifi", "done"}
          /\ monitor' \in {monitor, "sleep"}
          /\ boot' = "done" <=> monitor' # "none"
      BY <2>1 DEF Net!BootEth, Net!BootNoEth, Net!BootWifiFail, Net!BootRest, NetTypes
    <3>2. mdns' \in BOOLEAN
      BY ONLY NetTypes, <3>1 DEF NetTypes
    <3>3. QED  BY ONLY NetTypes, <3>1, <3>2 DEF NetTypes
  <2>2. CASE Net!BootWifi
    <3>1. wifi' \in BOOLEAN /\ ip' \in BOOLEAN /\ ctrl' \in BOOLEAN
      BY <2>2 DEF Net!BootWifi, Net!LinkUp, NetTypes
    <3>2. QED
      BY ONLY NetTypes, <2>2, <3>1 DEF NetTypes, Net!BootWifi, Net!world
  <2>3. CASE Net!BootJoin
    <3>1. told' \in BOOLEAN /\ ctrl' \in BOOLEAN /\ mdns' \in BOOLEAN
      BY <2>3 DEF Net!BootJoin, Net!TellNetwork, NetTypes
    <3>2. QED
      BY ONLY NetTypes, <2>3, <3>1 DEF NetTypes, Net!BootJoin, Net!world
  <2>4. QED  BY <1>3, <2>1, <2>2, <2>3 DEF Net!Boot
<1>4. CASE Net!Monitor
  <2>1. CASE Net!SeeNoEth \/ Net!SeeNothing \/ Net!MonitorWifiFail
    <3>1. /\ UNCHANGED <<coprocessor, linkFails, eth, cred, wifi, ip, ctrl, told,
                         mdns, boot, wifiWas, web>>
          /\ ethWas' \in {ethWas, FALSE}
          /\ monitor # "none" /\ monitor' \in {"sleep", "enable", "try"}
      BY <2>1 DEF Net!SeeNoEth, Net!SeeNothing, Net!MonitorWifiFail
    <3>2. ethWas' \in BOOLEAN
      BY ONLY NetTypes, <3>1 DEF NetTypes
    <3>3. QED  BY ONLY NetTypes, <3>1, <3>2 DEF NetTypes
  <2>2. CASE Net!SeeEth
    <3>1. /\ wifi' \in BOOLEAN /\ ip' \in BOOLEAN /\ ctrl' \in BOOLEAN
          /\ told' \in BOOLEAN
      BY <2>2 DEF Net!SeeEth, Net!LinkDown, NetTypes
    <3>2. wifiWas' \in BOOLEAN /\ ethWas' \in BOOLEAN /\ mdns' \in BOOLEAN
      BY <2>2 DEF Net!SeeEth
    <3>3. QED
      BY ONLY NetTypes, <2>2, <3>1, <3>2 DEF NetTypes, Net!SeeEth, Net!world
  <2>3. CASE Net!MonitorWifi
    <3>1. /\ wifi' \in BOOLEAN /\ ip' \in BOOLEAN /\ ctrl' \in BOOLEAN
          /\ wifiWas' \in BOOLEAN
      BY <2>3 DEF Net!MonitorWifi, Net!LinkUp, NetTypes
    <3>2. QED
      BY ONLY NetTypes, <2>3, <3>1 DEF NetTypes, Net!MonitorWifi, Net!world
  <2>4. CASE Net!MonitorJoin
    <3>1. told' \in BOOLEAN /\ ctrl' \in BOOLEAN /\ mdns' \in BOOLEAN
      BY <2>4 DEF Net!MonitorJoin, Net!TellNetwork, NetTypes
    <3>2. QED
      BY ONLY NetTypes, <2>4, <3>1 DEF NetTypes, Net!MonitorJoin, Net!world
  <2>5. QED  BY <1>4, <2>1, <2>2, <2>3, <2>4 DEF Net!Monitor
<1>5. CASE Net!Web
  <2>1. /\ UNCHANGED <<coprocessor, linkFails, eth, wifi, ip, mdns, boot, monitor,
                       ethWas, wifiWas>>
        /\ ctrl' \in {ctrl, TRUE} /\ told' \in {told, wifi} /\ cred' \in {cred, TRUE}
        /\ web' \in {"idle", "start", "send", "answer", "save"}
    BY <1>5 DEF Net!Web, Net!WebCheck, Net!WebStart, Net!WebSend, Net!WebAnswer,
                Net!WebFail, Net!WebSave
  <2>2. ctrl' \in BOOLEAN /\ told' \in BOOLEAN /\ cred' \in BOOLEAN
    BY ONLY NetTypes, <2>1 DEF NetTypes
  <2>3. QED  BY ONLY NetTypes, <2>1, <2>2 DEF NetTypes
<1>6. QED  BY <1>1, <1>2, <1>3, <1>4, <1>5 DEF Net!Next

(* The flags, action by action.                                              *)
LEMMA NetFlagsKept ==
    ASSUME NetInv, Net!Next
    PROVE  KnowsWifi' /\ Reaches'
<1>1. NetTypes /\ KnowsWifi /\ Reaches
  BY DEF NetInv
<1>2. CASE Net!Cable \/ Net!Address
  BY <1>1, <1>2 DEF Net!Cable, Net!Address, KnowsWifi, Reaches
<1>3. CASE Net!Boot
  <2>1. CASE Net!BootEth \/ Net!BootNoEth \/ Net!BootWifiFail \/ Net!BootRest
    BY <1>1, <2>1 DEF Net!BootEth, Net!BootNoEth, Net!BootWifiFail, Net!BootRest,
                      NetTypes, KnowsWifi, Reaches
  <2>2. CASE Net!BootWifi
    BY <1>1, <2>2 DEF Net!BootWifi, Net!LinkUp, NetTypes, KnowsWifi, Reaches
  <2>3. CASE Net!BootJoin
    BY <1>1, <2>3 DEF Net!BootJoin, NetTypes, KnowsWifi, Reaches
  <2>4. QED  BY <1>3, <2>1, <2>2, <2>3 DEF Net!Boot
<1>4. CASE Net!Monitor
  <2>1. CASE Net!SeeEth
    BY <1>1, <2>1 DEF Net!SeeEth, Net!LinkDown, NetTypes, KnowsWifi, Reaches
  <2>2. CASE Net!SeeNoEth \/ Net!SeeNothing \/ Net!MonitorWifiFail
    BY <1>1, <2>2 DEF Net!SeeNoEth, Net!SeeNothing, Net!MonitorWifiFail, NetTypes,
                      KnowsWifi, Reaches
  <2>3. CASE Net!MonitorWifi
    BY <1>1, <2>3 DEF Net!MonitorWifi, Net!LinkUp, NetTypes, KnowsWifi, Reaches
  <2>4. CASE Net!MonitorJoin
    BY <1>1, <2>4 DEF Net!MonitorJoin, NetTypes, KnowsWifi, Reaches
  <2>5. QED  BY <1>4, <2>1, <2>2, <2>3, <2>4 DEF Net!Monitor
<1>5. CASE Net!Web
  <2>1. /\ UNCHANGED <<wifi, ip, boot, monitor, ethWas, wifiWas>>
        /\ told' \in {told, wifi}
    BY <1>5 DEF Net!Web, Net!WebCheck, Net!WebStart, Net!WebSend, Net!WebAnswer,
                Net!WebFail, Net!WebSave
  <2>2. QED  BY <1>1, <2>1 DEF KnowsWifi, Reaches
<1>6. QED  BY <1>2, <1>3, <1>4, <1>5 DEF Net!Next

LEMMA NetInvariance == Net!Spec => []NetInv
<1>1. NetInv /\ [Net!Next]_(Net!vars) => NetInv'
  <2>1. SUFFICES ASSUME NetInv, [Net!Next]_(Net!vars) PROVE NetInv'
    OBVIOUS
  <2>2. CASE UNCHANGED Net!vars
    BY <2>1, <2>2 DEF Net!vars, NetInv, NetTypes, KnowsWifi, Reaches
  <2>3. CASE Net!Next
    BY <2>1, <2>3, NetTypesKept, NetFlagsKept DEF NetInv
  <2>4. QED  BY <2>1, <2>2, <2>3
<1>2. QED  BY <1>1, NetInit, PTL DEF Net!Spec

(* Types of the network monitor's state; the monitor is there exactly when   *)
(* app_main has come to its end, whatever the cable and the link do.         *)
THEOREM NetTypeCorrect == Net!Spec => []Net!TypeOK
<1>1. NetInv => Net!TypeOK
  BY DEF NetInv, NetTypes, Net!TypeOK
<1>2. QED  BY NetInvariance, <1>1, PTL

(* What the monitor remembers is so, whatever fails, whenever the cable comes*)
(* or goes and however a request of the web server runs into it: if it holds *)
(* WiFi to be active, the PPP link is set up and it has not noted Ethernet   *)
(* (main.cpp:143-216).                                                       *)
THEOREM MonitorKnows == Net!Spec => []KnowsWifi
<1>1. NetInv => KnowsWifi
  BY DEF NetInv
<1>2. QED  BY NetInvariance, <1>1, PTL

(* The safe half of WifiOffWithEth: from when the monitor has first known a  *)
(* link, no link is set up while it has Ethernet noted - for ever, whatever  *)
(* cable, boot, link and requests do (main.cpp:157-166).                     *)
THEOREM NoWifiNextToEthernet == Net!Spec => [](wifiWas => [](ethWas => ~wifi))
<1>1. NetInv /\ AllKnown /\ [Net!Next]_(Net!vars) => AllKnown'
  <2>1. SUFFICES ASSUME NetInv, AllKnown, [Net!Next]_(Net!vars) PROVE AllKnown'
    OBVIOUS
  <2>2. boot = "done" /\ NetTypes
    BY <2>1 DEF AllKnown, NetInv
  <2>3. CASE UNCHANGED Net!vars
    BY <2>1, <2>3 DEF Net!vars, AllKnown
  <2>4. CASE Net!Cable \/ Net!Address
    BY <2>1, <2>4 DEF Net!Cable, Net!Address, AllKnown
  <2>5. CASE Net!Boot
    BY <2>1, <2>2, <2>5 DEF Net!Boot, Net!BootEth, Net!BootNoEth, Net!BootWifi,
                      Net!BootWifiFail, Net!BootJoin, Net!BootRest
  <2>6. CASE Net!Monitor
    BY <2>1, <2>2, <2>6 DEF Net!Monitor, Net!SeeEth, Net!LinkDown, Net!SeeNoEth,
                      Net!SeeNothing, Net!MonitorWifi, Net!MonitorWifiFail,
                      Net!MonitorJoin, AllKnown
  <2>7. CASE Net!Web
    <3>1. UNCHANGED <<wifi, boot, wifiWas>>
      BY <2>1, <2>7 DEF Net!Web, Net!WebCheck, Net!WebStart, Net!WebSend, Net!WebAnswer,
                  Net!WebFail, Net!WebSave
    <3>2. QED  BY <2>1, <3>1 DEF AllKnown
  <2>8. QED  BY <2>1, <2>3, <2>4, <2>5, <2>6, <2>7 DEF Net!Next
<1>2. NetInv /\ wifiWas => AllKnown
  BY DEF NetInv, NetTypes, Reaches, AllKnown
<1>3. NetInv /\ AllKnown => (ethWas => ~wifi)
  BY DEF NetInv, KnowsWifi, AllKnown
<1>4. QED  BY <1>1, <1>2, <1>3, NetInvariance, PTL DEF Net!Spec

(* The safe half of NetworkTold: if commands do not fail, the coprocessor of *)
(* a link that is up has been told the stored network, or app_main or the    *)
(* monitor is just about to tell it (main.cpp:96-109, 165-205) - unless the  *)
(* link is taken down between a request's command and its storing of the     *)
(* network (web_setup.cpp:259-270).                                          *)
THEOREM LinkIsTold == Net!Spec /\ []SavesTold => []LinkTold
<1>1. NetInv /\ LinkTold /\ SavesTold /\ [Net!Next]_(Net!vars) => LinkTold'
  <2>1. SUFFICES ASSUME NetInv, LinkTold, SavesTold, [Net!Next]_(Net!vars)
                 PROVE  LinkTold'
    OBVIOUS
  <2>2. NetTypes /\ KnowsWifi /\ Reaches
    BY <2>1 DEF NetInv
  <2>3. CASE UNCHANGED Net!vars
    BY <2>1, <2>3 DEF Net!vars, LinkTold
  <2>4. CASE Net!Cable \/ Net!Address
    BY <2>1, <2>4 DEF Net!Cable, Net!Address, LinkTold
  <2>5. CASE Net!Boot
    <3>1. CASE Net!BootEth \/ Net!BootNoEth \/ Net!BootWifiFail \/ Net!BootRest
      BY <2>1, <2>2, <3>1 DEF Net!BootEth, Net!BootNoEth, Net!BootWifiFail, Net!BootRest,
                        Reaches, LinkTold
    <3>2. CASE Net!BootWifi
      BY <2>1, <2>2, <3>2 DEF Net!BootWifi, LinkTold
    <3>3. CASE Net!BootJoin
      BY <2>1, <2>2, <3>3 DEF Net!BootJoin, Net!TellNetwork, LinkTold
    <3>4. QED  BY <2>5, <3>1, <3>2, <3>3 DEF Net!Boot
  <2>6. CASE Net!Monitor
    <3>1. CASE Net!SeeEth
      BY <2>1, <2>2, <3>1 DEF Net!SeeEth, Net!LinkDown, LinkTold
    <3>2. CASE Net!SeeNoEth \/ Net!SeeNothing \/ Net!MonitorWifiFail
      BY <2>1, <2>2, <3>2 DEF Net!SeeNoEth, Net!SeeNothing, Net!MonitorWifiFail,
                        Net!LinkFailed, LinkTold
    <3>3. CASE Net!MonitorWifi
      BY <2>1, <2>2, <3>3 DEF Net!MonitorWifi, LinkTold
    <3>4. CASE Net!MonitorJoin
      BY <2>1, <2>2, <3>4 DEF Net!MonitorJoin, Net!TellNetwork, LinkTold
    <3>5. QED  BY <2>6, <3>1, <3>2, <3>3, <3>4 DEF Net!Monitor
  <2>7. CASE Net!Web
    <3>1. CASE Net!WebSave
      BY <2>1, <3>1 DEF Net!WebSave, SavesTold, LinkTold
    <3>2. CASE Net!WebSend
      BY <2>1, <2>2, <3>2 DEF Net!WebSend, NetTypes, LinkTold
    <3>3. CASE Net!WebCheck \/ Net!WebStart \/ Net!WebAnswer \/ Net!WebFail
      BY <2>1, <3>3 DEF Net!WebCheck, Net!WebStart, Net!WebAnswer, Net!WebFail, LinkTold
    <3>4. QED  BY <2>7, <3>1, <3>2, <3>3 DEF Net!Web
  <2>8. QED  BY <2>1, <2>3, <2>4, <2>5, <2>6, <2>7 DEF Net!Next
<1>2. QED  BY <1>1, NetInit, NetInvariance, PTL DEF Net!Spec
=============================================================================
