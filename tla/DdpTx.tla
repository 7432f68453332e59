-------------------------------- MODULE DdpTx --------------------------------
(***************************************************************************)
(* Sending frames to a WLED device over DDP (main/ddp_tx.cpp): a frame is  *)
(* split into packets, sent over one UDP socket that all senders share and *)
(* that is created when it is missing and closed on an error.  The sender  *)
(* is the render task ("fx"); app_main ("main") sends one test frame of a  *)
(* single packet to another host at boot.                                  *)
(*                                                                         *)
(* The device is modelled by what the sender relies on: a packet's payload *)
(* is stored at its offset, and a push shows what is stored.               *)
(***************************************************************************)
EXTENDS Naturals, Sequences

CONSTANTS
  Chunk,    (* DDP_MAX_PAYLOAD                                              *)
  Sizes,    (* payload sizes: the device's LEDs times three                 *)
  Fds,      (* sockets the stack can hand out                               *)
  Ids,      (* frames are numbered modulo Ids                               *)
  NULL

ASSUME ChunkAssumption == Chunk \in Nat /\ Chunk > 0
ASSUME SizesAssumption == Sizes \subseteq Nat \ {0}
ASSUME IdsAssumption   == Ids \in Nat /\ Ids > 1
ASSUME NullAssumption  == NULL \notin Fds

VARIABLES
  lossy,    (* packets may be lost, sends and socket creation may fail      *)
  testing,  (* app_main's test frame is configured; neither ever changes    *)
  size,     (* the device's payload size                                    *)
  seq,      (* seq_ of the runtime, 1..15                                   *)
  frame,    (* number of the frame being sent                               *)
  offset,   (* bytes of it dealt with                                       *)
  cur,      (* current_seq                                                  *)
  packets,  (* its packets so far, sent or not: [offset, len, seq, push]    *)
  at,       (* where each sender is                                         *)
  sock,     (* s_ddp_sock                                                   *)
  open,     (* sockets open in the network stack                            *)
  stored,   (* the device's buffer: the frame each chunk belongs to         *)
  shown     (* the device's buffer when the last push arrived               *)

environment == <<lossy, testing, size>>
vars == <<environment, seq, frame, offset, cur, packets, at, sock, open, stored,
          shown>>

Senders == {"fx", "main"}
Pieces(n) == 0..((n - 1) \div Chunk)

Init ==
  /\ lossy \in BOOLEAN
  /\ testing \in BOOLEAN
  /\ size \in Sizes
  /\ seq = 1
  /\ frame = 0
  /\ offset = 0
  /\ cur = 0
  /\ packets = <<>>
  /\ at = [fx |-> "idle", main |-> IF testing THEN "check" ELSE "idle"]
  /\ sock = NULL
  /\ open = {}
  /\ stored = [i \in Pieces(size) |-> 0]
  /\ shown = [i \in Pieces(size) |-> 0]

(* Mutation: sixteen numbers, the reserved one among them.                 *)
NextSeqZero == (seq + 1) % 16

(* next_seq: 1 to 15, around.                                              *)
NextSeq == IF seq >= 15 THEN 1 ELSE seq + 1

(* The render task starts on a new frame.                                  *)
BeginFrame ==
  /\ at["fx"] = "idle"
  /\ frame' = (frame + 1) % Ids
  /\ cur' = seq
  /\ seq' = NextSeq
  /\ offset' = 0
  /\ packets' = <<>>
  /\ at' = [at EXCEPT !["fx"] = "check"]
  /\ UNCHANGED <<environment, sock, open, stored, shown>>

-----------------------------------------------------------------------------
(* One packet: the header carries four bits of the sequence number.  The   *)
(* number itself is counted up from packet to packet, past 15 in a frame   *)
(* that began near it (ddp_tx.cpp:85, 202), so a packet can carry 0.       *)

(* Mutation: one byte too few.                                             *)
IsLastEarly == offset + Chunk + 1 >= size

ChunkSize == IF size - offset < Chunk THEN size - offset ELSE Chunk
IsLast == offset + ChunkSize >= size
Packet == [offset |-> offset, len |-> ChunkSize, seq |-> cur % 16, push |-> IsLast]

(* After a packet, sent or not: on to the next one, or the frame is done.  *)
Advance(t) ==
  IF t = "main"
  THEN /\ at' = [at EXCEPT ![t] = "idle"]
       /\ UNCHANGED <<offset, cur, packets>>
  ELSE /\ packets' = Append(packets, Packet)
       /\ cur' = cur + 1
       /\ offset' = offset + ChunkSize
       /\ at' = [at EXCEPT ![t] = IF IsLast THEN "idle" ELSE "check"]

(* A packet of the render task reaches the device.                         *)
Deliver(t) ==
  IF t = "main" THEN UNCHANGED <<stored, shown>>
  ELSE /\ stored' = [stored EXCEPT ![offset \div Chunk] = frame]
       /\ shown' = IF IsLast THEN stored' ELSE shown

Check(t) ==
  /\ at[t] = "check"
  /\ at' = [at EXCEPT ![t] = IF sock = NULL THEN "create" ELSE "send"]
  /\ UNCHANGED <<environment, seq, frame, offset, cur, packets, sock, open,
                 stored, shown>>

Create(t) ==
  /\ at[t] = "create"
  /\ \E fd \in Fds \ open :
       /\ sock' = fd
       /\ open' = open \cup {fd}
  /\ at' = [at EXCEPT ![t] = "send"]
  /\ UNCHANGED <<environment, seq, frame, offset, cur, packets, stored, shown>>

CreateFail(t) ==
  /\ at[t] = "create"
  /\ lossy \/ open = Fds
  /\ sock' = NULL
  /\ Advance(t)
  /\ UNCHANGED <<environment, seq, frame, open, stored, shown>>

Send(t) ==
  /\ at[t] = "send"
  /\ sock \in open
  /\ Advance(t)
  /\ Deliver(t)
  /\ UNCHANGED <<environment, seq, frame, sock, open>>

(* The socket would block, or the packet is lost on its way.               *)
Lose(t) ==
  /\ at[t] = "send"
  /\ lossy
  /\ Advance(t)
  /\ UNCHANGED <<environment, seq, frame, sock, open, stored, shown>>

(* Any other error, or no socket any more: the socket is closed.           *)
SendError(t) ==
  /\ at[t] = "send"
  /\ lossy \/ sock \notin open
  /\ at' = [at EXCEPT ![t] = "close"]
  /\ UNCHANGED <<environment, seq, frame, offset, cur, packets, sock, open,
                 stored, shown>>

(* Mutation: the socket is only forgotten.                                 *)
ForgetSocket(t) ==
  /\ at[t] = "close"
  /\ sock' = NULL
  /\ Advance(t)
  /\ UNCHANGED <<environment, seq, frame, open, stored, shown>>

(* The next packet gets a new socket.                                      *)
CloseSocket(t) ==
  /\ at[t] = "close"
  /\ open' = open \ {sock}
  /\ sock' = NULL
  /\ Advance(t)
  /\ UNCHANGED <<environment, seq, frame, stored, shown>>

SendPacket(t) ==
  Check(t) \/ Create(t) \/ CreateFail(t) \/ Send(t) \/ Lose(t) \/ SendError(t)
  \/ CloseSocket(t)

Next == BeginFrame \/ \E t \in Senders : SendPacket(t)

Spec == Init /\ [][Next]_vars

(* The senders' tasks are scheduled.                                       *)
LiveSpec ==
  Spec /\ WF_vars(BeginFrame) /\ \A t \in Senders : WF_vars(SendPacket(t))
-----------------------------------------------------------------------------
TypeOK ==
  /\ lossy \in BOOLEAN /\ testing \in BOOLEAN
  /\ size \in Sizes
  /\ seq \in 1..15
  /\ frame \in 0..(Ids - 1)
  /\ offset \in 0..size
  /\ cur \in Nat
  /\ packets \in Seq([offset : Nat, len : 1..Chunk, seq : 0..15, push : BOOLEAN])
  /\ at \in [Senders -> {"idle", "check", "create", "send", "close"}]
  /\ sock \in Fds \cup {NULL}
  /\ open \subseteq Fds
  /\ stored \in [Pieces(size) -> 0..(Ids - 1)]
  /\ shown \in [Pieces(size) -> 0..(Ids - 1)]

(* The packets built for a frame cover its payload without gap or overlap, *)
(* the last one alone carries the push, and their numbers follow one       *)
(* another modulo 16 from the frame's own, which is 1 to 15: 0, which      *)
(* ddp_tx.cpp:31 leaves out, comes after 15 in the middle of a frame and   *)
(* never first.  All this even if some could not be sent                   *)
(* (ddp_tx.cpp:176-213, wled_effects.cpp:528-532).                         *)
Tiled ==
  LET n     == Len(packets)
      first == packets[1].seq
  IN  at["fx"] = "idle" /\ n > 0 =>
        /\ packets[1].offset = 0
        /\ \A i \in 1..(n - 1) :
             packets[i + 1].offset = packets[i].offset + packets[i].len
        /\ packets[n].offset + packets[n].len = size
        /\ \A i \in 1..n : packets[i].push <=> i = n
        /\ first \in 1..15
        /\ \A i \in 1..n : packets[i].seq = (first + i - 1) % 16

(* What the device shows as one frame number, or none if it is torn.       *)
Whole == \A i \in DOMAIN shown : shown[i] = shown[0]
Display == INSTANCE DdpDisplay WITH shown <- IF Whole THEN shown[0] ELSE Ids

(* On a network that loses nothing, the device shows the frames whole, in  *)
(* order and for ever (ddp_tx.cpp:176-213, wled_effects.cpp:1702-1735).    *)
ShowsFrames == Display!Spec

(* The socket is opened once and reused: none is forgotten while open,     *)
(* although errors close and reopen it (ddp_tx.cpp:45-108), as long as the *)
(* render task is the only sender.  With a test frame configured app_main  *)
(* may create a second one at the same moment.                             *)
OneSocket == ~testing => open \subseteq {sock}
=============================================================================
