----------------------------- MODULE DdpTxProofs ------------------------------
(* Sending a frame, for every size of payload and packet and every number of *)
(* sockets: the packets cover the frame, no socket is forgotten, and on a    *)
(* network that loses nothing every step is one of DdpDisplay's.             *)
EXTENDS DdpTx, SequenceTheorems, TLAPS

Packets == [offset : Nat, len : 1..Chunk, seq : 0..15, push : BOOLEAN]
Places == {"idle", "check", "create", "send", "close"}

(* The packets built so far are consecutive and end at offset, which is at a *)
(* multiple of Chunk until the frame is done; they are numbered from the     *)
(* frame's own number.                                                       *)
Consecutive ==
    LET n == Len(packets) IN
    /\ n = 0 => offset = 0
    /\ n > 0 => /\ packets[1].offset = 0
                /\ packets[n].offset + packets[n].len = offset
    /\ \A i \in 1..(n - 1) :
         packets[i + 1].offset = packets[i].offset + packets[i].len
Unfinished ==
    /\ offset < size
    /\ offset = Chunk * Len(packets)
    /\ \A i \in 1..Len(packets) : ~packets[i].push
Numbered ==
    Len(packets) > 0 => /\ packets[1].seq \in 1..15
                        /\ \A i \in 1..Len(packets) :
                             packets[i].seq = (packets[1].seq + i - 1) % 16
Counted ==
    /\ Len(packets) = 0 => cur \in 1..15
    /\ Len(packets) > 0 => cur = packets[1].seq + Len(packets)
Finished ==
    Len(packets) > 0 => /\ offset = size
                        /\ \A i \in 1..Len(packets) :
                             packets[i].push <=> i = Len(packets)
Built == /\ Consecutive /\ Numbered
         /\ at["fx"] # "idle" => Unfinished /\ Counted
         /\ at["fx"] = "idle" => Finished

(* With one sender a socket is created only when there is none.              *)
Single ==
    ~testing => /\ at["main"] = "idle"
                /\ open \subseteq {sock}
                /\ at["fx"] = "create" => open = {}

Inv == TypeOK /\ Built /\ Single
-----------------------------------------------------------------------------
(* A step of a sender: it is done with the packet, or only changes place.    *)
LEMMA PacketStep ==
    ASSUME NEW t \in Senders, SendPacket(t)
    PROVE  /\ at[t] # "idle"
           /\ UNCHANGED <<lossy, testing, size, seq, frame>>
           /\ \/ Advance(t)
              \/ /\ UNCHANGED <<offset, cur, packets, stored, shown>>
                 /\ \E l \in {"create", "send", "close"} : at' = [at EXCEPT ![t] = l]
           /\ Deliver(t) \/ UNCHANGED <<stored, shown>>
<1> USE DEF environment
<1>1. CASE Check(t)
  BY <1>1 DEF Check
<1>2. CASE Create(t)
  BY <1>2 DEF Create
<1>3. CASE CreateFail(t)
  BY <1>3 DEF CreateFail
<1>4. CASE Send(t)
  BY <1>4 DEF Send
<1>5. CASE Lose(t)
  BY <1>5 DEF Lose
<1>6. CASE SendError(t)
  BY <1>6 DEF SendError
<1>7. CASE CloseSocket(t)
  BY <1>7 DEF CloseSocket
<1>8. QED  BY <1>1, <1>2, <1>3, <1>4, <1>5, <1>6, <1>7 DEF SendPacket

(* The packet that is built for the rest of a frame.                         *)
LEMMA NextPacket ==
    ASSUME Inv, at["fx"] # "idle"
    PROVE  /\ ChunkSize \in 1..Chunk /\ offset + ChunkSize \in 0..size
           /\ Packet \in Packets
           /\ Packet.offset = offset /\ Packet.len = ChunkSize
           /\ Packet.push = IsLast /\ Packet.seq = cur % 16
           /\ IsLast <=> offset + ChunkSize = size
           /\ ~IsLast => ChunkSize = Chunk
           /\ IsLast => size <= offset + Chunk
<1>1. /\ offset \in Nat /\ size \in Nat /\ offset < size /\ cur \in Nat
      /\ Chunk \in Nat /\ Chunk > 0
  BY ChunkAssumption, SizesAssumption DEF Inv, TypeOK, Built, Unfinished
<1>2. /\ ChunkSize \in 1..Chunk /\ offset + ChunkSize \in 0..size
      /\ IsLast <=> offset + ChunkSize = size
      /\ ~IsLast => ChunkSize = Chunk
      /\ IsLast => size <= offset + Chunk
  BY <1>1 DEF ChunkSize, IsLast
<1>3. cur % 16 \in 0..15
  BY <1>1
<1>4. IsLast \in BOOLEAN
  BY DEF IsLast
<1>5. QED  BY <1>1, <1>2, <1>3, <1>4 DEF Packet, Packets

LEMMA InitInv == Init => Inv
<1> SUFFICES ASSUME Init PROVE Inv
  OBVIOUS
<1>1. size \in Nat /\ size > 0 /\ 0 \in 0..(Ids - 1)
  BY SizesAssumption, IdsAssumption DEF Init
<1>2. TypeOK
  BY <1>1, EmptySeq DEF Init, environment, TypeOK, Senders
<1>3. Built
  BY <1>1 DEF Init, Built, Consecutive, Numbered, Finished, Senders
<1>4. Single
  BY DEF Init, Single
<1>5. QED  BY <1>2, <1>3, <1>4 DEF Inv

(* Done with a packet, the render task has one packet more and goes on to    *)
(* the next, or has finished the frame.                                      *)
LEMMA Advanced ==
    ASSUME Inv, at["fx"] # "idle", Advance("fx"), UNCHANGED size
    PROVE  /\ packets' \in Seq(Packets) /\ offset' \in 0..size /\ cur' \in Nat
           /\ at' = [at EXCEPT !["fx"] = IF IsLast THEN "idle" ELSE "check"]
           /\ Built'
<1> DEFINE n == Len(packets)
           new == Packet
<1>1. /\ packets \in Seq(Packets) /\ n \in Nat
      /\ at \in [Senders -> Places] /\ "fx" \in Senders
      /\ offset \in Nat /\ size \in Nat /\ Chunk \in Nat /\ cur \in Nat
      /\ Consecutive /\ Unfinished /\ Numbered /\ Counted /\ size' = size
  BY ChunkAssumption, SizesAssumption
     DEF Inv, TypeOK, Built, Senders, Places, Packets
<1>2. /\ packets' = Append(packets, new) /\ cur' = cur + 1
      /\ offset' = offset + ChunkSize
      /\ at' = [at EXCEPT !["fx"] = IF IsLast THEN "idle" ELSE "check"]
  BY DEF Advance
<1>3. /\ ChunkSize \in Nat /\ offset + ChunkSize \in 0..size
      /\ new \in Packets /\ new.offset = offset /\ new.len = ChunkSize
      /\ new.push = IsLast /\ new.seq = cur % 16
      /\ IsLast <=> offset + ChunkSize = size
      /\ ~IsLast => ChunkSize = Chunk
  BY NextPacket
<1> HIDE DEF new
<1>4. /\ packets' \in Seq(Packets) /\ Len(packets') = n + 1
      /\ packets'[n + 1] = new
      /\ \A i \in 1..n : packets'[i] = packets[i]
  BY <1>1, <1>2, <1>3
<1> HIDE DEF n
<1>5. at'["fx"] = IF IsLast THEN "idle" ELSE "check"
  BY <1>1, <1>2
<1>6. /\ n = 0 => offset = 0
      /\ n > 0 => packets[1].offset = 0 /\ packets[n].offset + packets[n].len = offset
      /\ \A i \in 1..(n - 1) :
           packets[i + 1].offset = packets[i].offset + packets[i].len
      /\ offset = Chunk * n /\ \A i \in 1..n : ~packets[i].push
  BY <1>1 DEF Consecutive, Unfinished, n
<1>7. Consecutive'
  <2>1. packets'[n + 1].offset + packets'[n + 1].len = offset'
    BY <1>2, <1>3, <1>4
  <2>2. packets'[1].offset = 0
    BY <1>1, <1>3, <1>4, <1>6
  <2>3. ASSUME NEW i \in 1..n
        PROVE  packets'[i + 1].offset = packets'[i].offset + packets'[i].len
    <3>1. packets'[i] = packets[i]
      BY <1>4
    <3>2. CASE i = n
      BY <1>3, <1>4, <1>6, <2>3, <3>1, <3>2
    <3>3. CASE i # n
      <4>1. i \in 1..(n - 1) /\ i + 1 \in 1..n
        BY <1>1, <3>3
      <4>2. QED  BY <1>4, <1>6, <3>1, <4>1
    <3>4. QED  BY <3>2, <3>3
  <2>4. Len(packets') = n + 1 /\ (n + 1) - 1 = n /\ n + 1 > 0 /\ n + 1 # 0
    BY <1>1, <1>4
  <2>5. QED  BY <2>1, <2>2, <2>3, <2>4 DEF Consecutive
<1>8. at'["fx"] # "idle" => Unfinished'
  <2> SUFFICES ASSUME ~IsLast PROVE Unfinished'
    BY <1>5
  <2>1. offset' < size'
    BY <1>1, <1>2, <1>3
  <2>2. offset' = Chunk * (n + 1)
    BY <1>1, <1>2, <1>3, <1>6
  <2>3. ~packets'[n + 1].push
    BY <1>3, <1>4
  <2>4. \A i \in 1..(n + 1) : ~packets'[i].push
    <3> TAKE i \in 1..(n + 1)
    <3>1. CASE i = n + 1
      BY <2>3, <3>1
    <3>2. CASE i # n + 1
      <4>1. i \in 1..n
        BY <1>1, <3>2
      <4>2. QED  BY <1>4, <1>6, <4>1
    <3>3. QED  BY <3>1, <3>2
  <2>5. QED  BY <1>4, <2>1, <2>2, <2>4 DEF Unfinished
<1>9. at'["fx"] = "idle" => Finished'
  <2> SUFFICES ASSUME IsLast PROVE Finished'
    BY <1>5
  <2>1. offset' = size'
    BY <1>2, <1>3
  <2>2. packets'[n + 1].push
    BY <1>3, <1>4
  <2>3. \A i \in 1..(n + 1) : packets'[i].push <=> i = n + 1
    <3> TAKE i \in 1..(n + 1)
    <3>1. CASE i = n + 1
      BY <2>2, <3>1
    <3>2. CASE i # n + 1
      <4>1. i \in 1..n
        BY <1>1, <3>2
      <4>2. ~packets'[i].push
        BY <1>4, <1>6, <4>1
      <4>3. QED  BY <3>2, <4>2
    <3>3. QED  BY <3>1, <3>2
  <2>4. QED  BY <1>4, <2>1, <2>3 DEF Finished
<1>10. offset' \in 0..size /\ cur' \in Nat
  BY <1>1, <1>2, <1>3
<1>11. Numbered' /\ Counted'
  <2>1. /\ n = 0 => cur \in 1..15
        /\ n > 0 => packets[1].seq \in 1..15 /\ cur = packets[1].seq + n
        /\ n > 0 => \A i \in 1..n : packets[i].seq = (packets[1].seq + i - 1) % 16
    BY <1>1 DEF Numbered, Counted, n
  <2>2. packets'[1].seq \in 1..15 /\ cur = packets'[1].seq + n
    <3>1. CASE n = 0
      <4>1. packets'[1].seq = cur % 16 /\ cur \in 1..15
        BY <1>3, <1>4, <2>1, <3>1
      <4>2. cur % 16 = cur
        BY <4>1
      <4>3. QED  BY <3>1, <4>1, <4>2
    <3>2. CASE n # 0
      <4>1. n > 0 /\ packets'[1] = packets[1]
        BY <1>1, <1>4, <3>2
      <4>2. QED  BY <2>1, <4>1
    <3>3. QED  BY <3>1, <3>2
  <2>3. ASSUME NEW i \in 1..(n + 1)
        PROVE  packets'[i].seq = (packets'[1].seq + i - 1) % 16
    <3>1. CASE i = n + 1
      BY <1>1, <1>3, <1>4, <2>2, <3>1
    <3>2. CASE i # n + 1
      <4>1. i \in 1..n /\ 1 \in 1..n /\ n > 0
        BY <1>1, <3>2
      <4>2. packets'[i] = packets[i] /\ packets'[1] = packets[1]
        BY <1>4, <4>1
      <4>3. QED  BY <2>1, <4>1, <4>2
    <3>3. QED  BY <3>1, <3>2
  <2>4. cur' = packets'[1].seq + (n + 1)
    <3> DEFINE first == packets'[1].seq
    <3>1. first \in 1..15 /\ cur = first + n
      BY <2>2
    <3> HIDE DEF first
    <3>2. cur' = cur + 1 /\ n \in Nat
      BY <1>1, <1>2
    <3>3. cur' = first + (n + 1)
      BY <3>1, <3>2
    <3>4. QED  BY <3>3 DEF first
  <2>5. Len(packets') = n + 1 /\ n + 1 > 0 /\ n + 1 # 0
    BY <1>1, <1>4
  <2>6. QED  BY <2>2, <2>3, <2>4, <2>5 DEF Numbered, Counted
<1>12. QED  BY <1>2, <1>4, <1>7, <1>8, <1>9, <1>10, <1>11 DEF Built

(* A step of app_main's, or one that only changes place, leaves the frame.   *)
LEMMA FrameKept ==
    ASSUME Inv, UNCHANGED <<size, offset, cur, packets>>,
           at'["fx"] = "idle" <=> at["fx"] = "idle"
    PROVE  Built'
BY DEF Inv, Built, Consecutive, Numbered, Counted, Unfinished, Finished

(* Sockets: what each step does with them.                                   *)
LEMMA SocketStep ==
    ASSUME Inv, NEW t \in Senders, SendPacket(t)
    PROVE  /\ sock' \in Fds \union {NULL} /\ open' \subseteq Fds
           /\ at' \in [Senders -> Places]
           /\ \A u \in Senders : u # t => at'[u] = at[u]
           /\ at[t] # "idle"
<1>1. /\ sock \in Fds \union {NULL} /\ open \subseteq Fds
      /\ at \in [Senders -> Places]
  BY DEF Inv, TypeOK, Places
<1>2. sock' \in Fds \union {NULL} /\ open' \subseteq Fds
  <2>1. CASE Check(t) \/ Send(t) \/ Lose(t) \/ SendError(t)
    BY <1>1, <2>1 DEF Check, Send, Lose, SendError
  <2>2. CASE Create(t) \/ CreateFail(t) \/ CloseSocket(t)
    BY <1>1, <2>2 DEF Create, CreateFail, CloseSocket
  <2>3. QED  BY <2>1, <2>2 DEF SendPacket
<1>3. \E l \in Places : at' = [at EXCEPT ![t] = l]
  <2>1. Advance(t) => \E l \in Places : at' = [at EXCEPT ![t] = l]
    BY DEF Advance, Places
  <2>2. QED  BY <2>1, PacketStep DEF Places
<1>4. QED  BY <1>1, <1>2, <1>3, PacketStep

LEMMA TypeStep == Inv /\ [Next]_vars => TypeOK'
<1> SUFFICES ASSUME Inv, [Next]_vars PROVE TypeOK'
  OBVIOUS
<1>1. TypeOK /\ "fx" \in Senders
  BY DEF Inv, Senders
<1>2. CASE BeginFrame
  <2>1. NextSeq \in 1..15
    BY <1>1 DEF TypeOK, NextSeq
  <2>2. seq' \in 1..15 /\ cur' \in Nat
    BY <1>1, <1>2, <2>1 DEF TypeOK, BeginFrame
  <2>3. frame' \in 0..(Ids - 1)
    <3>1. frame \in Nat /\ Ids \in Nat /\ Ids > 0
      BY <1>1, IdsAssumption DEF TypeOK
    <3>2. (frame + 1) % Ids \in 0..(Ids - 1)
      BY <3>1
    <3>3. QED  BY <1>2, <3>2 DEF BeginFrame
  <2>4. offset' \in 0..size /\ packets' \in Seq(Packets)
    <3>1. size \in Nat
      BY <1>1, SizesAssumption DEF TypeOK
    <3>2. QED  BY <1>2, <3>1, EmptySeq DEF BeginFrame
  <2>5. at' \in [Senders -> Places]
    BY <1>1, <1>2 DEF TypeOK, BeginFrame, Places
  <2>6. UNCHANGED <<lossy, testing, size, sock, open, stored, shown>>
    BY <1>2 DEF BeginFrame, environment
  <2>7. QED  BY <1>1, <2>2, <2>3, <2>4, <2>5, <2>6 DEF TypeOK, Packets, Places
<1>3. ASSUME NEW t \in Senders, SendPacket(t)
      PROVE  TypeOK'
  <2>1. /\ UNCHANGED <<lossy, testing, size, seq, frame>>
        /\ Advance(t) \/ UNCHANGED <<offset, cur, packets>>
        /\ Deliver(t) \/ UNCHANGED <<stored, shown>>
        /\ at[t] # "idle"
    BY <1>3, PacketStep
  <2>2. packets' \in Seq(Packets) /\ offset' \in 0..size /\ cur' \in Nat
    <3>1. CASE UNCHANGED <<offset, cur, packets>>
      BY <1>1, <3>1 DEF TypeOK, Packets
    <3>2. CASE Advance(t) /\ t = "fx"
      BY <2>1, <3>2, Advanced
    <3>3. CASE Advance(t) /\ t = "main"
      BY <1>1, <3>3 DEF Advance, TypeOK, Packets
    <3>4. QED  BY <2>1, <3>1, <3>2, <3>3 DEF Senders
  <2>3. /\ stored' \in [Pieces(size) -> 0..(Ids - 1)]
        /\ shown' \in [Pieces(size) -> 0..(Ids - 1)]
    <3>1. /\ stored \in [Pieces(size) -> 0..(Ids - 1)]
          /\ shown \in [Pieces(size) -> 0..(Ids - 1)]
          /\ frame \in 0..(Ids - 1)
      BY <1>1 DEF TypeOK
    <3>2. CASE UNCHANGED <<stored, shown>>
      BY <3>1, <3>2
    <3>3. CASE Deliver(t)
      <4>1. CASE t = "main"
        BY <3>1, <3>3, <4>1 DEF Deliver
      <4>2. CASE t # "main"
        <5>1. /\ stored' = [stored EXCEPT ![offset \div Chunk] = frame]
              /\ shown' = IF IsLast THEN stored' ELSE shown
          BY <3>3, <4>2 DEF Deliver
        <5>2. stored' \in [Pieces(size) -> 0..(Ids - 1)]
          BY <3>1, <5>1
        <5>3. QED  BY <3>1, <5>1, <5>2
      <4>3. QED  BY <4>1, <4>2
    <3>4. QED  BY <2>1, <3>2, <3>3
  <2>4. /\ sock' \in Fds \union {NULL} /\ open' \subseteq Fds
        /\ at' \in [Senders -> Places]
    BY <1>3, SocketStep
  <2>5. QED  BY <1>1, <2>1, <2>2, <2>3, <2>4 DEF TypeOK, Packets, Places
<1>4. CASE UNCHANGED vars
  BY <1>1, <1>4 DEF TypeOK, vars, environment
<1>5. QED  BY <1>2, <1>3, <1>4 DEF Next

LEMMA BuiltStep == Inv /\ [Next]_vars => Built'
<1> SUFFICES ASSUME Inv, [Next]_vars PROVE Built'
  OBVIOUS
<1>1. Built /\ at \in [Senders -> Places] /\ "fx" \in Senders /\ "fx" # "main"
  BY DEF Inv, TypeOK, Senders, Places
<1>2. CASE BeginFrame
  <2>1. /\ packets' = <<>> /\ offset' = 0 /\ at'["fx"] = "check" /\ cur' \in 1..15
        /\ size' = size /\ size \in Nat \ {0} /\ Chunk \in Nat
    BY <1>1, <1>2, SizesAssumption, ChunkAssumption
       DEF BeginFrame, environment, Inv, TypeOK
  <2>2. Len(packets') = 0
    BY <2>1
  <2>3. QED  BY <2>1, <2>2 DEF Built, Consecutive, Numbered, Counted, Unfinished
<1>3. ASSUME NEW t \in Senders, SendPacket(t)
      PROVE  Built'
  <2>1. CASE Advance(t) /\ t = "fx"
    BY <1>3, <2>1, PacketStep, Advanced
  <2>2. CASE Advance(t) /\ t = "main"
    <3>1. UNCHANGED <<size, offset, cur, packets>> /\ at'["fx"] = at["fx"]
      BY <1>1, <1>3, <2>2, PacketStep DEF Advance
    <3>2. QED  BY <3>1, FrameKept
  <2>3. CASE /\ UNCHANGED <<offset, cur, packets>>
             /\ \E l \in {"create", "send", "close"} : at' = [at EXCEPT ![t] = l]
    <3>1. PICK l \in {"create", "send", "close"} : at' = [at EXCEPT ![t] = l]
      BY <2>3
    <3>2. at'["fx"] = "idle" <=> at["fx"] = "idle"
      BY <1>1, <1>3, <3>1, PacketStep
    <3>3. size' = size
      BY <1>3, PacketStep
    <3>4. QED  BY <2>3, <3>2, <3>3, FrameKept
  <2>4. QED  BY <1>3, <2>1, <2>2, <2>3, PacketStep DEF Senders
<1>4. CASE UNCHANGED vars
  BY <1>4, FrameKept DEF vars, environment
<1>5. QED  BY <1>2, <1>3, <1>4 DEF Next

LEMMA SingleStep == Inv /\ [Next]_vars => Single'
<1> SUFFICES ASSUME Inv, [Next]_vars, ~testing'
             PROVE  /\ at'["main"] = "idle" /\ open' \subseteq {sock'}
                    /\ at'["fx"] = "create" => open' = {}
  BY DEF Single
<1>1. /\ Single /\ at \in [Senders -> Places] /\ open \subseteq Fds
      /\ sock \in Fds \union {NULL} /\ "fx" \in Senders /\ "main" \in Senders
      /\ "fx" # "main"
  BY DEF Inv, TypeOK, Senders, Places
<1>2. CASE BeginFrame
  BY <1>1, <1>2 DEF BeginFrame, environment, Single
<1>3. ASSUME NEW t \in Senders, SendPacket(t)
      PROVE  /\ at'["main"] = "idle" /\ open' \subseteq {sock'}
             /\ at'["fx"] = "create" => open' = {}
  <2>1. ~testing
    BY <1>3, PacketStep
  <2>2. at["main"] = "idle" /\ t = "fx"
    BY <1>1, <1>3, <2>1, PacketStep DEF Single, Senders
  <2>3. at'["main"] = "idle"
    BY <1>1, <1>3, <2>2, SocketStep
  <2>4. open \subseteq {sock} /\ (at["fx"] = "create" => open = {})
    BY <1>1, <2>1 DEF Single
  <2>5. Advance("fx") => at'["fx"] # "create"
    BY <1>1 DEF Advance
  <2>6. CASE Check("fx")
    BY <1>1, <2>3, <2>4, <2>6, NullAssumption DEF Check
  <2>7. CASE Create("fx")
    BY <1>1, <2>3, <2>4, <2>7 DEF Create
  <2>8. CASE CreateFail("fx")
    BY <2>3, <2>4, <2>8 DEF CreateFail
  <2>9. CASE Send("fx") \/ Lose("fx")
    BY <2>3, <2>4, <2>5, <2>9 DEF Send, Lose
  <2>10. CASE SendError("fx")
    BY <1>1, <2>3, <2>4, <2>10 DEF SendError
  <2>11. CASE CloseSocket("fx")
    BY <2>3, <2>4, <2>11 DEF CloseSocket
  <2>12. SendPacket("fx")
    BY <1>3, <2>2
  <2>13. QED
    BY <2>6, <2>7, <2>8, <2>9, <2>10, <2>11, <2>12 DEF SendPacket
<1>4. CASE UNCHANGED vars
  BY <1>1, <1>4 DEF vars, environment, Single
<1>5. QED  BY <1>2, <1>3, <1>4 DEF Next

(* The invariant holds throughout.                                           *)
LEMMA Invariance == Spec => []Inv
<1>1. Inv /\ [Next]_vars => Inv'
  BY TypeStep, BuiltStep, SingleStep DEF Inv
<1>2. QED  BY InitInv, <1>1, PTL DEF Spec
-----------------------------------------------------------------------------
(* A frame's number is 1 to 15, what its packets carry of it fits the four   *)
(* bits of the header (0 included), a packet is never empty nor longer than  *)
(* DDP_MAX_PAYLOAD, and the frame is never overrun, for every size.          *)
THEOREM TypeCorrect == Spec => []TypeOK
<1>1. Inv => TypeOK
  BY DEF Inv
<1>2. QED  BY Invariance, <1>1, PTL

(* The packets of a frame cover its payload without gap or overlap, the last *)
(* alone carries the push, and they are numbered one after the other modulo  *)
(* 16 from a number of 1 to 15, for every size of payload and packet.        *)
THEOREM PacketsTile == Spec => []Tiled
<1>1. Inv => Tiled
  <2> SUFFICES ASSUME Inv, at["fx"] = "idle", Len(packets) > 0 PROVE Tiled
    BY DEF Tiled
  <2>1. Consecutive /\ Finished /\ Numbered
    BY DEF Inv, Built
  <2>2. QED  BY <2>1 DEF Consecutive, Finished, Numbered, Tiled
<1>2. QED  BY Invariance, <1>1, PTL

(* As long as the render task is the only sender, no socket is forgotten     *)
(* while it is open, whatever fails and however many sockets there are.      *)
THEOREM NoSocketForgotten == Spec => []OneSocket
<1>1. Inv => OneSocket
  BY DEF Inv, Single, OneSocket
<1>2. QED  BY Invariance, <1>1, PTL
-----------------------------------------------------------------------------
(* A network that loses nothing and has a socket for either sender: every    *)
(* packet arrives.                                                           *)
TwoSockets == \E x, y \in Fds : x # y

Smooth ==
    ~lossy =>
      /\ \A t \in Senders : at[t] # "close"
      /\ \A t \in Senders : at[t] = "send" => sock \in open
      /\ sock # NULL => sock \in open
      /\ sock = NULL => open = {}
      /\ \A t \in Senders : at[t] = "create" => \E fd \in Fds : open \subseteq {fd}
      /\ at["fx"] = "create" /\ at["main"] = "create" => open = {}

(* The device has the packets sent so far, and shows the frame before.       *)
Pictured ==
    ~lossy =>
      /\ \A i \in Pieces(size) : shown[i] = shown[0]
      /\ at["fx"] = "idle" => frame = shown[0]
      /\ at["fx"] # "idle" =>
           /\ frame = (shown[0] + 1) % Ids
           /\ \A i \in Pieces(size) : i < Len(packets) => stored[i] = frame

LosslessInv == Inv /\ Smooth /\ Pictured

(* A packet that starts at a multiple of Chunk is stored at that place, and  *)
(* the last one is stored at the last.                                       *)
LEMMA PieceOf ==
    ASSUME NEW n \in Nat, NEW s \in Nat \ {0}
    PROVE  /\ (Chunk * n) \div Chunk = n
           /\ 0 \in Pieces(s) /\ Pieces(s) \subseteq Nat
           /\ s <= Chunk * n + Chunk => \A i \in Pieces(s) : i < n + 1
<1> DEFINE last == (s - 1) \div Chunk
<1>1. Chunk \in Nat /\ Chunk > 0 /\ s - 1 \in Nat
  BY ChunkAssumption
<1>2. (Chunk * n) \div Chunk = n
  BY <1>1
<1>3. last \in Nat /\ Chunk * last <= s - 1
  BY <1>1
<1> HIDE DEF last
<1>4. ASSUME s <= Chunk * n + Chunk, n + 1 <= last
      PROVE  FALSE
  <2>1. Chunk * (n + 1) <= Chunk * last
    BY <1>1, <1>3, <1>4
  <2>2. QED  BY <1>1, <1>3, <1>4, <2>1
<1>5. s <= Chunk * n + Chunk => last < n + 1
  BY <1>3, <1>4
<1>6. Pieces(s) = 0..last
  BY DEF Pieces, last
<1>7. QED  BY <1>2, <1>3, <1>5, <1>6

LEMMA SmoothStep ==
    ASSUME TwoSockets
    PROVE  LosslessInv /\ [Next]_vars => Smooth'
<1> SUFFICES ASSUME LosslessInv, [Next]_vars, ~lossy' PROVE Smooth'
  BY DEF Smooth
<1>1. ~lossy
  <2>1. UNCHANGED lossy
    BY PacketStep DEF Next, BeginFrame, environment, vars
  <2>2. QED  BY <2>1
<1>2. /\ \A t \in Senders : at[t] # "close"
      /\ \A t \in Senders : at[t] = "send" => sock \in open
      /\ sock # NULL => sock \in open
      /\ sock = NULL => open = {}
      /\ \A t \in Senders : at[t] = "create" => \E fd \in Fds : open \subseteq {fd}
      /\ at["fx"] = "create" /\ at["main"] = "create" => open = {}
  BY <1>1 DEF LosslessInv, Smooth
<1>3. /\ at \in [Senders -> Places] /\ open \subseteq Fds /\ NULL \notin Fds
      /\ Senders = {"fx", "main"} /\ "fx" # "main"
  BY NullAssumption DEF LosslessInv, Inv, TypeOK, Senders, Places
<1>4. ASSUME UNCHANGED <<sock, open>>,
             \A t \in Senders : at'[t] = at[t] \/ at'[t] \in {"idle", "check"}
      PROVE  Smooth'
  <2>1. \A t \in Senders : at'[t] \in {"close", "send", "create"} => at'[t] = at[t]
    BY <1>4
  <2>2. QED  BY <1>2, <1>3, <1>4, <2>1 DEF Smooth
<1>5. CASE BeginFrame
  BY <1>3, <1>4, <1>5 DEF BeginFrame
<1>6. ASSUME NEW t \in Senders, SendPacket(t)
      PROVE  Smooth'
  <2>1. CASE Check(t)
    <3>1. UNCHANGED <<sock, open>>
      BY <2>1 DEF Check
    <3>2. /\ at'[t] = IF sock = NULL THEN "create" ELSE "send"
          /\ \A u \in Senders : u # t => at'[u] = at[u]
      BY <1>3, <2>1 DEF Check
    <3>3. sock = NULL => \E fd \in Fds : open \subseteq {fd}
      BY <1>2 DEF TwoSockets
    <3>4. QED  BY <1>2, <1>3, <3>1, <3>2, <3>3 DEF Smooth
  <2>2. CASE Create(t)
    <3>1. PICK fd \in Fds \ open : sock' = fd /\ open' = open \union {fd}
      BY <2>2 DEF Create
    <3>2. /\ at'[t] = "send" /\ at[t] = "create"
          /\ \A u \in Senders : u # t => at'[u] = at[u]
      BY <1>3, <2>2 DEF Create
    <3>3. sock' \in open' /\ sock' # NULL
      BY <1>3, <3>1
    <3>4. ASSUME NEW u \in Senders, at'[u] = "create"
          PROVE  open' \subseteq {fd}
      <4>1. u # t /\ at[u] = "create"
        BY <3>2, <3>4
      <4>2. open = {}
        BY <1>2, <1>3, <3>2, <4>1
      <4>3. QED  BY <3>1, <4>2
    <3>5. ~(at'["fx"] = "create" /\ at'["main"] = "create")
      BY <1>3, <3>2
    <3>6. \A u \in Senders : at'[u] # "close"
      BY <1>2, <3>2
    <3>7. QED  BY <3>1, <3>3, <3>4, <3>5, <3>6 DEF Smooth
  <2>3. CASE CreateFail(t)
    <3>1. at[t] = "create" /\ open = Fds
      BY <1>1, <2>3 DEF CreateFail
    <3>2. QED  BY <1>2, <3>1 DEF TwoSockets
  <2>4. CASE Send(t)
    <3>1. Advance(t) => \A u \in Senders : at'[u] = at[u] \/ at'[u] \in {"idle", "check"}
      BY <1>3 DEF Advance
    <3>2. QED  BY <1>4, <2>4, <3>1 DEF Send
  <2>5. CASE Lose(t) \/ SendError(t) \/ CloseSocket(t)
    BY <1>1, <1>2, <2>5 DEF Lose, SendError, CloseSocket
  <2>6. QED  BY <1>6, <2>1, <2>2, <2>3, <2>4, <2>5 DEF SendPacket
<1>7. CASE UNCHANGED vars
  BY <1>4, <1>7 DEF vars
<1>8. QED  BY <1>5, <1>6, <1>7 DEF Next

(* A packet of the render task arrives: the picture grows by one piece, and  *)
(* the last one shows the frame.                                             *)
LEMMA Arrived ==
    ASSUME LosslessInv, ~lossy, ~lossy', Advance("fx"), Deliver("fx"),
           at["fx"] # "idle", UNCHANGED <<size, frame>>
    PROVE  /\ Pictured'
           /\ ~IsLast => shown' = shown
           /\ IsLast => shown'[0] = (shown[0] + 1) % Ids
<1> DEFINE n == Len(packets)
<1>1. /\ Inv /\ n \in Nat /\ size \in Nat \ {0} /\ packets \in Seq(Packets)
      /\ stored \in [Pieces(size) -> 0..(Ids - 1)]
      /\ at \in [Senders -> Places] /\ "fx" \in Senders
      /\ offset = Chunk * n
  BY SizesAssumption
     DEF LosslessInv, Inv, TypeOK, Senders, Places, Packets, Built, Unfinished
<1>2. /\ \A i \in Pieces(size) : shown[i] = shown[0]
      /\ frame = (shown[0] + 1) % Ids
      /\ \A i \in Pieces(size) : i < n => stored[i] = frame
  BY DEF LosslessInv, Pictured
<1>3. offset \div Chunk = n
  BY <1>1, PieceOf
<1>4. /\ stored' = [stored EXCEPT ![n] = frame]
      /\ shown' = IF IsLast THEN stored' ELSE shown
  BY <1>3 DEF Deliver
<1>5. Len(packets') = n + 1
  BY <1>1 DEF Advance
<1>6. at'["fx"] = IF IsLast THEN "idle" ELSE "check"
  BY <1>1, Advanced
<1> HIDE DEF n
<1>7. \A i \in Pieces(size) : i < n + 1 => stored'[i] = frame
  <2> TAKE i \in Pieces(size)
  <2>1. i \in Nat
    BY <1>1, PieceOf
  <2>2. CASE i = n
    BY <1>1, <1>4, <2>2
  <2>3. CASE i # n
    BY <1>1, <1>2, <1>4, <2>1, <2>3
  <2>4. QED  BY <2>2, <2>3
<1>8. CASE IsLast
  <2>1. size <= Chunk * n + Chunk
    BY <1>1, <1>8, NextPacket
  <2>2. \A i \in Pieces(size) : i < n + 1
    BY <1>1, <2>1, PieceOf
  <2>3. shown' = stored' /\ 0 \in Pieces(size)
    BY <1>1, <1>4, <1>8, PieceOf
  <2>4. \A i \in Pieces(size) : shown'[i] = frame
    BY <1>7, <2>2, <2>3
  <2>5. shown'[0] = frame
    BY <2>3, <2>4
  <2>6. at'["fx"] = "idle"
    BY <1>6, <1>8
  <2>7. QED  BY <1>2, <1>8, <2>4, <2>5, <2>6 DEF Pictured
<1>9. CASE ~IsLast
  <2>1. shown' = shown /\ at'["fx"] # "idle"
    BY <1>4, <1>6, <1>9
  <2>2. QED  BY <1>2, <1>5, <1>7, <1>9, <2>1 DEF Pictured
<1>10. QED  BY <1>8, <1>9

(* Without losses, a step of a sender is a packet that arrives, or leaves    *)
(* what the device has alone.                                                *)
LEMMA LosslessStep ==
    ASSUME TwoSockets, LosslessInv, ~lossy, NEW t \in Senders, SendPacket(t)
    PROVE  \/ t = "fx" /\ Advance("fx") /\ Deliver("fx")
           \/ /\ UNCHANGED <<size, frame, packets, stored, shown>>
              /\ at'["fx"] = "idle" <=> at["fx"] = "idle"
<1>1. /\ at \in [Senders -> Places] /\ "fx" # "main" /\ t \in {"fx", "main"}
      /\ UNCHANGED <<size, frame>> /\ at[t] # "idle"
  BY PacketStep DEF LosslessInv, Inv, TypeOK, Places, Senders
<1>2. CASE Send(t)
  <2>1. CASE t = "fx"
    BY <1>2, <2>1 DEF Send
  <2>2. CASE t = "main"
    <3>1. UNCHANGED <<packets, stored, shown>> /\ at' = [at EXCEPT !["main"] = "idle"]
      BY <1>2, <2>2 DEF Send, Advance, Deliver
    <3>2. at'["fx"] = at["fx"]
      BY <1>1, <3>1 DEF Senders
    <3>3. QED  BY <1>1, <3>1, <3>2
  <2>3. QED  BY <1>1, <2>1, <2>2
<1>3. CASE Check(t)
  BY <1>1, <1>3 DEF Check, Senders
<1>4. CASE Create(t)
  BY <1>1, <1>4 DEF Create, Senders
<1>5. CASE CreateFail(t) \/ Lose(t) \/ SendError(t) \/ CloseSocket(t)
  <2>1. /\ at[t] # "close"
        /\ at[t] = "send" => sock \in open
        /\ at[t] = "create" => \E fd \in Fds : open \subseteq {fd}
    BY DEF LosslessInv, Smooth
  <2>2. ~CreateFail(t)
    BY <2>1 DEF CreateFail, TwoSockets
  <2>3. QED  BY <1>5, <2>1, <2>2 DEF Lose, SendError, CloseSocket
<1>6. QED  BY <1>2, <1>3, <1>4, <1>5 DEF SendPacket

LEMMA PicturedStep ==
    ASSUME TwoSockets
    PROVE  LosslessInv /\ [Next]_vars
             => /\ Pictured'
                /\ ~lossy => shown' = shown \/ shown'[0] = (shown[0] + 1) % Ids
<1> SUFFICES ASSUME LosslessInv, [Next]_vars
             PROVE  /\ Pictured'
                    /\ ~lossy => shown' = shown \/ shown'[0] = (shown[0] + 1) % Ids
  OBVIOUS
<1>1. UNCHANGED lossy
  BY PacketStep DEF Next, BeginFrame, environment, vars
<1>2. SUFFICES ASSUME ~lossy
               PROVE  /\ Pictured'
                      /\ shown' = shown \/ shown'[0] = (shown[0] + 1) % Ids
  BY <1>1 DEF Pictured
<1>3. /\ \A i \in Pieces(size) : shown[i] = shown[0]
      /\ at["fx"] = "idle" => frame = shown[0]
      /\ at["fx"] # "idle" =>
           /\ frame = (shown[0] + 1) % Ids
           /\ \A i \in Pieces(size) : i < Len(packets) => stored[i] = frame
  BY <1>2 DEF LosslessInv, Pictured
<1>4. /\ at \in [Senders -> Places] /\ "fx" \in Senders /\ size \in Nat \ {0}
  BY SizesAssumption DEF LosslessInv, Inv, TypeOK, Places, Senders
<1>5. CASE BeginFrame
  <2>1. /\ frame' = (shown[0] + 1) % Ids /\ at'["fx"] = "check"
        /\ packets' = <<>> /\ UNCHANGED <<size, shown>>
    BY <1>3, <1>4, <1>5 DEF BeginFrame, environment
  <2>2. \A i \in Pieces(size) : ~(i < 0)
    BY <1>4, PieceOf
  <2>3. Len(packets') = 0
    BY <2>1
  <2>4. QED  BY <1>3, <2>1, <2>2, <2>3 DEF Pictured
<1>6. ASSUME NEW t \in Senders, SendPacket(t)
      PROVE  /\ Pictured'
             /\ shown' = shown \/ shown'[0] = (shown[0] + 1) % Ids
  <2>1. CASE t = "fx" /\ Advance("fx") /\ Deliver("fx")
    <3>1. at["fx"] # "idle" /\ UNCHANGED <<size, frame>>
      BY <1>6, <2>1, PacketStep
    <3>2. QED  BY <1>1, <1>2, <2>1, <3>1, Arrived
  <2>2. CASE /\ UNCHANGED <<size, frame, packets, stored, shown>>
             /\ at'["fx"] = "idle" <=> at["fx"] = "idle"
    BY <1>3, <2>2 DEF Pictured
  <2>3. QED  BY <1>2, <1>6, <2>1, <2>2, LosslessStep
<1>7. CASE UNCHANGED vars
  BY <1>3, <1>7 DEF Pictured, vars, environment
<1>8. QED  BY <1>5, <1>6, <1>7 DEF Next

LEMMA LosslessInvariance ==
    ASSUME TwoSockets
    PROVE  Spec => []LosslessInv
<1>1. Init => LosslessInv
  <2> SUFFICES ASSUME Init PROVE LosslessInv
    OBVIOUS
  <2>1. size \in Nat \ {0} /\ 0 \in Pieces(size)
    BY SizesAssumption, PieceOf DEF Init
  <2>2. Pictured
    BY <2>1 DEF Init, Pictured, Senders
  <2>3. Smooth
    <3>1. \A t \in Senders : at[t] \in {"idle", "check"}
      BY DEF Init, Senders
    <3>2. at["fx"] = "idle" /\ open = {} /\ sock = NULL
      BY DEF Init
    <3>3. QED  BY <3>1, <3>2 DEF Smooth
  <2>4. QED  BY InitInv, <2>2, <2>3 DEF LosslessInv
<1>2. LosslessInv /\ [Next]_vars => LosslessInv'
  BY TypeStep, BuiltStep, SingleStep, SmoothStep, PicturedStep DEF LosslessInv, Inv
<1>3. QED  BY <1>1, <1>2, PTL DEF Spec

(* The sender implements DdpDisplay, but for its fairness: with a socket for *)
(* either sender, on a network that loses nothing, the device shows whole    *)
(* frames, one after the other, whatever their size and that of a packet.    *)
THEOREM ShowsWholeFrames ==
    ASSUME TwoSockets
    PROVE  Spec => Display!Shows
<1> DEFINE picture == IF Whole THEN shown[0] ELSE Ids
<1>1. Init => Display!Init
  <2> SUFFICES ASSUME Init PROVE lossy \in BOOLEAN /\ picture = 0
    BY DEF Display!Init
  <2>1. size \in Nat \ {0}
    BY SizesAssumption DEF Init
  <2>2. 0 \in Pieces(size)
    BY <2>1, PieceOf
  <2>3. \A i \in DOMAIN shown : shown[i] = 0 /\ shown[0] = 0
    BY <2>2 DEF Init
  <2>4. shown[0] = 0
    BY <2>2 DEF Init
  <2>5. QED  BY <2>3, <2>4 DEF Init, Whole
<1>2. ASSUME LosslessInv, LosslessInv', [Next]_vars
      PROVE  [Display!Show \/ Display!Whatever]_(Display!vars)
  <2>1. UNCHANGED lossy
    BY <1>2, PacketStep DEF Next, BeginFrame, environment, vars
  <2>2. CASE lossy
    <3>1. /\ size' \in Nat \ {0} /\ Ids \in Nat \ {0}
          /\ shown' \in [Pieces(size') -> 0..(Ids - 1)]
      BY <1>2, SizesAssumption, IdsAssumption DEF LosslessInv, Inv, TypeOK
    <3>2. shown'[0] \in 0..(Ids - 1)
      <4>1. 0 \in Pieces(size')
        BY <3>1, PieceOf
      <4>2. QED  BY <3>1, <4>1
    <3>3. picture' \in 0..Ids
      BY <3>1, <3>2
    <3>4. QED  BY <2>1, <2>2, <3>3 DEF Display!Whatever
  <2>3. CASE ~lossy
    <3>1. Whole /\ Whole'
      <4>1. DOMAIN shown = Pieces(size) /\ DOMAIN shown' = Pieces(size')
        BY <1>2 DEF LosslessInv, Inv, TypeOK
      <4>2. /\ \A i \in Pieces(size) : shown[i] = shown[0]
            /\ \A i \in Pieces(size') : shown'[i] = shown'[0]
        BY <1>2, <2>1, <2>3 DEF LosslessInv, Pictured, Pieces
      <4>3. QED  BY <4>1, <4>2 DEF Whole
    <3>2. picture = shown[0] /\ picture' = shown'[0]
      BY <3>1
    <3>3. shown' = shown \/ shown'[0] = (shown[0] + 1) % Ids
      BY <1>2, <2>3, PicturedStep
    <3>4. CASE shown' = shown
      BY <2>1, <3>2, <3>4 DEF Display!vars
    <3>5. CASE shown'[0] = (shown[0] + 1) % Ids
      BY <2>1, <2>3, <3>2, <3>5 DEF Display!Show
    <3>6. QED  BY <3>3, <3>4, <3>5
  <2>4. QED  BY <2>2, <2>3
<1>3. QED
  BY LosslessInvariance, <1>1, <1>2, PTL DEF Spec, Display!Shows
=============================================================================
