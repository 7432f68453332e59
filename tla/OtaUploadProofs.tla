-------------------------- MODULE OtaUploadProofs ---------------------------
(***************************************************************************)
(* What an upload writes and what is booted, for every length of marker,   *)
(* reserve, read and stream.  The invariant follows the handler through    *)
(* the stream: before the file nothing is written; in the file the data    *)
(* accumulated begins where the writes end, is no longer than the reserve  *)
(* and does not hold the end marker, so its beginning is not behind the    *)
(* file; after the file all of it is written, less what CR LFs it ends in. *)
(***************************************************************************)
EXTENDS OtaUpload, SequenceTheorems, TLAPS

BeforeFile == ~inFile /\ lo = 0 /\ got < FileStart /\ written = 0

InFile ==
  /\ inFile /\ got < EndMarker + Marker
  /\ FileStart <= lo /\ lo <= FileEnd
  /\ pc # "finish" => lo = FileStart + written /\ got - lo <= Reserve
  /\ pc = "finish" => got = FileStart + written

AfterFile ==
  /\ ~inFile /\ got >= EndMarker + Marker /\ lo > stream.pre
  /\ written <= stream.file
  /\ stream.crlfs = 0 => written = stream.file

Written == /\ written <= Len(slot)
           /\ SubSeq(slot, 1, written) = Bytes(FileStart, FileStart + written)

Parsed == Uploading => Written /\ (BeforeFile \/ InFile \/ AfterFile)

Judged == reply = "corrupt" => /\ pc = "idle"
                               /\ got < FileEnd \/ stream.crlfs > 0

RestartDue ==
  PromptRestart => /\ boot = "slot" => restart /\ Whole
                   /\ restart => ~Uploading /\ ~updater

Inv == TypeOK /\ OneUpdate /\ Parsed /\ Judged /\ RestartDue
-----------------------------------------------------------------------------
(* The parts of a stream follow each other.                                *)
LEMMA Layout ==
  ASSUME stream \in Streams
  PROVE  /\ stream.pre \in Nat /\ stream.head \in Nat /\ stream.file \in Nat
         /\ stream.crlfs \in Nat /\ stream.known \in BOOLEAN
         /\ FileStart = stream.pre + stream.head
         /\ stream.pre + Marker < FileStart
         /\ FileEnd = FileStart + stream.file
         /\ EndMarker = FileEnd + 2
         /\ Total = EndMarker + Marker + 4
         /\ FileStart \in Nat /\ FileEnd \in Nat /\ EndMarker \in Nat
         /\ Total \in Nat /\ stream.file > 0 /\ Marker \in Nat
<1>1. stream \in [pre : Nat, head : Nat, file : Nat \ {0}, crlfs : Nat,
                  known : BOOLEAN]
  BY StreamsAssumption
<1>2. Marker < stream.head
  BY StreamsAssumption
<1>3. QED
  BY <1>1, <1>2, LengthsAssumption, SMT
     DEF FileStart, FileEnd, EndMarker, Total

(* What is used of the types of the parser's state.                        *)
LEMMA ParserTypes ==
  ASSUME TypeOK
  PROVE  /\ stream \in Streams /\ slot \in Seq(Nat) /\ written \in Nat
         /\ got \in Nat /\ got <= Total /\ lo \in Nat /\ lo <= got
         /\ inFile \in BOOLEAN
<1>1. /\ stream \in Streams /\ slot \in Seq(Nat) /\ written \in Nat
      /\ got \in 0..Total /\ lo \in 0..got /\ inFile \in BOOLEAN
  BY DEF TypeOK
<1>2. Total \in Nat
  BY <1>1, Layout
<1>3. got \in Nat /\ got <= Total
  BY <1>1, <1>2, SMT
<1>4. lo \in Nat /\ lo <= got
  BY <1>1, <1>3, SMT
<1>5. QED  BY <1>1, <1>3, <1>4

(* A step that keeps the stream keeps its parts.                           *)
LEMMA SameLayout ==
  ASSUME stream' = stream
  PROVE  /\ FileStart' = FileStart /\ FileEnd' = FileEnd
         /\ EndMarker' = EndMarker /\ Total' = Total /\ Image' = Image
BY DEF FileStart, FileEnd, EndMarker, Total, Image, Bytes

(* Bytes are a sequence as long as the places are apart.                   *)
LEMMA BytesProperties ==
  ASSUME NEW a \in Nat, NEW b \in Nat, a <= b
  PROVE  /\ Bytes(a, b) \in Seq(Nat)
         /\ Len(Bytes(a, b)) = b - a
         /\ \A i \in 1..(b - a) : Bytes(a, b)[i] = a + i - 1
<1>1. \A i \in 1..(b - a) : a + i - 1 \in Nat
  BY SMT
<1>2. b - a \in Nat
  BY SMT
<1>3. QED  BY <1>1, <1>2, SMT DEF Bytes

(* Adjacent bytes make one run.                                            *)
LEMMA BytesConcatenate ==
  ASSUME NEW a \in Nat, NEW b \in Nat, NEW c \in Nat, a <= b, b <= c
  PROVE  Bytes(a, b) \o Bytes(b, c) = Bytes(a, c)
<1> DEFINE s == Bytes(a, b) \o Bytes(b, c)
<1>1. /\ Bytes(a, b) \in Seq(Nat) /\ Len(Bytes(a, b)) = b - a
      /\ \A i \in 1..(b - a) : Bytes(a, b)[i] = a + i - 1
  BY BytesProperties
<1>2. /\ Bytes(b, c) \in Seq(Nat) /\ Len(Bytes(b, c)) = c - b
      /\ \A i \in 1..(c - b) : Bytes(b, c)[i] = b + i - 1
  BY BytesProperties
<1>3. a <= c
  BY SMT
<1>4. /\ Bytes(a, c) \in Seq(Nat) /\ Len(Bytes(a, c)) = c - a
      /\ \A i \in 1..(c - a) : Bytes(a, c)[i] = a + i - 1
  BY <1>3, BytesProperties
<1>5. /\ s \in Seq(Nat)
      /\ Len(s) = Len(Bytes(a, b)) + Len(Bytes(b, c))
      /\ \A i \in 1..Len(s) : s[i] = IF i <= Len(Bytes(a, b))
                                     THEN Bytes(a, b)[i]
                                     ELSE Bytes(b, c)[i - Len(Bytes(a, b))]
  <2>1. ASSUME NEW p \in Seq(Nat), NEW q \in Seq(Nat)
        PROVE  /\ p \o q \in Seq(Nat)
               /\ Len(p \o q) = Len(p) + Len(q)
               /\ \A i \in 1..Len(p \o q) :
                    (p \o q)[i] = IF i <= Len(p) THEN p[i] ELSE q[i - Len(p)]
    <3> HIDE DEF s
    <3>1. /\ p \o q \in Seq(Nat) /\ Len(p \o q) = Len(p) + Len(q)
          /\ \A i \in 1..(Len(p) + Len(q)) :
               (p \o q)[i] = IF i <= Len(p) THEN p[i] ELSE q[i - Len(p)]
      BY ConcatProperties
    <3>2. QED  BY <3>1
  <2>2. Bytes(a, b) \in Seq(Nat) /\ Bytes(b, c) \in Seq(Nat)
    BY <1>1, <1>2
  <2>3. QED  BY ONLY <2>1, <2>2
<1>6. Len(s) = c - a
  BY <1>1, <1>2, <1>5, SMT
<1>7. ASSUME NEW i \in 1..(c - a)  PROVE s[i] = a + i - 1
  <2>1. CASE i <= b - a
    <3>1. i \in 1..(b - a)  BY <2>1
    <3>2. s[i] = Bytes(a, b)[i]  BY <1>1, <1>5, <1>6, <2>1
    <3>3. QED  BY <1>1, <3>1, <3>2
  <2>2. CASE ~(i <= b - a)
    <3>1. i - (b - a) \in 1..(c - b) /\ b + (i - (b - a)) - 1 = a + i - 1
      BY <2>2, SMT
    <3>2. s[i] = Bytes(b, c)[i - (b - a)]  BY <1>1, <1>5, <1>6, <2>2
    <3>3. QED  BY <1>2, <3>1, <3>2
  <2>3. QED  BY <2>1, <2>2
<1>8. \A i \in 1..Len(s) : s[i] = Bytes(a, c)[i]
  BY <1>4, <1>6, <1>7
<1>9. QED  BY <1>4, <1>5, <1>6, <1>8, SeqEqual

(* The first bytes of a run are the run up to there.                       *)
LEMMA BytesPrefix ==
  ASSUME NEW a \in Nat, NEW b \in Nat, NEW c \in Nat, a <= b, b <= c
  PROVE  SubSeq(Bytes(a, c), 1, b - a) = Bytes(a, b)
<1> DEFINE s == SubSeq(Bytes(a, c), 1, b - a)
<1>1. /\ Bytes(a, b) \in Seq(Nat) /\ Len(Bytes(a, b)) = b - a
      /\ \A i \in 1..(b - a) : Bytes(a, b)[i] = a + i - 1
  BY BytesProperties
<1>2. a <= c
  BY SMT
<1>3. /\ Len(Bytes(a, c)) = c - a
      /\ \A i \in 1..(c - a) : Bytes(a, c)[i] = a + i - 1
  BY <1>2, BytesProperties
<1>4. \A i \in 1..(b - a) : /\ i \in 1..(c - a)
                            /\ a + i - 1 \in Nat /\ 1 + i - 1 = i
  BY SMT
<1>5. \A i \in 1..(b - a) : Bytes(a, c)[i] \in Nat
  BY <1>3, <1>4
<1>6. b - a \in Nat /\ 1 \in Int /\ b - a \in Int
  BY SMT
<1>7. /\ s \in Seq(Nat)
      /\ Len(s) = IF 1 <= b - a THEN b - a - 1 + 1 ELSE 0
      /\ \A i \in 1..(b - a - 1 + 1) : s[i] = Bytes(a, c)[1 + i - 1]
  BY <1>5, <1>6, SubSeqProperties
<1>8. Len(s) = b - a /\ b - a - 1 + 1 = b - a
  BY <1>6, <1>7, SMT
<1>9. \A i \in 1..Len(s) : s[i] = Bytes(a, b)[i]
  BY <1>1, <1>3, <1>4, <1>7, <1>8
<1>10. QED  BY <1>1, <1>7, <1>8, <1>9, SeqEqual
-----------------------------------------------------------------------------
(* The cut before the end marker leaves nothing behind the file, and the   *)
(* whole file when it does not end in CR LF.                               *)
LEMMA CutEndBounds ==
  ASSUME stream \in Streams, NEW a \in Nat, a <= FileEnd
  PROVE  /\ CutEnd(a) \in Nat /\ a <= CutEnd(a) /\ CutEnd(a) <= FileEnd
         /\ stream.crlfs = 0 => CutEnd(a) = FileEnd
BY Layout, SMT DEF CutEnd

(* A write that continues where the writes end keeps them in one run.      *)
LEMMA WriteContinues ==
  ASSUME TypeOK, Written, stream' = stream, NEW a \in Nat, NEW b \in Nat,
         a = FileStart + written, a <= b, Write(a, b)
  PROVE  /\ Written' /\ slot' \in Seq(Nat)
         /\ written' \in Nat /\ FileStart + written' = b
<1>1. /\ FileStart \in Nat /\ written \in Nat /\ slot \in Seq(Nat)
      /\ FileStart' = FileStart
  BY Layout, SameLayout DEF TypeOK
<1>2. CASE a < b
  <2>1. slot' = SubSeq(slot, 1, written) \o Bytes(a, b)
    BY <1>2 DEF Write
  <2>2. written' = written + (b - a)
    BY <1>2 DEF Write
  <2>3. FileStart <= a
    BY <1>1, SMT
  <2>4. slot' = Bytes(FileStart, b)
    <3>1. SubSeq(slot, 1, written) = Bytes(FileStart, a)
      BY DEF Written
    <3>2. Bytes(FileStart, a) \o Bytes(a, b) = Bytes(FileStart, b)
      BY <1>1, <2>3, BytesConcatenate
    <3>3. QED  BY <2>1, <3>1, <3>2
  <2>5. /\ written' \in Nat /\ FileStart + written' = b /\ FileStart <= b
        /\ written' = b - FileStart
    BY <1>1, <2>2, SMT
  <2>6. slot' \in Seq(Nat) /\ Len(slot') = b - FileStart
    BY <1>1, <2>4, <2>5, BytesProperties
  <2>7. b <= b
    BY SMT
  <2>8. SubSeq(slot', 1, b - FileStart) = Bytes(FileStart, b)
    BY <1>1, <2>4, <2>5, <2>7, BytesPrefix
  <2>9. written' <= Len(slot')
    BY <2>5, <2>6, SMT
  <2>10. SubSeq(slot', 1, written') = Bytes(FileStart, FileStart + written')
    BY <2>5, <2>8
  <2>11. QED  BY <1>1, <2>5, <2>6, <2>9, <2>10 DEF Written
<1>3. CASE ~(a < b)
  <2>1. slot' = slot /\ written' = written
    BY <1>3 DEF Write
  <2>2. a = b
    BY <1>3, SMT
  <2>3. Bytes(FileStart', FileStart' + written')
          = Bytes(FileStart, FileStart + written)
    BY <1>1, <2>1
  <2>4. QED  BY <1>1, <2>1, <2>2, <2>3 DEF Written
<1>4. QED  BY <1>2, <1>3

(* What has been written up to or beyond the file's end is the image.      *)
LEMMA WrittenIsWhole ==
  ASSUME TypeOK, Written, written >= stream.file
  PROVE  Whole
<1>1. /\ FileStart \in Nat /\ stream.file \in Nat /\ written \in Nat
      /\ FileEnd = FileStart + stream.file /\ Len(slot) \in Nat
      /\ stream.file > 0 /\ slot \in Seq(Nat)
  <2>1. stream \in Streams /\ written \in Nat /\ slot \in Seq(Nat)
    BY DEF TypeOK
  <2>2. Len(slot) \in Nat
    BY <2>1, LenProperties
  <2>3. QED  BY <2>1, <2>2, Layout
<1>2. Len(slot) >= stream.file
  BY <1>1, SMT DEF Written
<1>3. /\ FileStart <= FileEnd /\ FileEnd \in Nat
      /\ FileEnd <= FileStart + written /\ FileStart + written \in Nat
      /\ FileEnd - FileStart = stream.file
  BY <1>1, SMT
<1>4. SubSeq(Bytes(FileStart, FileStart + written), 1, stream.file) = Image
  <2>1. SubSeq(Bytes(FileStart, FileStart + written), 1, FileEnd - FileStart)
          = Bytes(FileStart, FileEnd)
    BY <1>1, <1>3, BytesPrefix
  <2>2. QED  BY <1>3, <2>1 DEF Image
<1>5. SubSeq(slot, 1, stream.file)
        = SubSeq(SubSeq(slot, 1, written), 1, stream.file)
  <2>1. /\ 1 \in 1..Len(slot) /\ written \in 1..Len(slot)
        /\ 1 \in 1..(written - 1 + 1) /\ stream.file \in 1..(written - 1 + 1)
        /\ 1 + 1 - 1 = 1 /\ 1 + stream.file - 1 = stream.file
    BY <1>1, <1>2, SMT DEF Written
  <2>2. SubSeq(SubSeq(slot, 1, written), 1, stream.file)
          = SubSeq(slot, 1 + 1 - 1, 1 + stream.file - 1)
    BY <1>1, <2>1, SubSeqOfSubSeq
  <2>3. QED  BY <2>1, <2>2
<1>6. QED  BY <1>2, <1>4, <1>5 DEF Whole, Written

(* The image is whole.                                                     *)
LEMMA ImageIsWhole ==
  ASSUME stream \in Streams
  PROVE  /\ Image \in Seq(Nat) /\ Len(Image) >= stream.file
         /\ SubSeq(Image, 1, stream.file) = Image
<1>1. /\ FileStart \in Nat /\ stream.file \in Nat /\ FileEnd \in Nat
      /\ FileEnd = FileStart + stream.file
  BY Layout
<1>2. /\ FileStart <= FileEnd /\ FileEnd <= FileEnd
      /\ FileEnd - FileStart = stream.file
  BY <1>1, SMT
<1>3. Bytes(FileStart, FileEnd) \in Seq(Nat)
      /\ Len(Bytes(FileStart, FileEnd)) = FileEnd - FileStart
  BY <1>1, <1>2, BytesProperties
<1>4. SubSeq(Bytes(FileStart, FileEnd), 1, FileEnd - FileStart)
        = Bytes(FileStart, FileEnd)
  BY <1>1, <1>2, BytesPrefix
<1>5. QED  BY <1>1, <1>2, <1>3, <1>4, SMT DEF Image
-----------------------------------------------------------------------------
(* The initial states.                                                     *)
LEMMA InitInv == Init => Inv
<1> SUFFICES ASSUME Init PROVE Inv
  OBVIOUS
<1>1. stream \in Streams
  BY DEF Init
<1>2. TypeOK
  <2>1. Total \in Nat
    BY <1>1, Layout
  <2>2. 0 \in 0..Total /\ 0 \in 0..0 /\ 0 \in 0..MaxTimeouts
    BY <2>1, LengthsAssumption, SMT
  <2>3. <<>> \in Seq(Nat) /\ 0 \in Nat
    OBVIOUS
  <2>4. QED  BY <2>2, <2>3 DEF Init, TypeOK
<1>3. OneUpdate /\ Parsed /\ Judged /\ RestartDue
  BY DEF Init, OneUpdate, Parsed, Uploading, Judged, RestartDue
<1>4. QED  BY <1>2, <1>3 DEF Inv

(* Reading the file's data keeps the parsing on its track, from wherever   *)
(* the writes have come to.                                                *)
LEMMA FileDataParsed ==
  ASSUME TypeOK, Written, stream' = stream, NEW a \in Nat, NEW r \in Nat,
         a = FileStart + written, a <= FileEnd, a <= r, r <= Total,
         got <= r, got' = r, FileData(a, r)
  PROVE  /\ Parsed'
         /\ slot' \in Seq(Nat) /\ written' \in Nat
         /\ pc' \in {"idle", "read", "rest"}
         /\ lo' \in 0..r /\ inFile' \in BOOLEAN
<1>1. /\ stream \in Streams /\ lo \in Nat /\ inFile \in BOOLEAN
      /\ written \in Nat /\ slot \in Seq(Nat) /\ lo <= got /\ got \in Nat
  BY ParserTypes
<1>2. /\ stream.pre \in Nat /\ stream.file \in Nat /\ stream.crlfs \in Nat
      /\ stream.pre < FileStart /\ FileStart \in Nat /\ FileEnd \in Nat
      /\ FileEnd = FileStart + stream.file /\ EndMarker = FileEnd + 2
      /\ EndMarker \in Nat /\ Total \in Nat
      /\ Marker \in Nat /\ Reserve \in Nat /\ Marker < Reserve
  <2>1. /\ stream.pre \in Nat /\ stream.file \in Nat /\ stream.crlfs \in Nat
        /\ stream.pre + Marker < FileStart /\ FileStart \in Nat
        /\ FileEnd \in Nat /\ FileEnd = FileStart + stream.file
        /\ EndMarker = FileEnd + 2 /\ EndMarker \in Nat /\ Total \in Nat
    BY <1>1, Layout
  <2>2. Marker \in Nat /\ Reserve \in Nat /\ Marker < Reserve
    BY LengthsAssumption, SMT
  <2>3. stream.pre < FileStart
    BY <2>1, <2>2, SMT
  <2>4. QED  BY <2>1, <2>2, <2>3
<1>3. /\ FileStart' = FileStart /\ FileEnd' = FileEnd
      /\ EndMarker' = EndMarker
  BY SameLayout
<1>4. AfterRead(r) \in {"rest", "read"}
  BY DEF AfterRead
<1> DEFINE end == IF EndSeen(r) THEN CutEnd(a) ELSE r - Reserve
<1>5. CASE EndSeen(r) \/ r - a > Reserve
  <2>1. end \in Nat /\ a <= end /\ end <= FileEnd /\ end <= r
    <3>1. CASE EndSeen(r)
      <4>1. end = CutEnd(a)
        BY <3>1
      <4>2. CutEnd(a) \in Nat /\ a <= CutEnd(a) /\ CutEnd(a) <= FileEnd
        BY <1>1, CutEndBounds
      <4>3. CutEnd(a) <= r
        BY <1>2, <3>1, <4>2, SMT DEF EndSeen
      <4>4. QED  BY <4>1, <4>2, <4>3
    <3>2. CASE ~EndSeen(r)
      <4>1. end = r - Reserve
        BY <3>2
      <4>2. /\ r - Reserve \in Nat /\ a <= r - Reserve
            /\ r - Reserve <= FileEnd /\ r - Reserve <= r
        BY <1>2, <1>5, <3>2, SMT DEF EndSeen
      <4>3. QED  BY <4>1, <4>2
    <3>3. QED  BY <3>1, <3>2
  <2>2. WriteSome(a, r)
    <3>1. ~(~EndSeen(r) /\ r - a <= Reserve)
      BY <1>2, <1>5, SMT
    <3>2. QED  BY <3>1 DEF FileData
  <2> HIDE DEF end
  <2>3. CASE /\ Write(a, end)
             /\ lo' = IF EndSeen(r) THEN r ELSE end
             /\ inFile' = ~EndSeen(r)
             /\ pc' = IF FinalSeen(r) THEN "rest" ELSE AfterRead(r)
    <3>1. /\ Written' /\ slot' \in Seq(Nat)
          /\ written' \in Nat /\ FileStart + written' = end
      BY <2>1, <2>3, WriteContinues
    <3>2. pc' \in {"read", "rest"}
      BY <1>4, <2>3
    <3>3. CASE EndSeen(r)
      <4>1. end = CutEnd(a)
        BY <3>3 DEF end
      <4>2. stream.crlfs = 0 => end = FileEnd
        BY <1>1, <4>1, CutEndBounds
      <4>3. /\ r >= EndMarker + Marker /\ r > stream.pre
            /\ written' <= stream.file
            /\ stream.crlfs = 0 => written' = stream.file
        <5>1. r >= EndMarker + Marker
          BY <3>3 DEF EndSeen
        <5>2. r > stream.pre
          BY <1>2, <5>1, SMT
        <5> DEFINE w == written'
        <5>3. /\ w \in Nat /\ FileStart + w = end
              /\ FileStart \in Nat /\ stream.file \in Nat
              /\ FileEnd = FileStart + stream.file
          BY <1>2, <3>1
        <5> HIDE DEF w
        <5>4. w <= stream.file
          BY <2>1, <5>3, SMT
        <5>5. end = FileEnd => w = stream.file
          BY <5>3, SMT
        <5>6. written' <= stream.file
          BY <5>4 DEF w
        <5>7. stream.crlfs = 0 => written' = stream.file
          BY <4>2, <5>5 DEF w
        <5>8. QED  BY <5>1, <5>2, <5>6, <5>7
      <4>4. AfterFile'
        BY <1>3, <2>3, <3>3, <4>3 DEF AfterFile
      <4>5. lo' \in 0..r /\ inFile' \in BOOLEAN
        BY <1>2, <2>3, <3>3, SMT
      <4>6. QED  BY <3>1, <3>2, <4>4, <4>5 DEF Parsed
    <3>4. CASE ~EndSeen(r)
      <4>1. end = r - Reserve
        BY <3>4 DEF end
      <4>2. /\ r < EndMarker + Marker
            /\ FileStart <= end /\ end <= FileEnd
            /\ end = FileStart + written' /\ r - end <= Reserve
        <5>1. r < EndMarker + Marker
          BY <1>2, <3>4, SMT DEF EndSeen
        <5>2. FileStart <= end
          BY <1>1, <1>2, <2>1, SMT
        <5>3. r - end <= Reserve
          BY <1>2, <4>1, SMT
        <5>4. QED  BY <2>1, <3>1, <5>1, <5>2, <5>3
      <4>3. InFile'
        BY <1>3, <2>3, <3>2, <3>4, <4>2 DEF InFile
      <4>4. lo' \in 0..r /\ inFile' \in BOOLEAN
        BY <2>1, <2>3, <3>4, SMT
      <4>5. QED  BY <3>1, <3>2, <4>3, <4>4 DEF Parsed
    <3>5. QED  BY <3>3, <3>4
  <2>4. CASE WriteFail(a, end) /\ UNCHANGED <<lo, inFile>>
    <3>1. pc' = "idle" /\ slot' = slot /\ written' = written
          /\ lo' = lo /\ inFile' = inFile
      BY <2>4 DEF WriteFail
    <3>2. lo \in 0..r
      BY <1>1, SMT
    <3>3. ~Uploading'
      BY <3>1 DEF Uploading
    <3>4. QED  BY <1>1, <3>1, <3>2, <3>3 DEF Parsed
  <2>5. QED  BY <2>2, <2>3, <2>4 DEF WriteSome, end
<1>6. CASE ~(EndSeen(r) \/ r - a > Reserve)
  <2>1. /\ lo' = a /\ inFile' = TRUE /\ pc' = AfterRead(r)
        /\ slot' = slot /\ written' = written
    BY <1>6 DEF FileData
  <2>2. Written'
    BY <1>3, <2>1 DEF Written, Bytes
  <2>3. r < EndMarker + Marker /\ FileStart <= a /\ r - a <= Reserve
    <3>1. r < EndMarker + Marker
      BY <1>2, <1>6, SMT DEF EndSeen
    <3>2. FileStart <= a
      BY <1>1, <1>2, SMT
    <3>3. r - a <= Reserve
      BY <1>2, <1>6, SMT
    <3>4. QED  BY <3>1, <3>2, <3>3
  <2>4. pc' \in {"read", "rest"}
    BY <1>4, <2>1
  <2>5. InFile'
    BY <1>3, <1>6, <2>1, <2>3, <2>4 DEF InFile
  <2>6. lo' \in 0..r /\ inFile' \in BOOLEAN
    BY <2>1, SMT
  <2>7. Parsed'
    BY <2>2, <2>5 DEF Parsed
  <2>8. QED  BY <1>1, <2>1, <2>4, <2>6, <2>7
<1>7. QED  BY <1>5, <1>6

(* A receive keeps the parsing on its track.                               *)
LEMMA ReceiveParsed ==
  ASSUME Inv, NEW k \in 1..Chunk, Receive(k)
  PROVE  /\ Parsed'
         /\ slot' \in Seq(Nat) /\ written' \in Nat
         /\ pc' \in {"idle", "read", "rest"}
         /\ lo' \in 0..got' /\ inFile' \in BOOLEAN
         /\ got' \in 0..Total'
<1> DEFINE r == got + k
<1>1. /\ stream \in Streams /\ slot \in Seq(Nat) /\ written \in Nat
      /\ got \in Nat /\ lo \in Nat /\ lo <= got /\ inFile \in BOOLEAN /\ TypeOK
  BY ParserTypes DEF Inv
<1>2. k \in Nat /\ Marker \in Nat /\ Chunk \in Nat
  BY LengthsAssumption, SMT
<1>3. /\ FileStart \in Nat /\ FileEnd \in Nat /\ EndMarker \in Nat
      /\ Total \in Nat /\ FileEnd = FileStart + stream.file
      /\ stream.file \in Nat /\ stream.pre \in Nat
      /\ stream.pre + Marker < FileStart /\ EndMarker = FileEnd + 2
  BY <1>1, Layout
<1>4. /\ got' = r /\ r <= Total /\ stream' = stream /\ pc = "read"
      /\ IF inFile THEN FileData(lo, r) ELSE HeadData(r)
  BY DEF Receive
<1>5. r \in Nat /\ got <= r /\ lo <= r
  BY <1>1, <1>2, SMT
<1>6. /\ FileStart' = FileStart /\ EndMarker' = EndMarker /\ Total' = Total
      /\ FileEnd' = FileEnd
  BY <1>4, SameLayout
<1>7. r \in 0..Total'
  BY <1>3, <1>4, <1>5, <1>6, SMT
<1>8. Written /\ (BeforeFile \/ InFile \/ AfterFile)
  BY <1>4 DEF Inv, Parsed, Uploading
<1>9. lo \in 0..r
  BY <1>1, <1>5, SMT
<1> HIDE DEF r
<1>10. CASE inFile
  <2>1. InFile
    BY <1>8, <1>10 DEF BeforeFile, AfterFile
  <2>2. lo = FileStart + written /\ lo <= FileEnd
    BY <1>4, <2>1 DEF InFile
  <2>3. FileData(lo, r)
    BY <1>4, <1>10
  <2>4. QED
    BY <1>1, <1>4, <1>5, <1>7, <1>8, <2>2, <2>3, FileDataParsed
<1>11. CASE ~inFile
  <2>1. HeadData(r)
    BY <1>4, <1>11
  <2>2. CASE ~HeadSeen(r) /\ Abort("invalid") /\ UNCHANGED <<written, slot, lo, inFile>>
    <3>1. /\ pc' = "idle" /\ written' = written /\ slot' = slot /\ lo' = lo
          /\ inFile' = inFile
      BY <2>2 DEF Abort
    <3>2. Parsed'
      BY <3>1 DEF Parsed, Uploading
    <3>3. QED  BY <1>1, <1>4, <1>7, <1>9, <3>1, <3>2
  <2>3. CASE /\ ~(HeadSeen(r) /\ r >= FileStart)
             /\ pc' = AfterRead(r)
             /\ UNCHANGED <<written, slot, lo, inFile>>
    <3>1. /\ written' = written /\ slot' = slot /\ lo' = lo
          /\ inFile' = inFile /\ pc' \in {"read", "rest"}
      BY <2>3 DEF AfterRead
    <3>2. Written'
      BY <1>6, <1>8, <3>1 DEF Written, Bytes
    <3>3. CASE BeforeFile
      <4>1. r < FileStart
        BY <1>2, <1>3, <1>5, <2>3, <3>3, SMT DEF BeforeFile, HeadSeen
      <4>2. BeforeFile'
        BY <1>4, <1>6, <3>1, <3>3, <4>1 DEF BeforeFile
      <4>3. Parsed'
        BY <3>2, <4>2 DEF Parsed
      <4>4. QED  BY <1>1, <1>4, <1>7, <1>9, <3>1, <4>3
    <3>4. CASE AfterFile
      <4>1. r >= EndMarker + Marker
        <5>1. got >= EndMarker + Marker
          BY <3>4 DEF AfterFile
        <5>2. /\ got \in Nat /\ r \in Nat /\ got <= r
              /\ EndMarker \in Nat /\ Marker \in Nat
          BY <1>1, <1>2, <1>3, <1>5
        <5>3. QED  BY <5>1, <5>2, SMT
      <4>2. AfterFile'
        BY <1>4, <1>6, <3>1, <3>4, <4>1 DEF AfterFile
      <4>3. Parsed'
        BY <3>2, <4>2 DEF Parsed
      <4>4. QED  BY <1>1, <1>4, <1>7, <1>9, <3>1, <4>3
    <3>5. QED  BY <1>8, <1>11, <3>3, <3>4 DEF InFile
  <2>4. CASE HeadSeen(r) /\ r >= FileStart /\ FileData(FileStart, r)
    <3>1. BeforeFile
      <4>1. ~(lo > stream.pre)
        BY <1>1, <1>3, <2>4, SMT DEF HeadSeen
      <4>2. QED  BY <1>8, <1>11, <4>1 DEF InFile, AfterFile
    <3>2. FileStart = FileStart + written
      BY <1>3, <3>1, SMT DEF BeforeFile
    <3>3. FileStart <= FileEnd /\ FileStart <= r
      BY <1>3, <1>5, <2>4, SMT
    <3>4. QED
      BY <1>1, <1>3, <1>4, <1>5, <1>7, <1>8, <2>4, <3>2, <3>3,
         FileDataParsed
  <2>5. QED
    <3>1. r < FileStart => ~(r >= FileStart)
      BY <1>3, <1>5, SMT
    <3>2. QED  BY <2>1, <2>2, <2>3, <2>4, <3>1 DEF HeadData
<1>12. QED  BY <1>1, <1>10, <1>11

(* So does writing the rest.                                               *)
LEMMA RestParsed ==
  ASSUME Inv, Rest
  PROVE  /\ Parsed'
         /\ slot' \in Seq(Nat) /\ written' \in Nat
         /\ pc' \in {"idle", "finish"}
<1>1. /\ stream \in Streams /\ slot \in Seq(Nat) /\ written \in Nat
      /\ got \in Nat /\ lo \in Nat /\ lo <= got /\ inFile \in BOOLEAN /\ TypeOK
  BY ParserTypes DEF Inv
<1>2. /\ FileStart \in Nat /\ EndMarker \in Nat /\ Marker \in Nat
  BY <1>1, Layout
<1>3. /\ pc = "rest" /\ stream' = stream /\ got' = got /\ lo' = lo
      /\ inFile' = inFile
  BY DEF Rest, parser
<1>4. /\ FileStart' = FileStart /\ EndMarker' = EndMarker
      /\ FileEnd' = FileEnd
  BY <1>3, SameLayout
<1>5. Written /\ (BeforeFile \/ InFile \/ AfterFile)
  BY <1>3 DEF Inv, Parsed, Uploading
<1>6. CASE inFile
  <2>1. InFile
    BY <1>5, <1>6 DEF BeforeFile, AfterFile
  <2>2. lo = FileStart + written /\ got < EndMarker + Marker
    BY <1>3, <2>1 DEF InFile
  <2>3. ~EndSeen(got)
    BY <1>1, <1>2, <2>2, SMT DEF EndSeen
  <2>4. CASE Write(lo, got) /\ pc' = "finish"
    <3>1. /\ Written' /\ slot' \in Seq(Nat)
          /\ written' \in Nat /\ FileStart + written' = got
      BY <1>1, <1>3, <1>5, <2>2, <2>4, WriteContinues
    <3>2. InFile'
      BY <1>3, <1>4, <2>1, <2>4, <3>1 DEF InFile
    <3>3. QED  BY <2>4, <3>1, <3>2 DEF Parsed
  <2>5. CASE WriteFail(lo, got)
    <3>1. pc' = "idle" /\ slot' = slot /\ written' = written
      BY <2>5 DEF WriteFail
    <3>2. QED  BY <1>1, <3>1 DEF Parsed, Uploading
  <2>6. QED  BY <1>6, <2>3, <2>4, <2>5 DEF Rest
<1>7. CASE ~inFile
  <2>1. pc' = "finish" /\ slot' = slot /\ written' = written
    BY <1>7 DEF Rest
  <2>2. Written'
    BY <1>4, <1>5, <2>1 DEF Written, Bytes
  <2>3. BeforeFile' \/ AfterFile'
    BY <1>3, <1>4, <1>5, <1>7, <2>1 DEF BeforeFile, AfterFile, InFile
  <2>4. QED  BY <1>1, <2>1, <2>2, <2>3 DEF Parsed
<1>8. QED  BY <1>1, <1>6, <1>7

(* When an upload is finished, its file is there unless the connection     *)
(* ended before the file's end or the file ends in CR LF.                  *)
LEMMA FinishedIsWhole ==
  ASSUME Inv, pc = "finish", ~Whole
  PROVE  got < FileEnd \/ stream.crlfs > 0
<1>1. /\ stream \in Streams /\ written \in Nat /\ got \in Nat /\ TypeOK
  BY ParserTypes DEF Inv
<1>2. /\ FileStart \in Nat /\ FileEnd \in Nat /\ stream.file \in Nat
      /\ FileEnd = FileStart + stream.file /\ stream.crlfs \in Nat
  BY <1>1, Layout
<1>3. Written /\ (BeforeFile \/ InFile \/ AfterFile)
  BY DEF Inv, Parsed, Uploading
<1>4. ~(written >= stream.file)
  BY <1>1, <1>3, WrittenIsWhole
<1>5. CASE BeforeFile
  <2>1. got < FileStart
    BY <1>5 DEF BeforeFile
  <2>2. QED  BY <1>1, <1>2, <2>1, SMT
<1>6. CASE InFile
  <2>1. got = FileStart + written
    BY <1>6 DEF InFile
  <2>2. QED  BY <1>1, <1>2, <1>4, <2>1, SMT
<1>7. CASE AfterFile
  <2>1. stream.crlfs = 0 => written = stream.file
    BY <1>7 DEF AfterFile
  <2>2. QED  BY <1>1, <1>2, <1>4, <2>1, SMT
<1>8. QED  BY <1>3, <1>5, <1>6, <1>7
-----------------------------------------------------------------------------
(* The parser keeps the types: what a receive changes, then what a rest    *)
(* does.                                                                   *)
LEMMA TypeStep == Inv /\ [Next]_vars => TypeOK'
<1> SUFFICES ASSUME Inv, [Next]_vars PROVE TypeOK'
  OBVIOUS
<1>1. TypeOK
  BY DEF Inv
<1>2. /\ stream \in Streams /\ Total \in Nat
      /\ stream' = stream => Total' = Total
      /\ Image \in Seq(Nat)
  BY <1>1, Layout, SameLayout, ImageIsWhole DEF TypeOK
<1>3. CASE Trigger
  <2>1. /\ state' \in {"idle", "inProgress"}
        /\ updater' = TRUE \/ updater' = updater
        /\ UNCHANGED <<stream, handle, written, slot, boot, restart, pc, lo,
                      got, inFile, timeouts, reply>>
    BY <1>3 DEF Trigger, parser
  <2>2. got' \in 0..Total' /\ lo' \in 0..got' /\ timeouts' \in 0..MaxTimeouts
    BY ONLY <1>1, <1>2, <2>1 DEF TypeOK
  <2>3. /\ state' \in {"idle", "inProgress", "succeeded", "failed"}
        /\ updater' \in BOOLEAN
    BY ONLY <1>1, <2>1 DEF TypeOK
  <2>4. QED  BY ONLY <1>1, <2>1, <2>2, <2>3, Zenon DEF TypeOK
<1>4. CASE Start
  <2>1. 0 \in 0..Total' /\ 0 \in 0..0 /\ 0 \in 0..MaxTimeouts
    BY <1>2, <1>4, LengthsAssumption, SMT DEF Start
  <2>2. QED  BY <1>1, <1>4, <2>1 DEF TypeOK, Start
<1>5. CASE UrlWrite
  <2>1. <<>> \in Seq(Nat)
    OBVIOUS
  <2>2. /\ slot' \in Seq(Nat)
        /\ UNCHANGED <<stream, state, handle, written, boot, updater, restart,
                      pc, lo, got, inFile, timeouts, reply>>
    BY <1>5, <2>1 DEF UrlWrite, parser
  <2>3. got' \in 0..Total' /\ lo' \in 0..got' /\ timeouts' \in 0..MaxTimeouts
    BY ONLY <1>1, <1>2, <2>2 DEF TypeOK
  <2>4. /\ state' \in {"idle", "inProgress", "succeeded", "failed"}
        /\ updater' \in BOOLEAN
    BY ONLY <1>1, <2>2 DEF TypeOK
  <2>5. QED  BY ONLY <1>1, <2>2, <2>3, <2>4, Zenon DEF TypeOK
<1>6. CASE UrlDone
  BY <1>1, <1>2, <1>6 DEF TypeOK, UrlDone, parser
<1>7. CASE UrlFail
  BY <1>1, <1>2, <1>7 DEF TypeOK, UrlFail, parser
<1>8. ASSUME NEW k \in 1..Chunk, Receive(k)  PROVE TypeOK'
  <2>1. /\ slot' \in Seq(Nat) /\ written' \in Nat
        /\ pc' \in {"idle", "read", "rest", "finish", "done"}
        /\ lo' \in 0..got' /\ inFile' \in BOOLEAN /\ got' \in 0..Total'
    BY <1>8, ReceiveParsed
  <2>2. /\ stream' \in Streams /\ boot' \in {"running", "slot"}
        /\ updater' \in BOOLEAN /\ restart' \in BOOLEAN
    BY <1>1, <1>8 DEF TypeOK, Receive
  <2>3. timeouts' \in 0..MaxTimeouts
    <3>1. timeouts' = 0
      BY <1>8 DEF Receive
    <3>2. QED  BY <3>1, LengthsAssumption, SMT
  <2>4. /\ state' \in {"idle", "inProgress", "succeeded", "failed"}
        /\ handle' \in {"none", "open", "stale"}
        /\ reply' \in {"none", "invalid", "timeout", "receive failed",
                       "write failed", "corrupt", "not set", "done"}
    BY <1>1, <1>8 DEF TypeOK, Receive, FileData, HeadData, WriteSome, Write,
                      WriteFail, Abort
  <2>5. QED  BY <2>1, <2>2, <2>3, <2>4 DEF TypeOK
<1>9. CASE Timeout
  <2>1. timeouts' \in 0..MaxTimeouts
    <3>1. /\ timeouts \in 0..MaxTimeouts /\ MaxTimeouts \in Nat
          /\ \/ timeouts < MaxTimeouts /\ timeouts' = timeouts + 1
             \/ timeouts' = timeouts
      BY <1>1, <1>9, LengthsAssumption DEF TypeOK, Timeout
    <3>2. QED  BY <3>1, SMT
  <2>2. QED  BY <1>1, <1>2, <1>9, <2>1 DEF TypeOK, Timeout, Abort
<1>10. CASE Closed \/ RecvError
  BY <1>1, <1>2, <1>10 DEF TypeOK, Closed, RecvError, Abort, parser
<1>11. CASE Rest
  <2>1. /\ slot' \in Seq(Nat) /\ written' \in Nat
        /\ pc' \in {"idle", "read", "rest", "finish", "done"}
    BY <1>11, RestParsed
  <2>2. /\ state' \in {"idle", "inProgress", "succeeded", "failed"}
        /\ handle' \in {"none", "open", "stale"}
        /\ reply' \in {"none", "invalid", "timeout", "receive failed",
                       "write failed", "corrupt", "not set", "done"}
    BY <1>1, <1>11 DEF TypeOK, Rest, Write, WriteFail
  <2>3. QED  BY <1>1, <1>2, <1>11, <2>1, <2>2 DEF TypeOK, Rest, parser
<1>12. CASE Finish
  <2>1. 0 \in Nat
    OBVIOUS
  <2>2. /\ stream' = stream /\ slot' = slot /\ updater' = updater
        /\ lo' = lo /\ got' = got /\ inFile' = inFile /\ timeouts' = timeouts
    BY <1>12 DEF Finish, parser
  <2>3. CASE Invalid
    BY <1>1, <1>2, <2>2, <2>3 DEF TypeOK, Invalid
  <2>4. CASE NotSet
    BY <1>1, <1>2, <2>2, <2>4 DEF TypeOK, NotSet
  <2>5. CASE Done
    BY <1>1, <1>2, <2>1, <2>2, <2>5 DEF TypeOK, Done
  <2>6. Invalid \/ NotSet \/ Done
    BY <1>12 DEF Finish
  <2>7. QED  BY <2>3, <2>4, <2>5, <2>6
<1>13. CASE PowerCut
  <2>1. 0 \in 0..Total' /\ 0 \in 0..0 /\ 0 \in 0..MaxTimeouts
    BY <1>2, <1>13, LengthsAssumption, SMT DEF PowerCut
  <2>2. <<>> \in Seq(Nat) /\ 0 \in Nat
    OBVIOUS
  <2>3. QED  BY <1>1, <1>13, <2>1, <2>2 DEF TypeOK, PowerCut
<1>14. CASE UNCHANGED vars
  <2>1. /\ stream' = stream /\ state' = state /\ handle' = handle
        /\ written' = written /\ slot' = slot /\ boot' = boot
        /\ updater' = updater /\ restart' = restart /\ pc' = pc
        /\ lo' = lo /\ got' = got /\ inFile' = inFile
        /\ timeouts' = timeouts /\ reply' = reply
    BY <1>14 DEF vars
  <2>2. Total' = Total
    BY <1>2, <2>1
  <2>3. /\ stream' \in Streams /\ slot' \in Seq(Nat) /\ written' \in Nat
        /\ got' \in 0..Total' /\ lo' \in 0..got'
        /\ timeouts' \in 0..MaxTimeouts
    BY <1>1, <2>1, <2>2 DEF TypeOK
  <2>4. /\ boot' \in {"running", "slot"} /\ updater' \in BOOLEAN
        /\ restart' \in BOOLEAN /\ inFile' \in BOOLEAN
        /\ pc' \in {"idle", "read", "rest", "finish", "done"}
    BY <1>1, <2>1 DEF TypeOK
  <2>5. /\ state' \in {"idle", "inProgress", "succeeded", "failed"}
        /\ handle' \in {"none", "open", "stale"}
        /\ reply' \in {"none", "invalid", "timeout", "receive failed",
                       "write failed", "corrupt", "not set", "done"}
    BY <1>1, <2>1 DEF TypeOK
  <2>6. QED  BY <2>3, <2>4, <2>5 DEF TypeOK
<1>15. QED
  BY <1>3, <1>4, <1>5, <1>6, <1>7, <1>8, <1>9, <1>10, <1>11, <1>12, <1>13,
     <1>14
     DEF Next, Updater, Handler, Restart

(* At most one update at a time, from any of the invariant's states.       *)
LEMMA OneUpdateStep == Inv /\ [Next]_vars => OneUpdate'
<1> SUFFICES ASSUME Inv, [Next]_vars PROVE OneUpdate'
  OBVIOUS
<1> USE DEF OneUpdate, Uploading
<1>1. OneUpdate /\ TypeOK /\ updater \in BOOLEAN
  BY DEF Inv, TypeOK
<1>2. CASE Trigger
  BY <1>1, <1>2 DEF Trigger, Free
<1>3. CASE Start
  BY <1>1, <1>3 DEF Start, Free
<1>4. CASE Updater
  <2>1. /\ updater /\ pc' = pc /\ handle' = handle
        /\ \/ state' = state /\ updater' = updater
           \/ state' # "inProgress" /\ updater' = FALSE
    BY <1>4 DEF Updater, UrlWrite, UrlDone, UrlFail
  <2>2. QED  BY <1>1, <2>1
<1>5. ASSUME NEW k \in 1..Chunk, Receive(k)  PROVE OneUpdate'
  <2>1. /\ pc = "read" /\ updater' = updater
        /\ \/ /\ state' = state /\ handle' = handle
              /\ pc' \in {"read", "rest"}
           \/ state' = "failed" /\ handle' = "none" /\ pc' = "idle"
    BY <1>1, <1>5 DEF Receive, FileData, HeadData, WriteSome, Write, WriteFail,
                      Abort, AfterRead
  <2>2. QED  BY <1>1, <2>1
<1>6. CASE Timeout \/ Closed \/ RecvError
  <2>1. /\ pc = "read" /\ updater' = updater
        /\ \/ /\ state' = state /\ handle' = handle
              /\ pc' \in {"read", "rest"}
           \/ state' = "failed" /\ handle' = "none" /\ pc' = "idle"
    BY <1>1, <1>6 DEF Timeout, Closed, RecvError, Abort
  <2>2. QED  BY <1>1, <2>1
<1>7. CASE Rest
  BY <1>1, <1>7 DEF Rest, Write, WriteFail
<1>8. CASE Finish
  BY <1>1, <1>8 DEF Finish, Invalid, NotSet, Done
<1>9. CASE PowerCut
  BY <1>9 DEF PowerCut
<1>10. CASE UNCHANGED vars
  BY <1>1, <1>10 DEF vars
<1>11. QED
  BY <1>2, <1>3, <1>4, <1>5, <1>6, <1>7, <1>8, <1>9, <1>10
     DEF Next, Handler, Restart

(* The parsing stays on its track: a step that neither receives nor writes *)
(* the rest leaves the parser alone, or no upload behind.                  *)
LEMMA ParsedStep == Inv /\ [Next]_vars => Parsed'
<1> SUFFICES ASSUME Inv, [Next]_vars PROVE Parsed'
  OBVIOUS
<1>1. Parsed /\ OneUpdate /\ TypeOK
  BY DEF Inv
<1>2. ASSUME UNCHANGED <<stream, written, slot, parser>>,
             Uploading' => Uploading, pc' # "finish" => pc # "finish",
             (pc' = "finish" /\ pc # "finish") => ~inFile
      PROVE  Parsed'
  <2>1. /\ FileStart' = FileStart /\ FileEnd' = FileEnd
        /\ EndMarker' = EndMarker
    BY <1>2, SameLayout
  <2>2. Written => Written'
    BY <1>2, <2>1 DEF Written, Bytes
  <2>3. BeforeFile => BeforeFile'
    BY <1>2, <2>1 DEF BeforeFile, parser
  <2>4. AfterFile => AfterFile'
    BY <1>2, <2>1 DEF AfterFile, parser
  <2>5. InFile => InFile'
    BY <1>2, <2>1 DEF InFile, parser
  <2>6. QED  BY <1>1, <1>2, <2>2, <2>3, <2>4, <2>5 DEF Parsed
<1>3. CASE ~Uploading'
  BY <1>3 DEF Parsed
<1>4. CASE Trigger
  BY <1>2, <1>4 DEF Trigger, Uploading, parser
<1>5. CASE Start
  <2>1. /\ stream \in Streams /\ slot \in Seq(Nat) /\ stream' = stream
        /\ slot' = slot
    BY <1>1, <1>5, ParserTypes DEF Start
  <2>2. /\ FileStart \in Nat /\ FileStart' = FileStart /\ FileStart > 0
    <3>1. /\ FileStart \in Nat /\ stream.pre \in Nat /\ Marker \in Nat
          /\ stream.pre + Marker < FileStart
      BY <2>1, Layout
    <3>2. FileStart' = FileStart
      BY <2>1, SameLayout
    <3>3. QED  BY <3>1, <3>2, SMT
  <2>3. Written'
    <3>1. /\ 0 <= Len(slot) /\ FileStart + 0 = FileStart /\ 1 \in Int
          /\ 0 \in Int /\ 0 < 1
      BY <2>1, <2>2, SMT
    <3>2. SubSeq(slot, 1, 0) = <<>>
      BY <3>1, SubSeqEmpty
    <3>3. Bytes(FileStart, FileStart) = <<>>
      BY <2>2, SMT DEF Bytes
    <3>4. QED  BY <1>5, <2>1, <2>2, <3>1, <3>2, <3>3 DEF Start, Written
  <2>4. 0 < FileStart
    BY <2>2, SMT
  <2>5. BeforeFile'
    BY <1>5, <2>2, <2>4 DEF Start, BeforeFile
  <2>6. QED  BY <2>3, <2>5 DEF Parsed
<1>6. CASE Updater
  BY <1>1, <1>3, <1>6
     DEF Updater, UrlWrite, UrlDone, UrlFail, OneUpdate, Uploading
<1>7. ASSUME NEW k \in 1..Chunk, Receive(k)  PROVE Parsed'
  BY <1>7, ReceiveParsed
<1>8. CASE Timeout
  <2>1. CASE pc' = "idle"
    BY <1>3, <2>1 DEF Uploading
  <2>2. CASE pc' # "idle"
    <3>1. /\ stream' = stream /\ written' = written /\ slot' = slot
          /\ lo' = lo /\ got' = got /\ inFile' = inFile /\ pc' = pc
      BY <1>8, <2>2 DEF Timeout, Abort
    <3>2. FileStart' = FileStart /\ FileEnd' = FileEnd /\ EndMarker' = EndMarker
      BY <3>1, SameLayout
    <3>3. QED
      BY <1>1, <3>1, <3>2
         DEF Parsed, Written, Bytes, BeforeFile, InFile, AfterFile, Uploading
  <2>3. QED  BY <2>1, <2>2
<1>9. CASE Closed
  BY <1>2, <1>9 DEF Closed, Uploading, parser
<1>10. CASE RecvError
  BY <1>3, <1>10 DEF RecvError, Abort, Uploading
<1>11. CASE Rest
  BY <1>11, RestParsed
<1>12. CASE Finish
  BY <1>3, <1>12 DEF Finish, Invalid, NotSet, Done, Uploading
<1>13. CASE PowerCut
  BY <1>3, <1>13 DEF PowerCut, Uploading
<1>14. CASE UNCHANGED vars
  BY <1>2, <1>14 DEF vars, parser, Uploading
<1>15. QED
  BY <1>4, <1>5, <1>6, <1>7, <1>8, <1>9, <1>10, <1>11, <1>12, <1>13, <1>14
     DEF Next, Handler, Restart

(* The verdict "corrupt" is given to a finished upload only, and stands    *)
(* until the next upload begins.                                           *)
LEMMA JudgedStep == Inv /\ [Next]_vars => Judged'
<1> SUFFICES ASSUME Inv, [Next]_vars PROVE Judged'
  OBVIOUS
<1>1. Judged
  BY DEF Inv
<1>2. ASSUME UNCHANGED <<stream, got>>, reply' = "corrupt" => reply = "corrupt",
             pc = "idle" => pc' = "idle"
      PROVE  Judged'
  BY <1>1, <1>2, SameLayout DEF Judged
<1>3. ASSUME reply' # "corrupt"  PROVE Judged'
  BY <1>3 DEF Judged
<1>4. CASE Trigger
  BY <1>2, <1>4 DEF Trigger, parser
<1>5. CASE Start
  BY <1>3, <1>5 DEF Start
<1>6. CASE Updater
  BY <1>2, <1>6 DEF Updater, UrlWrite, UrlDone, UrlFail, parser
<1>7. ASSUME NEW k \in 1..Chunk, Receive(k)  PROVE Judged'
  <2>1. reply # "corrupt"
    BY <1>1, <1>7 DEF Receive, Judged
  <2>2. reply' # "corrupt"
    BY <1>7, <2>1 DEF Receive, FileData, HeadData, WriteSome, Write, WriteFail,
                      Abort
  <2>3. QED  BY <1>3, <2>2
<1>8. CASE Timeout
  <2>1. reply # "corrupt"
    BY <1>1, <1>8 DEF Timeout, Judged
  <2>2. QED  BY <1>3, <1>8, <2>1 DEF Timeout, Abort
<1>9. CASE Closed \/ RecvError \/ Rest
  <2>1. reply # "corrupt"
    BY <1>1, <1>9 DEF Closed, RecvError, Rest, Judged
  <2>2. QED
    BY <1>3, <1>9, <2>1 DEF Closed, RecvError, Rest, Abort, Write, WriteFail
<1>10. CASE Finish
  <2>1. CASE Invalid
    <3>1. got < FileEnd \/ stream.crlfs > 0
      BY <1>10, <2>1, FinishedIsWhole DEF Finish, Invalid
    <3>2. stream' = stream /\ got' = got /\ pc' = "idle"
      BY <1>10, <2>1 DEF Finish, Invalid, parser
    <3>3. QED  BY <3>1, <3>2, SameLayout DEF Judged
  <2>2. CASE NotSet \/ Done
    BY <1>3, <2>2 DEF NotSet, Done
  <2>3. QED  BY <1>10, <2>1, <2>2 DEF Finish
<1>11. CASE PowerCut
  BY <1>3, <1>11 DEF PowerCut
<1>12. CASE UNCHANGED vars
  BY <1>2, <1>12 DEF vars
<1>13. QED
  BY <1>4, <1>5, <1>6, <1>7, <1>8, <1>9, <1>10, <1>11, <1>12
     DEF Next, Handler, Restart

(* Once an image is set to boot, the restart is due and nothing writes.    *)
LEMMA RestartDueStep == Inv /\ [Next]_vars => RestartDue'
<1> SUFFICES ASSUME Inv, [Next]_vars, PromptRestart
             PROVE  /\ boot' = "slot" => restart' /\ Whole'
                    /\ restart' => ~Uploading' /\ ~updater'
  BY DEF RestartDue
<1>1. /\ boot = "slot" => restart /\ Whole
      /\ restart => ~Uploading /\ ~updater
      /\ OneUpdate /\ stream \in Streams
  BY DEF Inv, RestartDue, TypeOK
<1>2. ASSUME stream' = stream, slot' = slot  PROVE Whole' = Whole
  BY <1>2, SameLayout DEF Whole
<1>3. CASE Trigger
  BY <1>1, <1>2, <1>3 DEF Trigger, Free, Uploading
<1>4. CASE Start
  BY <1>1, <1>2, <1>4 DEF Start, Free
<1>5. CASE UrlWrite
  BY <1>1, <1>5 DEF UrlWrite
<1>6. CASE UrlDone
  <2>1. Whole'
    <3>1. stream' = stream /\ slot' = Image
      BY <1>6 DEF UrlDone
    <3>2. Image' = Image
      BY <3>1, SameLayout
    <3>3. QED  BY <1>1, <3>1, <3>2, ImageIsWhole DEF Whole
  <2>2. QED  BY <1>1, <1>6, <2>1 DEF UrlDone, OneUpdate, Uploading
<1>7. CASE UrlFail
  BY <1>1, <1>2, <1>7 DEF UrlFail, Uploading
<1>8. CASE Handler
  <2>1. CASE Finish
    <3>1. CASE Done
      <4>1. ~updater
        BY <1>1, <2>1 DEF OneUpdate, Uploading, Finish
      <4>2. QED  BY <1>2, <2>1, <3>1, <4>1 DEF Finish, Done, Uploading
    <3>2. CASE Invalid \/ NotSet
      <4>1. Uploading /\ boot' = boot /\ restart' = restart
        BY <2>1, <3>2 DEF Finish, Invalid, NotSet, Uploading
      <4>2. ~restart' /\ boot' # "slot"
        BY <1>1, <4>1
      <4>3. QED  BY <4>2
    <3>3. QED  BY <2>1, <3>1, <3>2 DEF Finish
  <2>2. CASE ~Finish
    <3>1. Uploading /\ boot' = boot /\ restart' = restart /\ updater' = updater
      BY <1>8, <2>2
         DEF Handler, Receive, Timeout, Closed, RecvError, Rest, Uploading
    <3>2. ~restart' /\ boot' # "slot"
      BY <1>1, <3>1
    <3>3. QED  BY <3>2
  <2>3. QED  BY <2>1, <2>2
<1>9. CASE PowerCut
  BY <1>9 DEF PowerCut
<1>10. CASE UNCHANGED vars
  BY <1>1, <1>2, <1>10 DEF vars, Uploading
<1>11. QED
  BY <1>3, <1>4, <1>5, <1>6, <1>7, <1>8, <1>9, <1>10 DEF Next, Updater, Restart

LEMMA Invariance == Spec => []Inv
<1>1. Inv /\ [Next]_vars => Inv'
  BY TypeStep, OneUpdateStep, ParsedStep, JudgedStep, RestartDueStep DEF Inv
<1>2. QED  BY InitInv, <1>1, PTL DEF Spec
-----------------------------------------------------------------------------
(* The parser's places stay inside the stream.                             *)
THEOREM TypeCorrect == Spec => []TypeOK
BY Invariance, PTL DEF Inv

(* One update at a time, and the library's handle is open exactly during   *)
(* an upload.                                                              *)
THEOREM OneUpdateAtATime == Spec => []OneUpdate
BY Invariance, PTL DEF Inv

(* However an upload is cut into reads, what is written is the file.       *)
THEOREM UploadWritesTheFile == Spec => []WritesTheFile
<1>1. Inv => WritesTheFile
  <2> SUFFICES ASSUME Inv, Uploading
               PROVE  Written /\ (pc = "read" => written <= stream.file)
    BY DEF WritesTheFile, Written
  <2>1. Written /\ (BeforeFile \/ InFile \/ AfterFile)
    BY DEF Inv, Parsed
  <2>2. /\ stream.file \in Nat /\ FileEnd = FileStart + stream.file
        /\ FileStart \in Nat /\ written \in Nat /\ lo \in Nat
    BY ParserTypes, Layout DEF Inv
  <2>3. CASE BeforeFile
    <3>1. written = 0
      BY <2>3 DEF BeforeFile
    <3>2. QED  BY <2>1, <2>2, <3>1, SMT
  <2>4. CASE InFile
    <3>1. pc = "read" => lo = FileStart + written /\ lo <= FileEnd
      BY <2>4 DEF InFile
    <3>2. lo = FileStart + written /\ lo <= FileEnd => written <= stream.file
      BY <2>2, SMT
    <3>3. QED  BY <2>1, <3>1, <3>2
  <2>5. CASE AfterFile
    BY <2>1, <2>5 DEF AfterFile
  <2>6. QED  BY <2>1, <2>3, <2>4, <2>5
<1>2. QED  BY Invariance, <1>1, PTL

(* A file that arrived whole is not found corrupt.                         *)
THEOREM CompleteIsAccepted == Spec => []CompleteAccepted
<1>1. Inv => CompleteAccepted
  BY DEF Inv, Judged, CompleteAccepted
<1>2. QED  BY Invariance, <1>1, PTL

(* With nothing asked for between success and restart, the partition set   *)
(* to boot holds the whole image.                                          *)
THEOREM OnlyWholeImagesBoot ==
  ASSUME PromptRestart
  PROVE  Spec => []BootsWholeImages
<1>1. Inv => BootsWholeImages
  BY DEF Inv, RestartDue, BootsWholeImages
<1>2. QED  BY Invariance, <1>1, PTL

-----------------------------------------------------------------------------
(* How many more steps an upload takes at most: up to MaxTimeouts time-outs  *)
(* before each byte that is missing, one more, and what follows the loop.    *)
StepsPerByte == MaxTimeouts + 1
Left ==
  CASE pc = "read" -> (Total - got) * StepsPerByte + (MaxTimeouts - timeouts) + 2
    [] pc = "rest" -> 1
    [] OTHER -> 0
MostSteps == Total * StepsPerByte + MaxTimeouts + 2

LEMMA PerByte ==
  ASSUME NEW a \in Nat, NEW b \in Nat
  PROVE  /\ a * StepsPerByte \in Nat
         /\ b <= a => b * StepsPerByte <= a * StepsPerByte
         /\ b < a => b * StepsPerByte + StepsPerByte <= a * StepsPerByte
<1> DEFINE n == StepsPerByte
<1>1. n \in Nat /\ \A d \in Nat : d * n \in Nat
  BY LengthsAssumption DEF StepsPerByte
<1> HIDE DEF n
<1>2. ASSUME NEW d \in Nat, a = b + d
      PROVE  a * n = b * n + d * n
  BY <1>1, <1>2, SMT
<1>3. b <= a => b * n <= a * n
  <2> SUFFICES ASSUME b <= a PROVE b * n <= a * n
    OBVIOUS
  <2>1. a - b \in Nat /\ a = b + (a - b)
    OBVIOUS
  <2>2. a * n = b * n + (a - b) * n
    BY <1>2, <2>1
  <2>3. b * n \in Nat /\ (a - b) * n \in Nat
    BY <1>1, <2>1
  <2>4. QED  BY <2>2, <2>3, SMT
<1>4. b < a => b * n + n <= a * n
  <2> SUFFICES ASSUME b < a PROVE b * n + n <= a * n
    OBVIOUS
  <2>1. a - (b + 1) \in Nat /\ a = b + (a - (b + 1) + 1)
    OBVIOUS
  <2> DEFINE e == a - (b + 1)
  <2>2. a * n = b * n + (e + 1) * n
    BY <1>2, <2>1
  <2>3. (e + 1) * n = e * n + n
    BY <1>1, <2>1, SMT
  <2>4. b * n \in Nat /\ e * n \in Nat
    BY <1>1, <2>1
  <2> HIDE DEF e
  <2>5. QED  BY <1>1, <2>2, <2>3, <2>4, SMT
<1>5. QED  BY <1>1, <1>3, <1>4 DEF n

LEMMA Missing ==
  ASSUME TypeOK
  PROVE  /\ Total \in Nat /\ got \in Nat /\ got <= Total /\ Total - got \in Nat
         /\ MaxTimeouts \in Nat /\ timeouts \in Nat /\ timeouts <= MaxTimeouts
<1>1. Total \in Nat /\ got \in Nat /\ got <= Total
  BY ParserTypes, Layout
<1>2. MaxTimeouts \in Nat /\ timeouts \in 0..MaxTimeouts
  BY LengthsAssumption DEF TypeOK
<1>3. QED  BY <1>1, <1>2, SMT

LEMMA LeftBounded ==
  ASSUME TypeOK
  PROVE  Left \in Nat /\ Left <= MostSteps
<1>1. /\ Total \in Nat /\ got \in Nat /\ got <= Total /\ Total - got \in Nat
      /\ MaxTimeouts \in Nat /\ timeouts \in Nat /\ timeouts <= MaxTimeouts
  BY Missing
<1>2. /\ (Total - got) * StepsPerByte \in Nat /\ Total * StepsPerByte \in Nat
      /\ (Total - got) * StepsPerByte <= Total * StepsPerByte
  BY <1>1, PerByte
<1>3. CASE pc = "read"
  <2>1. Left = (Total - got) * StepsPerByte + (MaxTimeouts - timeouts) + 2
    BY <1>3 DEF Left
  <2>2. QED  BY <1>1, <1>2, <2>1, SMT DEF MostSteps
<1>4. CASE pc # "read"
  <2>1. Left \in {0, 1}
    BY <1>4 DEF Left
  <2>2. QED  BY <1>1, <1>2, <2>1, SMT DEF MostSteps
<1>5. QED  BY <1>3, <1>4

(* Bytes that come use up some of it, and so does a time-out.                *)
LEMMA BytesBring ==
  ASSUME TypeOK, TypeOK', stream' = stream, pc = "read", pc' \in {"read", "rest"},
         got < got', timeouts' = 0
  PROVE  Left' < Left
<1> DEFINE x == (Total - got) * StepsPerByte
           y == (Total - got') * StepsPerByte
<1>1. /\ Total \in Nat /\ Total' = Total /\ got \in Nat /\ got' \in Nat
      /\ MaxTimeouts \in Nat /\ timeouts \in Nat /\ timeouts <= MaxTimeouts
      /\ got' <= Total
  <2>1. Total' = Total
    BY SameLayout
  <2>2. Total \in Nat /\ got \in 0..Total /\ got' \in 0..Total'
    BY ParserTypes, Layout DEF TypeOK
  <2>3. QED  BY <2>1, <2>2, Missing, SMT
<1>2. Total - got \in Nat /\ Total - got' \in Nat /\ Total - got' < Total - got
  <2>1. \A t, a, b \in Nat : a < b /\ b <= t =>
          t - a \in Nat /\ t - b \in Nat /\ t - b < t - a
    BY SMT
  <2>2. QED  BY <1>1, <2>1
<1>3. x \in Nat /\ y \in Nat /\ y + StepsPerByte <= x
  BY <1>2, PerByte
<1>4. Left = x + (MaxTimeouts - timeouts) + 2
  BY DEF Left
<1>5. Left' = IF pc' = "read" THEN y + (MaxTimeouts - 0) + 2 ELSE 1
  BY <1>1 DEF Left, StepsPerByte
<1> HIDE DEF x, y
<1>6. StepsPerByte = MaxTimeouts + 1
  BY DEF StepsPerByte
<1>7. y + (MaxTimeouts - 0) + 2 < x + (MaxTimeouts - timeouts) + 2
  BY <1>1, <1>3, <1>6, SMT
<1>8. 1 < x + (MaxTimeouts - timeouts) + 2
  BY <1>1, <1>3, SMT
<1>9. QED  BY <1>4, <1>5, <1>7, <1>8

Ends == pc' \notin {"read", "rest", "finish"}
Advances ==
  Uploading =>
    /\ Handler => Ends \/ Left' < Left
    /\ Handler \/ Ends \/ UNCHANGED <<pc, parser>>

LEMMA HandlerAdvances ==
  ASSUME TypeOK, TypeOK', Handler
  PROVE  Ends \/ Left' < Left
<1>1. ASSUME NEW k \in 1..Chunk, Receive(k)
      PROVE  Ends \/ Left' < Left
  <2>1. /\ pc = "read" /\ got' = got + k /\ timeouts' = 0 /\ stream' = stream
        /\ FileData(lo, got + k) \/ HeadData(got + k)
    BY <1>1 DEF Receive
  <2>2. got < got'
    BY <2>1, ParserTypes, SMT
  <2>3. \A r : AfterRead(r) \in {"read", "rest"}
    BY DEF AfterRead
  <2>4. ASSUME NEW a, NEW r, WriteSome(a, r)
        PROVE  pc' \in {"read", "rest", "idle"}
    BY <2>3, <2>4 DEF WriteSome, WriteFail
  <2>5. ASSUME NEW a, NEW r, FileData(a, r)
        PROVE  pc' \in {"read", "rest", "idle"}
    BY <2>3, <2>4, <2>5 DEF FileData
  <2>6. ASSUME NEW r, HeadData(r)
        PROVE  pc' \in {"read", "rest", "idle"}
    BY <2>3, <2>5, <2>6 DEF HeadData, Abort
  <2>7. pc' \in {"read", "rest", "idle"}
    BY <2>1, <2>5, <2>6
  <2>8. QED  BY <2>1, <2>2, <2>7, BytesBring DEF Ends
<1>2. CASE Timeout
  <2>1. /\ pc = "read" /\ UNCHANGED <<stream, got>>
        /\ \/ timeouts' = timeouts + 1 /\ pc' = pc
           \/ pc' = "idle"
    BY <1>2 DEF Timeout, Abort
  <2>2. ASSUME timeouts' = timeouts + 1, pc' = pc
        PROVE  Left' < Left
    <3> DEFINE x == (Total - got) * StepsPerByte
    <3>1. Left = x + (MaxTimeouts - timeouts) + 2
      BY <2>1 DEF Left
    <3>2. Left' = x + (MaxTimeouts - timeouts') + 2
      BY <2>1, <2>2, SameLayout DEF Left, StepsPerByte
    <3>3. x \in Nat /\ MaxTimeouts \in Nat /\ timeouts \in Nat
      BY Missing, PerByte
    <3> HIDE DEF x
    <3>4. QED  BY <2>2, <3>1, <3>2, <3>3, SMT
  <2>3. QED  BY <2>1, <2>2 DEF Ends
<1>3. CASE Closed
  <2>1. pc = "read" /\ pc' = "rest"
    BY <1>3 DEF Closed
  <2>2. Left' = 1
    BY <2>1 DEF Left
  <2>3. 1 < Left
    <3>1. /\ Total - got \in Nat /\ MaxTimeouts \in Nat
          /\ timeouts \in Nat /\ timeouts <= MaxTimeouts
      BY Missing
    <3>2. (Total - got) * StepsPerByte \in Nat
      BY <3>1, PerByte
    <3>3. Left = (Total - got) * StepsPerByte + (MaxTimeouts - timeouts) + 2
      BY <2>1 DEF Left
    <3>4. QED  BY <3>1, <3>2, <3>3, SMT
  <2>4. QED  BY <2>2, <2>3
<1>4. CASE RecvError \/ Finish
  BY <1>4 DEF RecvError, Abort, Finish, Invalid, NotSet, Done, Ends
<1>5. CASE Rest
  <2>1. pc = "rest" /\ pc' \in {"finish", "idle"}
    BY <1>5 DEF Rest, WriteFail
  <2>2. Left = 1
    BY <2>1 DEF Left
  <2>3. pc' = "finish" => Left' = 0
    BY DEF Left
  <2>4. QED  BY <2>1, <2>2, <2>3 DEF Ends
<1>6. QED  BY <1>1, <1>2, <1>3, <1>4, <1>5 DEF Handler

(* The safe kernel of UpdateEnds: every step of the upload's handler ends    *)
(* the upload or leaves fewer steps to its end, which are never more than    *)
(* MostSteps, and no other task's step takes it back: with one byte received *)
(* at a time and time-outs between, whatever the client does.                *)
THEOREM UploadAdvances ==
  Spec => [](Left \in Nat /\ Left <= MostSteps) /\ [][Advances]_vars
<1>1. Inv => Left \in Nat /\ Left <= MostSteps
  BY LeftBounded DEF Inv
<1>2. Inv /\ Inv' /\ [Next]_vars => [Advances]_vars
  <2> SUFFICES ASSUME Inv, Inv', Next, Uploading
               PROVE  /\ Handler => Ends \/ Left' < Left
                      /\ Handler \/ Ends \/ UNCHANGED <<pc, parser>>
    BY DEF Advances
  <2>1. Handler => Ends \/ Left' < Left
    BY HandlerAdvances DEF Inv
  <2>2. CASE Trigger \/ Start
    BY <2>2 DEF Trigger, Start, Free, Uploading
  <2>3. CASE Updater
    <3>1. UNCHANGED pc /\ UNCHANGED parser
      BY <2>3 DEF Updater, UrlWrite, UrlDone, UrlFail
    <3>2. QED  BY <2>1, <3>1
  <2>4. CASE Restart \/ PowerCut
    BY <2>4 DEF Restart, PowerCut, Ends
  <2>5. QED  BY <2>1, <2>2, <2>3, <2>4 DEF Next
<1>3. QED  BY <1>1, <1>2, Invariance, PTL DEF Spec
-----------------------------------------------------------------------------
(* What boots next, to who asks for an update.                             *)
Boots == IF boot = "slot" THEN IF Whole THEN "image" ELSE "broken"
                          ELSE "running"

Promise == INSTANCE OtaPromise WITH boots <- Boots

(* While an update is under way the running firmware is the one to boot.   *)
LEMMA BootsRunning ==
  ASSUME PromptRestart, Inv, Uploading \/ updater
  PROVE  Boots = "running" /\ state = "inProgress"
BY DEF Inv, RestartDue, OneUpdate, Boots, TypeOK

(* Short of Done, the handler leaves the update under way or has it fail.  *)
LEMMA HandlerKeeps ==
  ASSUME Handler, ~(Finish /\ Done), state = "inProgress"
  PROVE  state' \in {"inProgress", "failed"} /\ boot' = boot
<1>1. ASSUME NEW k \in 1..Chunk, Receive(k)
      PROVE  state' \in {"inProgress", "failed"} /\ boot' = boot
  <2>1. ASSUME NEW a, NEW r, FileData(a, r)
        PROVE  state' \in {"inProgress", "failed"}
    BY <2>1 DEF FileData, WriteSome, Write, WriteFail
  <2>2. ASSUME NEW r, HeadData(r)
        PROVE  state' \in {"inProgress", "failed"}
    BY <2>1, <2>2 DEF HeadData, Abort
  <2>3. QED  BY <1>1, <2>1, <2>2 DEF Receive
<1>2. CASE Timeout \/ Closed \/ RecvError
  BY <1>2 DEF Timeout, Closed, RecvError, Abort
<1>3. CASE Rest
  BY <1>3 DEF Rest, Write, WriteFail
<1>4. CASE Finish
  BY <1>4 DEF Finish, Invalid, NotSet
<1>5. QED  BY <1>1, <1>2, <1>3, <1>4 DEF Handler

(* Every step of the code is one of the promise, or none.                  *)
LEMMA PromiseStep ==
  ASSUME PromptRestart, Inv, Inv', [Next]_vars
  PROVE  [Promise!Next]_(Promise!vars)
<1>1. /\ boot = "slot" => restart /\ Whole
      /\ boot \in {"running", "slot"} /\ OneUpdate /\ stream \in Streams
  BY DEF Inv, RestartDue, TypeOK
<1>2. boot' = "slot" => Whole'
  BY DEF Inv, RestartDue
<1>3. Boots' = IF boot' = "slot" THEN "image" ELSE "running"
  BY <1>2 DEF Boots
<1>4. Boots = IF boot = "slot" THEN "image" ELSE "running"
  BY <1>1 DEF Boots
<1>5. CASE Trigger
  <2>1. Boots = "running" /\ Boots' = "running" /\ state # "inProgress"
    BY <1>1, <1>3, <1>4, <1>5 DEF Trigger, Free
  <2>2. state' = "inProgress" \/ state' = "idle"
    BY <1>5 DEF Trigger
  <2>3. QED
    BY <2>1, <2>2
       DEF Promise!Next, Promise!Begin, Promise!Refuse, Promise!Ready
<1>6. CASE Start
  <2>1. Boots = "running" /\ Boots' = "running" /\ state # "inProgress"
    BY <1>1, <1>3, <1>4, <1>6 DEF Start, Free
  <2>2. state' = "inProgress"
    BY <1>6 DEF Start
  <2>3. QED
    BY <2>1, <2>2 DEF Promise!Next, Promise!Begin, Promise!Ready
<1>7. CASE UrlWrite
  BY <1>3, <1>4, <1>7 DEF UrlWrite, Promise!vars
<1>8. CASE UrlDone
  <2>1. state = "inProgress"
    BY <1>1, <1>8 DEF UrlDone, OneUpdate
  <2>2. QED
    BY <1>3, <1>8, <2>1 DEF UrlDone, Promise!Next, Promise!Succeed
<1>9. CASE UrlFail
  <2>1. state = "inProgress"
    BY <1>1, <1>9 DEF UrlFail, OneUpdate
  <2>2. QED
    BY <1>3, <1>4, <1>9, <2>1 DEF UrlFail, Promise!Next, Promise!Fail
<1>10. CASE Handler
  <2>1. state = "inProgress"
    <3>1. Uploading
      BY <1>10 DEF Handler, Receive, Timeout, Closed, RecvError, Rest, Finish,
                   Uploading
    <3>2. QED  BY <3>1, BootsRunning
  <2>2. CASE Finish /\ Done
    BY <1>3, <2>1, <2>2 DEF Done, Promise!Next, Promise!Succeed
  <2>3. CASE ~(Finish /\ Done)
    <3>1. state' \in {"inProgress", "failed"} /\ boot' = boot
      BY <1>10, <2>1, <2>3, HandlerKeeps
    <3>2. Boots' = Boots
      BY <1>3, <1>4, <3>1
    <3>3. QED
      BY <2>1, <3>1, <3>2 DEF Promise!Next, Promise!Fail, Promise!vars
  <2>4. QED  BY <2>2, <2>3
<1>11. CASE PowerCut
  BY <1>3, <1>11 DEF PowerCut, Promise!Next, Promise!Restart
<1>12. CASE UNCHANGED vars
  <2>1. boot' = boot /\ state' = state
    BY <1>12 DEF vars
  <2>2. QED  BY <1>3, <1>4, <2>1 DEF Promise!vars
<1>13. QED
  BY <1>5, <1>6, <1>7, <1>8, <1>9, <1>10, <1>11, <1>12
     DEF Next, Updater, Restart

(* With nothing asked for between success and restart, both ways to update *)
(* keep the promise of OtaPromise, wherever the upload is cut into reads   *)
(* and whenever the power is: an update is begun only when none is under   *)
(* way or waits for its restart, ends once, and changes what boots next    *)
(* only as it succeeds, to the whole image.                                *)
THEOREM KeepsPromise ==
  ASSUME PromptRestart
  PROVE  Spec => Promise!Spec
<1>1. Init => Promise!Init
  BY DEF Init, Promise!Init, Boots
<1>2. Inv /\ Inv' /\ [Next]_vars => [Promise!Next]_(Promise!vars)
  BY PromiseStep
<1>3. QED  BY <1>1, <1>2, Invariance, PTL DEF Spec, Promise!Spec
=============================================================================
