---------------------------- MODULE RtpStreamProofs ----------------------------
(* What the payloaders and the paced sender promise, for every size of frame,  *)
(* every packet size and every width of the counters.                          *)
EXTENDS RtpStream, FiniteSetTheorems, TLAPS

USE DEF MaxRtpHeaderSize, NvVideoPacketSize, VideoHeaderSize, FecPercentage,
        AudioDataShards, AudioFecShards

-----------------------------------------------------------------------------
(* Arithmetic. *)

LEMMA ModRange ==
  ASSUME NEW a \in Int, NEW b \in Nat \ {0}
  PROVE  a % b \in 0..b - 1
OBVIOUS

LEMMA ModSmall ==
  ASSUME NEW b \in Nat \ {0}, NEW a \in 0..b - 1
  PROVE  a % b = a
OBVIOUS

LEMMA ModItself ==
  ASSUME NEW b \in Nat \ {0}
  PROVE  b % b = 0
OBVIOUS

LEMMA Assoc ==
  ASSUME NEW a \in Nat, NEW b \in Nat, NEW c \in Nat
  PROVE  a + (b + c) = (a + b) + c
OBVIOUS

LEMMA Monotone ==
  ASSUME NEW a \in Nat, NEW b \in Nat, NEW c \in Nat
  PROVE  a + b <= a + c <=> b <= c
OBVIOUS

LEMMA DivInt ==
  ASSUME NEW a \in Int, NEW b \in Nat \ {0}
  PROVE  a \div b \in Int
OBVIOUS

LEMMA DivPositive ==
  ASSUME NEW a \in Nat, NEW b \in Nat \ {0}, b <= a
  PROVE  a \div b \in Nat \ {0}
OBVIOUS

LEMMA CeilPositive ==
  ASSUME NEW a \in Nat \ {0}, NEW b \in Nat \ {0}
  PROVE  Ceil(a, b) \in Nat \ {0}
BY DEF Ceil

\* A block of d packets, d > 0, has some parity, and a percentage that makes the
\* client compute the number of parity packets that were sent.
THEOREM ParityAgrees ==
  ASSUME NEW data \in Nat \ {0}
  PROVE  /\ Parity(data) \in Nat /\ Percentage(data) \in Nat
         /\ Ceil(data * Percentage(data), 100) = Parity(data)
<1>1. CASE Ceil(data * FecPercentage, 100) >= MinFec
  BY <1>1, PacketsAssumption DEF Parity, Percentage, Most, Ceil
<1>2. CASE Ceil(data * FecPercentage, 100) < MinFec
  <2>1. data \in 1..5 /\ MinFec \in 1..2
    BY <1>2, PacketsAssumption DEF Ceil
  <2>2. data = 1 \/ data = 2 \/ data = 3 \/ data = 4 \/ data = 5
    BY <2>1
  <2> QED  BY <1>2, <2>1, <2>2 DEF Parity, Percentage, Most, Ceil
<1> QED  BY <1>1, <1>2, PacketsAssumption DEF Ceil

\* The blocks of a frame that has more than one are not empty: no percentage is
\* computed of none.
THEOREM BlocksNotEmpty ==
  ASSUME NEW tot \in Nat, tot > MultiAbove, NEW b \in 0..2
  PROVE  /\ BlockSize(tot, b) \in Nat \ {0}
         /\ BlockStart(tot, b) \in Nat
         /\ BlockSize(tot, 0) + BlockSize(tot, 1) + BlockSize(tot, 2) = tot
<1>1. b = 0 \/ b = 1 \/ b = 2
  OBVIOUS
<1> QED  BY <1>1, PacketsAssumption DEF BlockSize, BlockStart, Ceil, Least

\* With the numbers of the code there are three sizes of frame whose last block
\* gets FEC when the others do not.
THEOREM MixedSizes ==
  ASSUME DataShardsMax = 255, MultiAbove = 90, NEW tot \in Nat
  PROVE  Mixed(tot) <=> tot \in {637, 638, 640}
<1>1. Mixed(tot) <=> /\ tot > 90
                     /\ \/ TooLarge(BlockSize(tot, 0))
                        \/ TooLarge(BlockSize(tot, 1))
                        \/ TooLarge(BlockSize(tot, 2))
                     /\ \/ ~TooLarge(BlockSize(tot, 0))
                        \/ ~TooLarge(BlockSize(tot, 1))
                        \/ ~TooLarge(BlockSize(tot, 2))
  BY 0..2 = {0, 1, 2} DEF Mixed
<1>2. \A d \in Nat : TooLarge(d) <=> d > 212
  BY PacketsAssumption DEF TooLarge, Parity, Most, Ceil
<1>3. tot > 90 => BlockSize(tot, 0) = (tot + 2) \div 3 /\ BlockSize(tot, 1) = (tot + 2) \div 3
                  /\ BlockSize(tot, 2) = tot - 2 * ((tot + 2) \div 3)
                  /\ BlockSize(tot, 2) \in Nat
  BY DEF BlockSize, BlockStart, Ceil, Least
<1>4. (tot + 2) \div 3 \in Nat
  OBVIOUS
<1> QED
  BY <1>1, <1>2, <1>3, <1>4

\* The client's bitrate holds the video with its FEC, and something is left.
THEOREM BitrateWithFec ==
  ASSUME NEW configured \in Nat, NEW channels \in Nat
  PROVE  /\ AnnouncedBitrate(configured, channels) \in Nat
         /\ AnnouncedBitrate(configured, channels) * 100
              <= configured * (100 - FecPercentage)
         /\ configured >= 100 => AnnouncedBitrate(configured, channels) * 2 >= configured
BY DEF AnnouncedBitrate, Least

\* Packets of 1 to 65536 bytes keep the loop of send_buffer_batched going: there
\* is a budget and a batch of at least one.
THEOREM PacingPositive ==
  ASSUME NEW size \in Nat \ {0}, size <= 65536
  PROVE  /\ PacketsPerMs(size) \in Nat \ {0}
         /\ PacketsPerCall(size) \in 1..16
<1>1. 65536 \div size \in Nat \ {0} /\ size * 8 \in Nat \ {0}
  BY DivPositive
<1>2. 800000 \div (size * 8) \in Int
  BY <1>1, DivInt
<1> QED  BY <1>1, <1>2 DEF PacketsPerMs, PacketsPerCall, Least, Most

-----------------------------------------------------------------------------
(* The packets of a frame. *)

NumberedFrom(ps, base) == \A i \in 1..Len(ps) : ps[i].seq = (base + i - 1) % SeqMod

LEMMA WithFecNumbers ==
  ASSUME NEW size \in Nat, NEW start \in Nat, NEW base \in Nat, NEW from \in Nat,
         NEW data \in Nat \ {0}, NEW block \in 0..2, NEW last \in {0, 2},
         TooLarge(data) => base = start + from
  PROVE  LET ps == WithFec(size, start, base, from, data, block, last)
         IN  /\ ps \in Seq(Packet)
             /\ Len(ps) = IF TooLarge(data) THEN data ELSE data + Parity(data)
             /\ NumberedFrom(ps, base)
<1>1. /\ Parity(data) \in Nat /\ Percentage(data) \in Nat
      /\ PacketBytes \in Nat \ {0} /\ FullSize(size) \in Nat
  BY ParityAgrees, PacketsAssumption DEF PacketBytes, FullSize
<1>2. TotPackets(size) \in Nat \ {0}
  BY CeilPositive, PacketsAssumption DEF TotPackets, FullSize, PacketBytes
<1>3. \A x \in Nat : x % SeqMod \in 0..SeqMod - 1
  BY ModRange, PacketsAssumption
<1>4. \A nr \in Nat : Least(FullSize(size) - nr * PacketBytes, PacketBytes) \in Int
  BY <1>1 DEF Least
<1>5. CASE TooLarge(data)
  <2> DEFINE p(i) == RtpPacket(size, start, from + i - 1)
  <2>1. ASSUME NEW i \in 1..data
        PROVE  /\ p(i) \in Packet
               /\ p(i).seq = (base + i - 1) % SeqMod
    <3>1. from + i - 1 \in Nat /\ start + (from + i - 1) = base + i - 1
          /\ start + (from + i - 1) \in Nat
      BY <1>5
    <3>2. (start + (from + i - 1)) % SeqMod \in 0..SeqMod - 1
      BY <1>3, <3>1
    <3>3. Least(FullSize(size) - (from + i - 1) * PacketBytes, PacketBytes) \in Int
      BY <1>4, <3>1
    <3> QED  BY <3>1, <3>2, <3>3, <1>2 DEF RtpPacket, Packet
  <2> HIDE DEF p
  <2>2. WithFec(size, start, base, from, data, block, last) = [i \in 1..data |-> p(i)]
    BY <1>5 DEF WithFec, p
  <2> QED  BY <2>1, <2>2, <1>5 DEF NumberedFrom
<1>6. CASE ~TooLarge(data)
  <2> DEFINE n == data + Parity(data)
             p(i) == [kind |-> IF i <= data THEN "data" ELSE "parity",
                      seq |-> (base + i - 1) % SeqMod,
                      block |-> block, last |-> last,
                      shard |-> i - 1, data |-> data, pct |-> Percentage(data),
                      sof |-> i <= data /\ from + i = 1,
                      eof |-> i <= data /\ from + i = TotPackets(size),
                      bytes |-> IF i <= data
                                THEN Least(FullSize(size) - (from + i - 1) * PacketBytes, PacketBytes)
                                ELSE PacketBytes]
  <2>1. ASSUME NEW i \in 1..n
        PROVE  /\ p(i) \in Packet
               /\ p(i).seq = (base + i - 1) % SeqMod
    <3>1. from + i - 1 \in Nat /\ base + i - 1 \in Nat /\ i - 1 \in Nat
      BY <1>1
    <3>2. (base + i - 1) % SeqMod \in 0..SeqMod - 1
      BY <1>3, <3>1
    <3>3. Least(FullSize(size) - (from + i - 1) * PacketBytes, PacketBytes) \in Int
      BY <1>4, <3>1
    <3> QED  BY <3>1, <3>2, <3>3, <1>1 DEF Packet
  <2>2. n \in Nat
    BY <1>1
  <2> HIDE DEF p
  <2>3. WithFec(size, start, base, from, data, block, last) = [i \in 1..n |-> p(i)]
    BY <1>6 DEF WithFec, p
  <2> HIDE DEF n
  <2>4. [i \in 1..n |-> p(i)] \in Seq(Packet) /\ Len([i \in 1..n |-> p(i)]) = n
    BY <2>1, <2>2
  <2> QED  BY <2>1, <2>3, <2>4, <1>6 DEF NumberedFrom, n
<1> QED  BY <1>5, <1>6

LEMMA NumberedConcat ==
  ASSUME NEW ps \in Seq(Packet), NEW qs \in Seq(Packet), NEW base \in Nat,
         NumberedFrom(ps, base), NumberedFrom(qs, base + Len(ps))
  PROVE  /\ ps \o qs \in Seq(Packet)
         /\ Len(ps \o qs) = Len(ps) + Len(qs)
         /\ NumberedFrom(ps \o qs, base)
<1>1. ps \o qs \in Seq(Packet) /\ Len(ps \o qs) = Len(ps) + Len(qs)
  OBVIOUS
<1>2. ASSUME NEW i \in 1..Len(ps) + Len(qs)
      PROVE  (ps \o qs)[i].seq = (base + i - 1) % SeqMod
  <2>1. CASE i <= Len(ps)
    <3>1. (ps \o qs)[i] = ps[i] /\ i \in 1..Len(ps)
      BY <2>1
    <3> QED  BY <3>1 DEF NumberedFrom
  <2>2. CASE i > Len(ps)
    <3>1. (ps \o qs)[i] = qs[i - Len(ps)] /\ i - Len(ps) \in 1..Len(qs)
      BY <2>2
    <3>2. (base + Len(ps)) + (i - Len(ps)) - 1 = base + i - 1
      OBVIOUS
    <3> QED  BY <3>1, <3>2 DEF NumberedFrom
  <2> QED  BY <2>1, <2>2
<1> QED  BY <1>1, <1>2 DEF NumberedFrom

\* A frame's packets are numbered from the payloader's counter on, with blocks
\* of which none, some or all have parity.
LEMMA SplitNumbers ==
  ASSUME NEW size \in Nat, NEW start \in Nat
  PROVE  /\ SplitIntoRtp(size, start) \in Seq(Packet)
         /\ NumberedFrom(SplitIntoRtp(size, start), start)
<1> DEFINE tot == TotPackets(size)
<1>1. tot \in Nat \ {0}
  BY CeilPositive, PacketsAssumption DEF TotPackets, FullSize, PacketBytes
<1>2. CASE ~(tot > MultiAbove)
  <2>1. 0 \in Nat /\ 0 \in 0..2 /\ start = start + 0
    OBVIOUS
  <2> QED  BY <1>1, <1>2, <2>1, WithFecNumbers DEF SplitIntoRtp
<1>3. CASE tot > MultiAbove
  <2> DEFINE S(b) == BlockStart(tot, b)
             D(b) == BlockSize(tot, b)
             B(b, base) == WithFec(size, start, base, S(b), D(b), b, 2)
             p0 == B(0, start)
             p1 == B(1, start + Len(p0))
             p2 == B(2, start + Len(p0) + Len(p1))
  <2>1. \A b \in 0..2 : D(b) \in Nat \ {0} /\ S(b) \in Nat
    BY <1>1, <1>3, BlocksNotEmpty
  <2>2. S(0) = 0 /\ S(1) = D(0) /\ S(2) = D(0) + D(1) /\ D(1) = D(0) /\ D(2) <= D(1)
    BY <1>1, <1>3, PacketsAssumption DEF BlockStart, BlockSize, Ceil, Least
  <2>3. TooLarge(D(2)) => TooLarge(D(1))
    BY <2>1, <2>2, PacketsAssumption DEF TooLarge, Parity, Most, Ceil
  <2>4. SplitIntoRtp(size, start) = p0 \o p1 \o p2
    BY <1>3 DEF SplitIntoRtp, MultiBlocks
  <2> HIDE DEF S, D
  <2>5. ASSUME NEW b \in 0..2, NEW base \in Nat, TooLarge(D(b)) => base = start + S(b)
        PROVE  /\ B(b, base) \in Seq(Packet) /\ NumberedFrom(B(b, base), base)
               /\ TooLarge(D(b)) => Len(B(b, base)) = D(b)
    <3>1. D(b) \in Nat \ {0} /\ S(b) \in Nat /\ 2 \in {0, 2}
      BY <2>1
    <3>2. PICK d \in Nat \ {0}, from \in Nat : d = D(b) /\ from = S(b)
      BY <3>1
    <3>3. TooLarge(d) => base = start + from
      BY <2>5, <3>2
    <3>4. LET ps == WithFec(size, start, base, from, d, b, 2)
          IN  /\ ps \in Seq(Packet)
              /\ Len(ps) = IF TooLarge(d) THEN d ELSE d + Parity(d)
              /\ NumberedFrom(ps, base)
      BY <3>1, <3>3, WithFecNumbers
    <3> QED  BY <3>2, <3>4
  <2> HIDE DEF B
  <2>6. /\ p0 \in Seq(Packet) /\ NumberedFrom(p0, start)
        /\ TooLarge(D(0)) => Len(p0) = D(0)
    BY <2>2, <2>5
  <2> HIDE DEF p0
  <2>7. /\ p1 \in Seq(Packet) /\ NumberedFrom(p1, start + Len(p0))
        /\ TooLarge(D(1)) => Len(p1) = D(1)
    <3>1. start + Len(p0) \in Nat /\ (TooLarge(D(1)) => start + Len(p0) = start + S(1))
      BY <2>2, <2>6
    <3> QED  BY <2>5, <3>1
  <2> HIDE DEF p1
  <2>8. /\ p2 \in Seq(Packet) /\ NumberedFrom(p2, start + Len(p0) + Len(p1))
    <3>1. start + Len(p0) + Len(p1) \in Nat
      BY <2>6, <2>7, SMTT(60)
    <3>2. TooLarge(D(2)) => start + Len(p0) + Len(p1) = start + S(2)
      BY <2>1, <2>2, <2>3, <2>6, <2>7
    <3> QED  BY <2>5, <3>1, <3>2
  <2> HIDE DEF p2
  <2>9. /\ p0 \o p1 \in Seq(Packet) /\ NumberedFrom(p0 \o p1, start)
        /\ Len(p0 \o p1) = Len(p0) + Len(p1)
    BY <2>6, <2>7, NumberedConcat
  <2>10. NumberedFrom(p2, start + Len(p0 \o p1))
    <3>1. start + Len(p0 \o p1) = start + Len(p0) + Len(p1)
      BY <2>6, <2>7, <2>9
    <3> QED  BY <2>8, <3>1
  <2> DEFINE ps == p0 \o p1
  <2> HIDE DEF ps
  <2>11. ps \in Seq(Packet) /\ NumberedFrom(ps, start) /\ NumberedFrom(p2, start + Len(ps))
    BY <2>9, <2>10 DEF ps
  <2>12. ps \o p2 \in Seq(Packet) /\ NumberedFrom(ps \o p2, start)
    BY <2>8, <2>11, NumberedConcat
  <2>13. SplitIntoRtp(size, start) = ps \o p2
    BY <2>4 DEF ps
  <2> QED  BY <2>12, <2>13
<1> QED  BY <1>2, <1>3

-----------------------------------------------------------------------------
(* The invariant. Where the sending thread is tells how many packets of the *)
(* frame are on the wire, and that the batch and its chunk end within it.   *)

Progress ==
  /\ at = "idle" => Len(wire) = Len(packets)
  /\ at = "pace" => pace.paced /\ Len(wire) = pace.sent
  /\ at \in {"chunk", "send"} =>
       /\ Len(wire) = batch.offset + batch.done
       /\ batch.done <= batch.count
       /\ batch.offset + batch.count <= Len(packets)
       /\ IF pace.paced
          THEN batch.offset = pace.sent /\ pace.window + batch.count <= MaxPerMs
          ELSE batch.offset = 0 /\ batch.count = Len(packets)
  /\ at = "send" =>
       /\ batch.base + batch.got = batch.offset + batch.done
       /\ batch.base + batch.size <= batch.offset + batch.count
       /\ batch.got <= batch.size
       /\ batch.retries < MaxRetries
  /\ Len(wire) <= Len(packets)

InOrder == \A i \in 1..Len(wire) : wire[i] = i - 1

\* What is sent beyond the window was due before now.
Budget ==
  pace.paced => /\ pace.sent <= pace.window + Most(0, now - pace.start)
                /\ Len(wire) + pace.window <= pace.sent + MaxPerMs

\* The packets of the current group of four that are saved already.
Saved ==
  \A i \in 0..AudioDataShards - 1 :
    i < audioSeq % AudioDataShards =>
      buffer[i] = audioSeq - (audioSeq % AudioDataShards) + i

SendInv == Progress /\ InOrder /\ Budget

\* TypeOK, pipeline by pipeline and for the sending thread.
VideoTypes ==
  /\ seq \in 0..SeqMod - 1 /\ first \in 0..SeqMod - 1
  /\ frames \in 0..MaxFrames
  /\ packets \in Seq(Packet)
  /\ lastLen \in 0..PacketBytes
  /\ pacing \in BOOLEAN

SenderTypes ==
  /\ now \in Nat /\ nextStart \in Nat
  /\ pace \in Pace
  /\ batch \in Batch
  /\ at \in {"idle", "pace", "chunk", "send", "failed"}
  /\ wire \in Seq(Nat)

AudioTypes ==
  /\ audioSeq \in 0..SeqMod - 1
  /\ buffer \in [0..AudioDataShards - 1 -> -1..SeqMod - 1]
  /\ \/ audioFec = <<>>
     \/ audioFec \in [1..AudioFecShards ->
          [seq : 0..SeqMod - 1, base : 0..SeqMod - 1,
           of : [0..AudioDataShards - 1 -> -1..SeqMod - 1]]]

LEMMA TypeParts ==
  /\ TypeOK <=> VideoTypes /\ SenderTypes /\ AudioTypes
  /\ TypeOK' <=> VideoTypes' /\ SenderTypes' /\ AudioTypes'
BY Zenon DEF TypeOK, VideoTypes, SenderTypes, AudioTypes

IInv == TypeOK /\ SendInv /\ SeqConsecutive /\ Saved /\ AudioFecCovers

LEMMA PacketsOfFrame ==
  ASSUME TypeOK, NEW size \in Sizes, packets' = SplitIntoRtp(size, seq), first' = seq,
         seq' = (seq + Len(packets')) % SeqMod
  PROVE  /\ packets' \in Seq(Packet) /\ Len(packets') \in Nat
         /\ seq' \in 0..SeqMod - 1 /\ first' \in 0..SeqMod - 1
         /\ SeqConsecutive'
<1>1. size \in Nat /\ seq \in Nat /\ seq \in 0..SeqMod - 1
  BY StreamAssumption, PacketsAssumption DEF TypeOK
<1>2. packets' \in Seq(Packet) /\ NumberedFrom(packets', seq)
  BY <1>1, SplitNumbers
<1>3. Len(packets') \in Nat
  BY <1>2
<1>4. seq' \in 0..SeqMod - 1
  BY <1>1, <1>3, PacketsAssumption, ModRange
<1> QED  BY <1>1, <1>2, <1>3, <1>4 DEF SeqConsecutive, NumberedFrom

LEMMA LastLenInPacket ==
  ASSUME NEW size \in Sizes
  PROVE  LastPayloadLen(size) \in 0..PacketBytes
<1>1. FullSize(size) \in Int /\ PacketBytes \in Nat \ {0} /\ PacketBytes = PayloadSize - 16
  BY StreamAssumption, PacketsAssumption DEF FullSize, PacketBytes
<1>2. FullSize(size) % PacketBytes \in 0..PacketBytes - 1
  BY <1>1, ModRange
<1> QED  BY <1>1, <1>2 DEF LastPayloadLen

LEMMA InitIInv == Init => IInv
<1> SUFFICES ASSUME Init PROVE IInv
  OBVIOUS
<1>1. 0 \in 0..SeqMod - 1 /\ 0 \in 0..MaxRetries /\ 0 \in 0..MaxPerMs /\ 0 \in 0..MaxFrames
      /\ 0 \in 0..PacketBytes
  BY PacketsAssumption, StreamAssumption DEF PacketBytes
<1>2. TypeOK
  BY <1>1, PacketsAssumption DEF Init, TypeOK, Pace, Batch, NoBatch
<1>3. Progress /\ InOrder /\ Budget
  BY StreamAssumption DEF Init, Progress, InOrder, Budget
<1>4. 0 % SeqMod = 0 /\ 0 % AudioDataShards = 0
  BY ModSmall, <1>1, PacketsAssumption
<1>5. SeqConsecutive /\ AudioFecCovers
  BY <1>4 DEF Init, SeqConsecutive, AudioFecCovers
<1>6. Saved
  BY <1>4 DEF Init, Saved
<1> QED  BY <1>2, <1>3, <1>5, <1>6 DEF IInv, SendInv

\* A frame begins, at once or paced.
LEMMA EncodeFrameStep ==
  ASSUME IInv, NEW size \in Sizes, EncodeFrame(size)
  PROVE  IInv'
<1>1. /\ packets' \in Seq(Packet) /\ Len(packets') \in Nat
      /\ seq' \in 0..SeqMod - 1 /\ first' \in 0..SeqMod - 1 /\ SeqConsecutive'
  BY PacketsOfFrame DEF IInv, EncodeFrame
<1>2. lastLen' \in 0..PacketBytes
  BY LastLenInPacket DEF EncodeFrame
<1>3. /\ pace' \in Pace /\ pace'.sent = 0 /\ pace'.window = 0 /\ pace'.start \in Nat
      /\ \/ /\ ~pace'.paced /\ at' = "chunk" /\ batch' \in Batch
            /\ batch'.offset = 0 /\ batch'.count = Len(packets') /\ batch'.done = 0
         \/ pace'.paced /\ at' = "pace" /\ batch' = batch
  <2>1. 0 \in 0..MaxPerMs /\ now \in Nat /\ nextStart \in Nat /\ Most(nextStart, now) \in Nat
        /\ 0 \in 0..MaxRetries
    BY StreamAssumption, TypeParts DEF IInv, SenderTypes, Most
  <2>2. CASE ~pacing \/ Len(packets') <= MaxBatchSize
    <3>1. /\ pace' = [paced |-> FALSE, start |-> now, sent |-> 0, window |-> 0]
          /\ at' = "chunk"
          /\ batch' = [offset |-> 0, count |-> Len(packets'), done |-> 0,
                       base |-> 0, size |-> 0, got |-> 0, retries |-> 0]
      BY <2>2 DEF EncodeFrame, SendBuffer, SendBatch, NoBatch
    <3> QED  BY <3>1, <2>1, <1>1 DEF Pace, Batch
  <2>3. CASE ~(~pacing \/ Len(packets') <= MaxBatchSize)
    <3>1. /\ pace' = [paced |-> TRUE, start |-> Most(nextStart, now), sent |-> 0, window |-> 0]
          /\ at' = "pace" /\ batch' = batch
      BY <2>3 DEF EncodeFrame, SendBuffer
    <3> QED  BY <3>1, <2>1 DEF Pace
  <2> QED  BY <2>2, <2>3
<1>4. wire' = <<>> /\ batch' \in Batch
  BY <1>3, TypeParts DEF EncodeFrame, IInv, SenderTypes
<1>5. TypeOK'
  <2>1. VideoTypes'
    BY <1>1, <1>2, StreamAssumption, TypeParts DEF IInv, VideoTypes, EncodeFrame
  <2>2. SenderTypes'
    BY <1>3, <1>4, TypeParts DEF IInv, SenderTypes, EncodeFrame
  <2>3. AudioTypes'
    BY TypeParts DEF IInv, AudioTypes, EncodeFrame, audio
  <2> QED  BY <2>1, <2>2, <2>3, TypeParts
<1>6. SendInv'
  <2>1. Len(wire') = 0 /\ now' = now /\ now \in Nat
    BY <1>4, TypeParts DEF IInv, SenderTypes, EncodeFrame
  <2>2. Progress'
    BY <1>1, <1>3, <2>1, StreamAssumption DEF Progress
  <2>3. InOrder' /\ Budget'
    BY <1>3, <2>1, StreamAssumption DEF InOrder, Budget, Most
  <2> QED  BY <2>2, <2>3 DEF SendInv
<1>7. Saved' /\ AudioFecCovers'
  BY DEF IInv, EncodeFrame, audio, Saved, AudioFecCovers
<1> QED  BY <1>1, <1>5, <1>6, <1>7 DEF IInv

\* Every other step of the video thread leaves the frame and the audio alone.
LEMMA FrameUntouched ==
  ASSUME IInv, UNCHANGED <<payloader, pacing, audio>>, SenderTypes', SendInv'
  PROVE  IInv'
<1>1. VideoTypes' /\ AudioTypes'
  BY TypeParts DEF IInv, VideoTypes, AudioTypes, payloader, audio
<1>2. SeqConsecutive' /\ Saved' /\ AudioFecCovers'
  BY DEF IInv, payloader, audio, SeqConsecutive, Saved, AudioFecCovers
<1> QED  BY <1>1, <1>2, TypeParts DEF IInv

LEMMA ConcatNat ==
  ASSUME NEW s \in Seq(Nat), NEW t \in Seq(Nat)
  PROVE  s \o t \in Seq(Nat) /\ Len(s \o t) = Len(s) + Len(t) /\ Len(s) \in Nat
OBVIOUS

LEMMA BatchFields ==
  ASSUME NEW b \in Batch
  PROVE  /\ b.base \in Nat /\ b.got \in Nat /\ b.size \in Nat /\ b.done \in Nat
         /\ b.offset \in Nat /\ b.count \in Nat /\ b.retries \in 0..MaxRetries
BY DEF Batch

LEMMA PaceFields ==
  ASSUME NEW p \in Pace
  PROVE  /\ p.paced \in BOOLEAN /\ p.start \in Nat /\ p.sent \in Nat
         /\ p.window \in 0..MaxPerMs
BY DEF Pace

LEMMA PaceSteps ==
  ASSUME SenderTypes, Len(packets) \in Nat, SendInv, PaceStep
  PROVE  SenderTypes' /\ SendInv'
<1> USE StreamAssumption DEF payloader
<1>0. /\ pace.paced \in BOOLEAN /\ pace.start \in Nat /\ pace.sent \in Nat
      /\ pace.window \in 0..MaxPerMs /\ now \in Nat
  BY PaceFields DEF SenderTypes
<1>1. CASE PaceOver
  <2>1. nextStart' \in Nat
    BY <1>0, <1>1 DEF PaceOver
  <2>2. SenderTypes'
    BY <1>1, <2>1 DEF PaceOver, SenderTypes
  <2> QED  BY <1>0, <1>1, <2>2 DEF PaceOver, SendInv, Progress, InOrder, Budget
<1>2. CASE Sleep
  <2>1. now' \in Nat /\ now' >= now /\ now' >= pace.start + pace.sent
    BY <1>0, <1>2 DEF Sleep, Most
  <2>2. pace' = [paced |-> pace.paced, start |-> pace.start, sent |-> pace.sent, window |-> 0]
    BY <1>2 DEF Sleep, Pace, SenderTypes
  <2>3. pace' \in Pace
    BY <1>0, <2>2 DEF Pace
  <2>4. SenderTypes'
    BY <1>2, <2>1, <2>3 DEF Sleep, SenderTypes
  <2>5. Progress' /\ InOrder'
    BY <1>2, <2>2 DEF Sleep, SendInv, Progress, InOrder
  <2>6. Budget'
    BY <1>0, <1>2, <2>1, <2>2 DEF Sleep, SendInv, Progress, Budget, Most
  <2> QED  BY <2>4, <2>5, <2>6 DEF SendInv
<1>3. CASE NextBatch
  <2>1. /\ NextCount \in Nat /\ pace.sent + NextCount <= Len(packets)
        /\ pace.window + NextCount <= MaxPerMs
    BY <1>0, <1>3 DEF NextBatch, NextCount, Least
  <2>2. /\ batch' = [offset |-> pace.sent, count |-> NextCount, done |-> 0,
                     base |-> 0, size |-> 0, got |-> 0, retries |-> 0]
        /\ at = "pace" /\ at' = "chunk" /\ UNCHANGED <<pace, wire, packets, now, nextStart>>
    BY <1>3 DEF NextBatch, SendBatch, NoBatch
  <2>3. batch' \in Batch
    BY <1>0, <2>1, <2>2 DEF Batch
  <2>4. SenderTypes'
    BY <2>2, <2>3 DEF SenderTypes
  <2>5. Progress'
    BY <1>0, <2>1, <2>2 DEF SendInv, Progress
  <2>6. InOrder' /\ Budget'
    BY <2>2 DEF SendInv, InOrder, Budget
  <2> QED  BY <2>4, <2>5, <2>6 DEF SendInv
<1> QED  BY <1>1, <1>2, <1>3 DEF PaceStep

\* The kernel takes the next packets of the frame.
LEMMA AcceptStep ==
  ASSUME SenderTypes, Len(packets) \in Nat, SendInv, NEW k \in 1..MaxBatch, Accept(k)
  PROVE  SenderTypes' /\ SendInv'
<1> USE StreamAssumption DEF payloader
<1> DEFINE more == [i \in 1..k |-> batch.base + batch.got + i - 1]
<1>0. /\ pace.paced \in BOOLEAN /\ pace.start \in Nat /\ pace.sent \in Nat
      /\ pace.window \in 0..MaxPerMs /\ now \in Nat
  BY PaceFields DEF SenderTypes
<1>1. /\ batch.base \in Nat /\ batch.got \in Nat /\ batch.size \in Nat /\ batch.done \in Nat
      /\ batch.offset \in Nat /\ batch.count \in Nat /\ batch.retries \in 0..MaxRetries
  BY BatchFields DEF SenderTypes
<1>2. more \in Seq(Nat) /\ Len(more) = k /\ k \in Nat
  BY <1>1
<1>12. \A i \in 1..k : more[i] = batch.base + batch.got + i - 1
  OBVIOUS
<1> HIDE DEF more
<1>3. /\ batch' = [offset |-> batch.offset, count |-> batch.count, done |-> batch.done + k,
                   base |-> batch.base, size |-> batch.size, got |-> batch.got + k,
                   retries |-> 0]
      /\ at = "send" /\ batch.got + k <= batch.size
      /\ at' = IF batch.got + k = batch.size THEN "chunk" ELSE "send"
      /\ UNCHANGED <<packets, pace, now, nextStart>>
  BY DEF Accept, Batch, SenderTypes
<1>4. wire' = wire \o more /\ wire \in Seq(Nat)
  BY DEF Accept, SenderTypes, more
<1>5. wire' \in Seq(Nat) /\ Len(wire') = Len(wire) + k /\ Len(wire) \in Nat
  BY <1>2, <1>4, ConcatNat
<1>6. batch' \in Batch
  BY <1>1, <1>2, <1>3 DEF Batch
<1>7. SenderTypes'
  BY <1>3, <1>5, <1>6 DEF SenderTypes
<1>8. Len(wire) = batch.base + batch.got
  BY <1>3 DEF SendInv, Progress
<1>9. InOrder'
  <2> SUFFICES ASSUME NEW i \in 1..Len(wire') PROVE wire'[i] = i - 1
    BY DEF InOrder
  <2>1. CASE i <= Len(wire)
    BY <2>1, <1>2, <1>4 DEF SendInv, InOrder
  <2>2. CASE i > Len(wire)
    <3>1. i - Len(wire) \in 1..k /\ wire'[i] = more[i - Len(wire)]
      BY <2>2, <1>2, <1>4, <1>5
    <3>2. more[i - Len(wire)] = batch.base + batch.got + (i - Len(wire)) - 1
      BY <1>12, <3>1
    <3> QED  BY <3>1, <3>2, <1>8, <1>1
  <2> QED  BY <2>1, <2>2, <1>4, <1>5
<1>10. /\ at = "send" /\ batch.got + k <= batch.size
       /\ at' \in {"chunk", "send"} /\ (at' = "send" => batch.got + k # batch.size)
       /\ batch'.offset = batch.offset /\ batch'.count = batch.count
       /\ batch'.done = batch.done + k /\ batch'.base = batch.base
       /\ batch'.size = batch.size /\ batch'.got = batch.got + k /\ batch'.retries = 0
       /\ pace' = pace /\ packets' = packets
  BY <1>3
<1>11. /\ batch.offset + batch.count <= Len(packets) /\ Len(wire) = batch.offset + batch.done
       /\ IF pace.paced
          THEN batch.offset = pace.sent /\ pace.window + batch.count <= MaxPerMs
          ELSE batch.offset = 0 /\ batch.count = Len(packets)
       /\ batch.base + batch.got = batch.offset + batch.done
       /\ batch.base + batch.size <= batch.offset + batch.count
  BY <1>10 DEF SendInv, Progress
<1>14. /\ Len(wire') = batch.offset + (batch.done + k)
       /\ batch.done + k <= batch.count
       /\ Len(wire') <= Len(packets)
       /\ batch.base + (batch.got + k) = batch.offset + (batch.done + k)
       /\ Len(wire') <= batch.offset + batch.count
  <2>1. k \in Nat
    BY <1>2
  <2>2. batch.base + batch.got = batch.offset + batch.done
    BY <1>11
  <2>3. batch.base + (batch.got + k) = batch.offset + (batch.done + k)
    <3>1. batch.base + (batch.got + k) = (batch.base + batch.got) + k
      BY <1>1, <2>1, Assoc, SMTT(60)
    <3>2. batch.offset + (batch.done + k) = (batch.offset + batch.done) + k
      BY <1>1, <2>1, Assoc, SMTT(60)
    <3> QED  BY <2>2, <3>1, <3>2
  <2>4. Len(wire') = batch.offset + batch.done + k
    BY <1>5, <1>11
  <2>5. batch.got + k <= batch.size
    BY <1>10
  <2>6. batch.base + batch.size <= batch.offset + batch.count
    BY <1>11
  <2>7. batch.done + k <= batch.count
    <3>1. batch.base + (batch.got + k) <= batch.base + batch.size
      BY <1>1, <2>1, <2>5, Monotone
    <3>2. batch.offset + (batch.done + k) <= batch.offset + batch.count
      BY <1>1, <2>1, <2>3, <2>6, <3>1, SMTT(60)
    <3> QED  BY <1>1, <2>1, <3>2, Monotone
  <2>8. Len(wire') = batch.offset + (batch.done + k)
    BY <1>1, <2>1, <2>4
  <2>9. Len(wire') <= batch.offset + batch.count
    BY <1>1, <2>1, <2>7, <2>8
  <2>10. batch.offset + batch.count <= Len(packets)
    BY <1>11
  <2>11. Len(wire') <= Len(packets)
    BY <1>1, <2>1, <2>8, <2>9, <2>10
  <2> QED  BY <2>3, <2>7, <2>8, <2>9, <2>11
<1>15. Progress'
  BY <1>10, <1>11, <1>14 DEF Progress
<1>13. Budget'
  <2>1. pace.paced => Len(wire') + pace.window <= pace.sent + MaxPerMs
    <3> SUFFICES ASSUME pace.paced PROVE Len(wire') + pace.window <= pace.sent + MaxPerMs
      OBVIOUS
    <3>1. /\ batch.offset = pace.sent /\ pace.window + batch.count <= MaxPerMs
          /\ Len(wire') <= batch.offset + batch.count /\ Len(wire') \in Nat
      BY <1>5, <1>11, <1>14
    <3> QED  BY <1>0, <1>1, <3>1
  <2> QED  BY <1>3, <2>1 DEF SendInv, Budget
<1> QED  BY <1>7, <1>9, <1>13, <1>15 DEF SendInv

LEMMA SendSteps ==
  ASSUME SenderTypes, Len(packets) \in Nat, SendInv, Send
  PROVE  SenderTypes' /\ SendInv'
<1> USE StreamAssumption DEF payloader
<1>0. /\ pace.paced \in BOOLEAN /\ pace.start \in Nat /\ pace.sent \in Nat
      /\ pace.window \in 0..MaxPerMs /\ now \in Nat /\ nextStart \in Nat
  BY PaceFields DEF SenderTypes
<1>a. /\ batch.base \in Nat /\ batch.got \in Nat /\ batch.size \in Nat /\ batch.done \in Nat
      /\ batch.offset \in Nat /\ batch.count \in Nat /\ batch.retries \in 0..MaxRetries
  BY BatchFields DEF SenderTypes
<1>1. CASE BuildChunk
  <2> DEFINE size == Least(batch.count - batch.done, MaxBatch)
  <2>1. size \in Nat /\ batch.done + size <= batch.count
    BY <1>a, <1>1, SMTT(60) DEF BuildChunk, Least
  <2>2. /\ batch' = [offset |-> batch.offset, count |-> batch.count, done |-> batch.done,
                     base |-> batch.offset + batch.done, size |-> size, got |-> 0,
                     retries |-> 0]
        /\ at = "chunk" /\ at' = "send" /\ UNCHANGED <<packets, pace, now, nextStart, wire>>
    BY <1>1 DEF BuildChunk, Batch, SenderTypes
  <2> HIDE DEF size
  <2>3. batch' \in Batch
    BY <1>a, <2>1, <2>2 DEF Batch
  <2>4. SenderTypes'
    BY <2>2, <2>3 DEF SenderTypes
  <2>5. Progress'
    BY <1>a, <2>1, <2>2, SMTT(60) DEF SendInv, Progress
  <2>6. InOrder' /\ Budget'
    BY <2>2 DEF SendInv, InOrder, Budget
  <2> QED  BY <2>4, <2>5, <2>6 DEF SendInv
<1>2. CASE BatchSent
  <2>0. at = "chunk" /\ batch.done = batch.count
        /\ UNCHANGED <<packets, batch, now, nextStart, wire>>
    BY <1>2 DEF BatchSent
  <2>1. CASE pace.paced
    <3>1. /\ pace' = [paced |-> pace.paced, start |-> pace.start,
                      sent |-> pace.sent + batch.count, window |-> pace.window + batch.count]
          /\ at' = "pace"
      BY <1>2, <2>1 DEF BatchSent, Pace, SenderTypes
    <3>2. pace.window + batch.count <= MaxPerMs /\ Len(wire) = pace.sent + batch.count
      BY <2>0, <2>1 DEF SendInv, Progress
    <3>3. pace' \in Pace
      BY <1>0, <1>a, <3>1, <3>2 DEF Pace
    <3>4. SenderTypes'
      BY <2>0, <3>1, <3>3 DEF SenderTypes
    <3>5. Progress' /\ InOrder'
      BY <2>0, <2>1, <3>1, <3>2 DEF SendInv, Progress, InOrder
    <3>6. Budget'
      <4>1. pace.sent <= pace.window + Most(0, now - pace.start)
            /\ Most(0, now - pace.start) \in Int
        BY <1>0, <2>1 DEF SendInv, Budget, Most
      <4>2. pace'.sent <= pace'.window + Most(0, now' - pace'.start)
        BY <1>0, <1>a, <2>0, <3>1, <4>1
      <4>3. Len(wire') + pace'.window <= pace'.sent + MaxPerMs
        BY <1>0, <1>a, <2>0, <3>1, <3>2
      <4> QED  BY <4>2, <4>3 DEF Budget
    <3> QED  BY <3>4, <3>5, <3>6 DEF SendInv
  <2>2. CASE ~pace.paced
    <3>1. pace' = pace /\ at' = "idle"
      BY <1>2, <2>2 DEF BatchSent
    <3> QED  BY <2>0, <2>2, <3>1 DEF SenderTypes, SendInv, Progress, InOrder, Budget
  <2> QED  BY <2>1, <2>2
<1>3. ASSUME NEW k \in 1..MaxBatch, Accept(k)
      PROVE  SenderTypes' /\ SendInv'
  BY <1>3, AcceptStep
<1>b. PollTimeout \/ SendError =>
        /\ nextStart' \in Nat /\ UNCHANGED <<packets, pace, now, wire>>
        /\ InOrder' /\ Budget'
  <2>1. PollTimeout \/ SendError =>
          nextStart' \in Nat /\ UNCHANGED <<packets, pace, now, wire>>
    BY <1>0 DEF Fail, PollTimeout, SendError
  <2> QED  BY <2>1 DEF SendInv, InOrder, Budget
<1>4. CASE PollTimeout
  <2>1. /\ batch' = [offset |-> batch.offset, count |-> batch.count, done |-> batch.done,
                     base |-> batch.base, size |-> batch.size, got |-> batch.got,
                     retries |-> batch.retries + 1]
        /\ at = "send"
        /\ at' = IF batch.retries + 1 < MaxRetries THEN "send" ELSE "failed"
    BY <1>4 DEF PollTimeout, Fail, Batch, SenderTypes
  <2>2. batch.retries < MaxRetries
    BY <2>1 DEF SendInv, Progress
  <2>3. batch' \in Batch
    BY <1>a, <2>1, <2>2 DEF Batch
  <2>4. SenderTypes'
    BY <1>4, <1>b, <2>1, <2>3 DEF SenderTypes
  <2>5. Progress'
    BY <1>4, <1>b, <2>1 DEF SendInv, Progress
  <2> QED  BY <1>4, <1>b, <2>4, <2>5 DEF SendInv
<1>5. CASE SendError
  <2>1. at' = "failed" /\ batch' = batch
    BY <1>5 DEF SendError, Fail
  <2> QED  BY <1>5, <1>b, <2>1 DEF SenderTypes, SendInv, Progress
<1> QED  BY <1>1, <1>2, <1>3, <1>4, <1>5 DEF Send

LEMMA TickStep ==
  ASSUME SenderTypes, Len(packets) \in Nat, SendInv, Tick
  PROVE  SenderTypes' /\ SendInv'
BY SMTT(60) DEF SenderTypes, SendInv, Tick, payloader, Progress, InOrder, Budget, Most, Pace

\* The next packet of a group of four joins those saved, or opens a new group.
LEMMA EncodeAudioStep ==
  ASSUME IInv, EncodeAudio
  PROVE  IInv'
<1> USE DEF IInv, payloader, sender
<1>1. audioSeq \in Nat /\ audioSeq \in 0..SeqMod - 1
  BY PacketsAssumption DEF TypeOK
<1> DEFINE r == audioSeq % 4
<1>2. r \in 0..3
  BY <1>1
<1>3. /\ buffer' = [buffer EXCEPT ![r] = audioSeq]
      /\ buffer' \in [0..3 -> -1..SeqMod - 1]
  BY <1>1, <1>2, SMTT(60) DEF EncodeAudio, SavePacket, TypeOK
<1>4. audioSeq' \in 0..SeqMod - 1
  BY <1>1, PacketsAssumption, ModRange DEF EncodeAudio
<1>5. \A i \in 0..3 : i <= r => buffer'[i] = audioSeq - r + i
  <2> SUFFICES ASSUME NEW i \in 0..3, i <= r PROVE buffer'[i] = audioSeq - r + i
    OBVIOUS
  <2>1. buffer \in [0..3 -> -1..SeqMod - 1]
    BY DEF TypeOK
  <2>2. CASE i = r
    BY <2>1, <2>2, <1>1, <1>2, <1>3
  <2>3. CASE i # r
    <3>1. buffer'[i] = buffer[i] /\ i < r
      BY <2>1, <2>3, <1>2, <1>3
    <3>2. i < audioSeq % 4
      BY <3>1
    <3>3. buffer[i] = audioSeq - (audioSeq % 4) + i
      BY <3>2 DEF Saved
    <3> QED  BY <3>1, <3>3, Zenon
  <2> QED  BY <2>2, <2>3
<1>6. Saved'
  <2>1. CASE audioSeq + 1 = SeqMod
    <3>1. audioSeq' = 0
      BY <2>1, ModItself, PacketsAssumption DEF EncodeAudio
    <3> QED  BY <3>1 DEF Saved
  <2>2. CASE audioSeq + 1 # SeqMod
    <3>1. audioSeq' = audioSeq + 1
      BY <1>1, <2>2, PacketsAssumption, ModSmall DEF EncodeAudio
    <3>2. \/ r < 3 /\ (audioSeq + 1) % 4 = r + 1
          \/ r = 3 /\ (audioSeq + 1) % 4 = 0
      BY <1>1
    <3> HIDE DEF r
    <3>3. CASE r < 3
      <4>1. audioSeq' % 4 = r + 1
        BY <3>1, <3>2, <3>3
      <4>2. ASSUME NEW i \in 0..3, i < r + 1
            PROVE  buffer'[i] = (audioSeq + 1) - (r + 1) + i
        BY <4>2, <1>1, <1>2, <1>5
      <4>3. ASSUME NEW i \in 0..3, i < audioSeq' % 4
            PROVE  buffer'[i] = audioSeq' - (audioSeq' % 4) + i
        <5>1. i < r + 1
          BY <4>1, <4>3
        <5>2. buffer'[i] = (audioSeq + 1) - (r + 1) + i
          BY <4>2, <5>1
        <5> QED  BY <3>1, <4>1, <5>2, Zenon
      <4> QED  BY <4>3 DEF Saved
    <3>4. CASE r = 3
      BY <3>1, <3>2, <3>4, <1>1 DEF Saved
    <3> QED  BY <3>3, <3>4, <1>2
  <2> QED  BY <2>1, <2>2
<1>7. CASE TimeToFec(audioSeq)
  <2>1. r = 3 /\ audioSeq - 3 \in 0..SeqMod - 1
    <3>1. (audioSeq + 1) % 4 = 0
      BY <1>7 DEF TimeToFec
    <3>2. r = 3 /\ audioSeq >= 3
      BY <3>1, <1>1
    <3> QED  BY <3>2, <1>1, PacketsAssumption
  <2>2. (audioSeq - 3) % SeqMod = audioSeq - 3
    BY <2>1, PacketsAssumption, ModSmall
  <2>3. \A s \in 1..2 : (audioSeq + s - 1) % SeqMod \in 0..SeqMod - 1
    BY <1>1, PacketsAssumption, ModRange
  <2>4. audioFec' = [s \in 1..2 |-> [seq |-> (audioSeq + s - 1) % SeqMod,
                                     base |-> audioSeq - 3, of |-> buffer']]
    BY <1>7, <2>2 DEF EncodeAudio, AudioFec
  <2>5. audioFec' \in [1..2 -> [seq : 0..SeqMod - 1, base : 0..SeqMod - 1,
                                of : [0..3 -> -1..SeqMod - 1]]]
    BY <1>3, <2>1, <2>3, <2>4
  <2>6. TypeOK'
    BY <1>3, <1>4, <2>5 DEF EncodeAudio, TypeOK
  <2>7. AudioFecCovers'
    <3>1. Len(audioFec') = 2
      BY <2>4
    <3>2. \A k \in 1..2 : audioFec'[k].base = audioSeq - 3 /\ audioFec'[k].of = buffer'
      BY <2>4
    <3> QED  BY <3>1, <3>2, <1>5, <2>1 DEF AudioFecCovers
  <2> QED  BY <2>6, <2>7, <1>6 DEF EncodeAudio, SendInv, Progress, InOrder, Budget, SeqConsecutive
<1>8. CASE ~TimeToFec(audioSeq)
  <2>1. audioFec' = <<>>
    BY <1>8 DEF EncodeAudio, AudioFec
  <2>2. TypeOK'
    BY <1>3, <1>4, <2>1 DEF EncodeAudio, TypeOK
  <2> QED  BY <2>1, <2>2, <1>6
           DEF EncodeAudio, SendInv, Progress, InOrder, Budget, SeqConsecutive, AudioFecCovers
<1> QED  BY <1>7, <1>8

LEMMA NextIInv == IInv /\ [Next]_vars => IInv'
<1> SUFFICES ASSUME IInv, [Next]_vars PROVE IInv'
  OBVIOUS
<1>0. SenderTypes /\ Len(packets) \in Nat /\ SendInv
  BY TypeParts DEF IInv, VideoTypes
<1>1. ASSUME NEW size \in Sizes, EncodeFrame(size) PROVE IInv'
  BY <1>1, EncodeFrameStep
<1>2. CASE PaceStep
  <2>1. UNCHANGED <<payloader, pacing, audio>>
    BY <1>2 DEF PaceStep, PaceOver, Sleep, NextBatch
  <2> QED  BY <1>2, <1>0, <2>1, PaceSteps, FrameUntouched
<1>3. CASE Send
  <2>1. UNCHANGED <<payloader, pacing, audio>>
    BY <1>3 DEF Send, BuildChunk, BatchSent, Accept, PollTimeout, SendError, Fail
  <2> QED  BY <1>3, <1>0, <2>1, SendSteps, FrameUntouched
<1>4. CASE Tick
  <2>1. UNCHANGED <<payloader, pacing, audio>>
    BY <1>4 DEF Tick
  <2> QED  BY <1>4, <1>0, <2>1, TickStep, FrameUntouched
<1>5. CASE EncodeAudio
  BY <1>5, EncodeAudioStep
<1>6. CASE UNCHANGED vars
  BY <1>6 DEF vars, payloader, sender, audio, IInv, TypeOK, SendInv, Progress, InOrder,
              Budget, SeqConsecutive, Saved, AudioFecCovers
<1> QED  BY <1>1, <1>2, <1>3, <1>4, <1>5, <1>6 DEF Next

LEMMA Invariant == Spec => []IInv
BY InitIInv, NextIInv, PTL DEF Spec

\* The counters of payloader and sender stay within their types: the window
\* within a millisecond's budget, the retries within their limit.
THEOREM TypeCorrect == Spec => []TypeOK
BY Invariant, PTL DEF IInv

\* No gap in the sequence numbers is of the payloader's own making.
THEOREM SequenceCorrect == Spec => []SeqConsecutive
BY Invariant, PTL DEF IInv

\* The kernel gets the packets of a frame in order, each once.
THEOREM WireCorrect == Spec => []WireInOrder
<1>1. IInv => WireInOrder
  BY DEF IInv, SendInv, Progress, InOrder, WireInOrder
<1> QED  BY Invariant, <1>1, PTL

\* A paced frame is never more than a window ahead of the line's rate.
THEOREM PaceCorrect == Spec => []PacedRate
<1>1. IInv => PacedRate
  BY StreamAssumption, TypeParts DEF IInv, SenderTypes, SendInv, Budget, PacedRate, Pace, Most
<1> QED  BY Invariant, <1>1, PTL

\* The parity of audio packets is of the packets its header names.
THEOREM AudioCorrect == Spec => []AudioFecCovers
BY Invariant, PTL DEF IInv

-----------------------------------------------------------------------------
(* What a client that has every packet makes of the headers. *)

\* FrameReassembles of the packets ps of a frame whose last one holds len bytes.
Whole(ps, len) ==
  /\ \A b \in 0..ps[1].last : BlockComplete(ps, b)
  /\ \A i \in 1..Len(ps) :
       /\ ps[i].sof <=> i = 1
       /\ ps[i].eof => ps[i].bytes = len
  /\ \E i \in 1..Len(ps) : ps[i].eof

\* The packets off + 1 to off + d + (parity) are block b, and no others.
Consistent(ps, b, off, d, pct) ==
  /\ off + d + Ceil(d * pct, 100) <= Len(ps)
  /\ \A i \in 1..Len(ps) :
       ps[i].block = b <=> i \in off + 1..off + d + Ceil(d * pct, 100)
  /\ \A i \in off + 1..off + d + Ceil(d * pct, 100) :
       /\ ps[i].shard = i - off - 1 /\ ps[i].data = d /\ ps[i].pct = pct
       /\ ps[i].last = ps[1].last
       /\ ps[i].kind = "data" <=> i - off <= d

\* A block whose packets stand in order is complete.
LEMMA BlockWhole ==
  ASSUME NEW ps \in Seq(Packet), NEW b \in 0..2, NEW off \in Nat, NEW d \in Nat \ {0},
         NEW pct \in Nat, Consistent(ps, b, off, d, pct)
  PROVE  BlockComplete(ps, b)
<1> DEFINE par == Ceil(d * pct, 100)
<1>1. par \in Nat
  <2>1. d * pct \in Nat
    OBVIOUS
  <2> DEFINE x == d * pct
  <2> HIDE DEF x
  <2>2. x \in Nat
    BY <2>1 DEF x
  <2>3. (x + 100 - 1) \div 100 \in Nat
    BY <2>2
  <2> QED  BY <2>3 DEF Ceil, x
<1> HIDE DEF par
<1>2. /\ off + d + par <= Len(ps)
      /\ \A i \in 1..Len(ps) : ps[i].block = b <=> i \in off + 1..off + d + par
      /\ \A i \in off + 1..off + d + par :
           /\ ps[i].shard = i - off - 1 /\ ps[i].data = d /\ ps[i].pct = pct
           /\ ps[i].last = ps[1].last
           /\ ps[i].kind = "data" <=> i - off <= d
  BY DEF Consistent, par
<1>3. ShardsOf(ps, b) = off + 1..off + d + par
  BY <1>1, <1>2 DEF ShardsOf
<1> DEFINE p == ps[off + 1]
<1>4. off + 1 \in ShardsOf(ps, b) /\ p.data = d /\ p.pct = pct
  BY <1>1, <1>2, <1>3
<1>5. ClientParity(p) = par
  BY <1>4 DEF ClientParity, par
<1> HIDE DEF p
<1>6. p \in {ps[i] : i \in ShardsOf(ps, b)}
  BY <1>4 DEF p
<1>7. \A i \in ShardsOf(ps, b) : /\ ps[i].data = p.data
                                 /\ ps[i].pct = p.pct /\ ps[i].last = ps[1].last
                                 /\ ps[i].shard < p.data + ClientParity(p)
                                 /\ ps[i].kind = "data" <=> ps[i].shard < p.data
  BY <1>1, <1>2, <1>3, <1>4, <1>5
<1>8. \A s \in 0..p.data + ClientParity(p) - 1 :
        \E i \in ShardsOf(ps, b) :
          ps[i].shard = s /\ \A j \in ShardsOf(ps, b) : ps[j].shard = s => j = i
  <2> SUFFICES ASSUME NEW s \in 0..d + par - 1
               PROVE  \E i \in ShardsOf(ps, b) :
                        ps[i].shard = s /\ \A j \in ShardsOf(ps, b) : ps[j].shard = s => j = i
    BY <1>4, <1>5
  <2>1. off + s + 1 \in ShardsOf(ps, b)
    BY <1>1, <1>3
  <2>2. \A j \in ShardsOf(ps, b) : ps[j].shard = s <=> j = off + s + 1
    BY <1>1, <1>2, <1>3
  <2> QED  BY <2>1, <2>2
<1> QED  BY <1>6, <1>7, <1>8 DEF BlockComplete

\* The last packet of a frame holds what the packets before it did not.
LEMMA LastBytes ==
  ASSUME NEW full \in Nat \ {0}, NEW per \in Nat \ {0}
  PROVE  LET rest == full - (Ceil(full, per) - 1) * per
         IN  /\ rest = IF full % per = 0 THEN per ELSE full % per
             /\ rest <= per
<1> DEFINE q == full \div per
           r == full % per
<1>1. q \in Nat /\ r \in 0..per - 1 /\ full = q * per + r
  OBVIOUS
<1>2. Ceil(full, per) = IF r = 0 THEN q ELSE q + 1
  <2>1. CASE r = 0
    <3>1. (full + per - 1) \div per = q
      BY <1>1, <2>1
    <3> QED  BY <2>1, <3>1 DEF Ceil
  <2>2. CASE r # 0
    <3>1. (full + per - 1) \div per = q + 1
      BY <1>1, <2>2
    <3> QED  BY <2>2, <3>1 DEF Ceil
  <2> QED  BY <2>1, <2>2
<1> QED  BY <1>1, <1>2

\* ... which is what the header of the frame says.
LEMMA LastPacket ==
  ASSUME NEW size \in Nat
  PROVE  /\ TotPackets(size) \in Nat \ {0}
         /\ Least(FullSize(size) - (TotPackets(size) - 1) * PacketBytes, PacketBytes)
              = LastPayloadLen(size)
<1> DEFINE full == FullSize(size)
           per == PacketBytes
           tot == TotPackets(size)
<1>1. full \in Nat \ {0}
  BY DEF FullSize
<1>2. per \in Nat \ {0} /\ per = PayloadSize - NvVideoPacketSize
  BY PacketsAssumption DEF PacketBytes
<1>3. tot \in Nat \ {0} /\ tot = Ceil(full, per)
  BY <1>1, <1>2, CeilPositive DEF TotPackets
<1>4. LET rest == full - (Ceil(full, per) - 1) * per
      IN  /\ rest = IF full % per = 0 THEN per ELSE full % per
          /\ rest <= per
  BY <1>1, <1>2, LastBytes
<1> DEFINE rest == full - (tot - 1) * per
<1>5. rest = (IF full % per = 0 THEN per ELSE full % per) /\ rest <= per
  BY <1>3, <1>4
<1>6. LastPayloadLen(size) = IF full % per = 0 THEN per ELSE full % per
  BY <1>2 DEF LastPayloadLen
<1> HIDE DEF rest
<1>7. Least(rest, per) = rest
  BY <1>5 DEF Least
<1> QED  BY <1>3, <1>5, <1>6, <1>7 DEF rest

\* Packets whose block is too large for FEC are those of generate_rtp_packets,
\* numbered through the frame.
Raw(ps, size, start) ==
  /\ Len(ps) = TotPackets(size)
  /\ \A i \in 1..Len(ps) : ps[i] = RtpPacket(size, start, i - 1)

\* A frame without FEC is one block, of data alone.
LEMMA RawWhole ==
  ASSUME NEW size \in Nat, NEW start \in Nat, NEW ps \in Seq(Packet), Raw(ps, size, start)
  PROVE  Whole(ps, LastPayloadLen(size))
<1> DEFINE tot == TotPackets(size)
<1>1. tot \in Nat \ {0}
  BY LastPacket
<1>2. Least(FullSize(size) - (tot - 1) * PacketBytes, PacketBytes) = LastPayloadLen(size)
  BY LastPacket
<1> HIDE DEF tot
<1>3. Len(ps) = tot /\ \A i \in 1..tot : ps[i] = RtpPacket(size, start, i - 1)
  BY DEF Raw, tot
<1>4. \A i \in 1..tot :
        /\ ps[i].kind = "data" /\ ps[i].block = 0 /\ ps[i].last = 0
        /\ ps[i].shard = i - 1 /\ ps[i].data = tot /\ ps[i].pct = 0
        /\ ps[i].sof <=> i - 1 = 0
        /\ ps[i].eof <=> i - 1 = tot - 1
        /\ ps[i].bytes = Least(FullSize(size) - (i - 1) * PacketBytes, PacketBytes)
  <2> TAKE i \in 1..tot
  <2>1. ps[i] = [kind |-> "data", seq |-> (start + (i - 1)) % SeqMod,
                 block |-> 0, last |-> 0, shard |-> i - 1, data |-> tot, pct |-> 0,
                 sof |-> i - 1 = 0, eof |-> i - 1 = tot - 1,
                 bytes |-> Least(FullSize(size) - (i - 1) * PacketBytes, PacketBytes)]
    BY <1>3 DEF RtpPacket, tot
  <2>2. ps[i].sof = (i - 1 = 0) /\ ps[i].eof = (i - 1 = tot - 1)
    BY <2>1, SMT
  <2>3. (ps[i].sof <=> i - 1 = 0) /\ (ps[i].eof <=> i - 1 = tot - 1)
    BY <2>2, Zenon
  <2>4. /\ ps[i].kind = "data" /\ ps[i].block = 0 /\ ps[i].last = 0
        /\ ps[i].shard = i - 1 /\ ps[i].data = tot /\ ps[i].pct = 0
        /\ ps[i].bytes = Least(FullSize(size) - (i - 1) * PacketBytes, PacketBytes)
    BY <2>1
  <2> QED  BY <2>3, <2>4, Zenon
<1>5. Ceil(tot * 0, 100) = 0 /\ 0 + tot + 0 = tot /\ 0 + 1 = 1
  <2>1. tot * 0 = 0
    BY <1>1
  <2>2. Ceil(0, 100) = 0
    BY DEF Ceil
  <2> QED  BY <1>1, <2>1, <2>2
<1>6. Consistent(ps, 0, 0, tot, 0)
  <2>1. 0 + tot + Ceil(tot * 0, 100) = tot
    BY <1>5
  <2>2. \A i \in 1..tot : i - 0 - 1 = i - 1 /\ i - 0 <= tot
    BY <1>1
  <2>3. tot <= Len(ps) /\ ps[1].last = 0
    BY <1>1, <1>3, <1>4
  <2>4. \A i \in 1..Len(ps) : ps[i].block = 0 <=> i \in 1..tot
    BY <1>3, <1>4
  <2>5. \A i \in 1..tot : /\ ps[i].shard = i - 0 - 1 /\ ps[i].data = tot
                          /\ ps[i].pct = 0 /\ ps[i].last = ps[1].last
                          /\ ps[i].kind = "data" <=> i - 0 <= tot
    BY <1>4, <2>2, <2>3
  <2> QED  BY <1>5, <2>1, <2>3, <2>4, <2>5, Zenon DEF Consistent
<1>7. BlockComplete(ps, 0) /\ ps[1].last = 0
  <2>1. 0 \in Nat /\ 0 \in 0..2
    OBVIOUS
  <2>2. BlockComplete(ps, 0)
    BY <1>1, <1>6, <2>1, BlockWhole
  <2>3. ps[1].last = 0
    BY <1>1, <1>4
  <2> QED  BY <2>2, <2>3
<1>8. \A b \in 0..ps[1].last : BlockComplete(ps, b)
  BY <1>7
<1>9. \A i \in 1..Len(ps) :
         /\ ps[i].sof <=> i = 1
         /\ ps[i].eof => ps[i].bytes = LastPayloadLen(size)
  <2> SUFFICES ASSUME NEW i \in 1..tot
               PROVE  /\ ps[i].sof <=> i = 1
                      /\ ps[i].eof => ps[i].bytes = LastPayloadLen(size)
    BY <1>3
  <2>1. (ps[i].sof <=> i - 1 = 0) /\ (i - 1 = 0 <=> i = 1)
    BY <1>4, <1>1
  <2>2. CASE ps[i].eof
    <3>1. i = tot
      BY <1>1, <1>4, <2>2
    <3> QED  BY <1>2, <1>4, <2>1, <3>1, Zenon
  <2> QED  BY <2>1, <2>2
<1>10. \E i \in 1..Len(ps) : ps[i].eof
  BY <1>1, <1>3, <1>4
<1> QED  BY <1>8, <1>9, <1>10 DEF Whole

\* The packets of ps from off + 1 on are block b of a frame, with d data packets
\* that begin after the first from of the frame.
Fec(ps, off, size, from, d, b, last) ==
  \A i \in 1..d + Parity(d) :
    /\ ps[off + i].block = b /\ ps[off + i].last = last
    /\ ps[off + i].shard = i - 1
    /\ ps[off + i].data = d /\ ps[off + i].pct = Percentage(d)
    /\ ps[off + i].kind = "data" <=> i <= d
    /\ ps[off + i].sof <=> i <= d /\ from + i = 1
    /\ ps[off + i].eof <=> i <= d /\ from + i = TotPackets(size)
    /\ i <= d => ps[off + i].bytes
                   = Least(FullSize(size) - (from + i - 1) * PacketBytes, PacketBytes)

\* What generate_fec_packets writes into the headers of a block.
LEMMA WithFecBlock ==
  ASSUME NEW size \in Nat, NEW start \in Nat, NEW base \in Nat, NEW from \in Nat,
         NEW d \in Nat \ {0}, NEW b \in 0..2, NEW last \in {0, 2}, ~TooLarge(d)
  PROVE  Fec(WithFec(size, start, base, from, d, b, last), 0, size, from, d, b, last)
<1> DEFINE ps == WithFec(size, start, base, from, d, b, last)
           n == d + Parity(d)
<1>1. Parity(d) \in Nat /\ n \in Nat
  BY ParityAgrees
<1> SUFFICES ASSUME NEW i \in 1..n
             PROVE  /\ ps[0 + i].block = b /\ ps[0 + i].last = last
                    /\ ps[0 + i].shard = i - 1
                    /\ ps[0 + i].data = d /\ ps[0 + i].pct = Percentage(d)
                    /\ ps[0 + i].kind = "data" <=> i <= d
                    /\ ps[0 + i].sof <=> i <= d /\ from + i = 1
                    /\ ps[0 + i].eof <=> i <= d /\ from + i = TotPackets(size)
                    /\ i <= d => ps[0 + i].bytes
                         = Least(FullSize(size) - (from + i - 1) * PacketBytes, PacketBytes)
  BY DEF Fec
<1>2. 0 + i = i
  BY <1>1
<1> DEFINE q == [kind |-> IF i <= d THEN "data" ELSE "parity",
                 seq |-> (base + i - 1) % SeqMod,
                 block |-> b, last |-> last,
                 shard |-> i - 1, data |-> d, pct |-> Percentage(d),
                 sof |-> i <= d /\ from + i = 1,
                 eof |-> i <= d /\ from + i = TotPackets(size),
                 bytes |-> IF i <= d
                           THEN Least(FullSize(size) - (from + i - 1) * PacketBytes, PacketBytes)
                           ELSE PacketBytes]
<1>3. ps[i] = q
  BY DEF WithFec
<1>4. /\ q.block = b /\ q.last = last /\ q.shard = i - 1 /\ q.data = d
      /\ q.pct = Percentage(d)
  OBVIOUS
<1>5. /\ q.kind = "data" <=> i <= d
      /\ i <= d => q.bytes = Least(FullSize(size) - (from + i - 1) * PacketBytes, PacketBytes)
  OBVIOUS
<1>6. /\ q.sof = (i <= d /\ from + i = 1)
      /\ q.eof = (i <= d /\ from + i = TotPackets(size))
  BY SMT
<1> HIDE DEF ps, q
<1> QED  BY <1>2, <1>3, <1>4, <1>5, <1>6, Zenon

\* ... the whole of that block is there, and nothing else says it is of it.
HasBlock(ps, off, size, from, d, b, last) ==
  /\ Fec(ps, off, size, from, d, b, last)
  /\ ps[1].last = last
  /\ off + (d + Parity(d)) <= Len(ps)
  /\ \A i \in 1..Len(ps) : ps[i].block = b => i \in off + 1..off + (d + Parity(d))

LEMMA ParityNat ==
  ASSUME NEW d \in Nat \ {0}
  PROVE  Parity(d) \in Nat
BY ParityAgrees

LEMMA FecConsistent ==
  ASSUME NEW ps \in Seq(Packet), NEW off \in Nat, NEW size, NEW from, NEW d \in Nat \ {0},
         NEW b \in 0..2, NEW last, HasBlock(ps, off, size, from, d, b, last)
  PROVE  BlockComplete(ps, b)
<1>1. /\ Parity(d) \in Nat /\ Percentage(d) \in Nat
      /\ Ceil(d * Percentage(d), 100) = Parity(d)
  BY ParityAgrees
<1>2. ASSUME NEW i \in off + 1..off + d + Parity(d)
      PROVE  /\ ps[i].block = b /\ ps[i].last = last
             /\ ps[i].shard = i - off - 1 /\ ps[i].data = d /\ ps[i].pct = Percentage(d)
             /\ ps[i].kind = "data" <=> i - off <= d
  <2>1. i - off \in 1..d + Parity(d) /\ off + (i - off) = i
    BY <1>1
  <2> QED  BY <2>1 DEF HasBlock, Fec
<1>3. /\ ps[1].last = last
      /\ off + d + Parity(d) <= Len(ps)
      /\ \A i \in 1..Len(ps) : ps[i].block = b => i \in off + 1..off + d + Parity(d)
  <2>1. off + (d + Parity(d)) = off + d + Parity(d)
    BY <1>1
  <2> QED  BY <2>1 DEF HasBlock
<1>4. Consistent(ps, b, off, d, Percentage(d))
  BY <1>1, <1>2, <1>3 DEF Consistent
<1> QED  BY <1>1, <1>4, BlockWhole

\* A frame of one block.
LEMMA OneBlockWhole ==
  ASSUME NEW ps \in Seq(Packet), NEW size \in Nat,
         Len(ps) = TotPackets(size) + Parity(TotPackets(size)),
         Fec(ps, 0, size, 0, TotPackets(size), 0, 0)
  PROVE  Whole(ps, LastPayloadLen(size))
<1> DEFINE tot == TotPackets(size)
<1>1. tot \in Nat \ {0} /\ Parity(tot) \in Nat
  BY LastPacket, ParityAgrees
<1>2. Least(FullSize(size) - (tot - 1) * PacketBytes, PacketBytes) = LastPayloadLen(size)
  BY LastPacket
<1> HIDE DEF tot
<1>3. Len(ps) = tot + Parity(tot) /\ Fec(ps, 0, size, 0, tot, 0, 0) /\ tot = TotPackets(size)
  BY DEF tot
<1>4. ASSUME NEW i \in 1..Len(ps)
      PROVE  /\ ps[i].block = 0 /\ ps[i].last = 0
             /\ ps[i].sof <=> i <= tot /\ i = 1
             /\ ps[i].eof <=> i <= tot /\ i = tot
             /\ i <= tot => ps[i].bytes
                  = Least(FullSize(size) - (i - 1) * PacketBytes, PacketBytes)
  <2>1. i \in 1..tot + Parity(tot) /\ 0 + i = i /\ 0 + i - 1 = i - 1
    BY <1>3
  <2> QED  BY <1>3, <2>1 DEF Fec
<1>5. BlockComplete(ps, 0) /\ ps[1].last = 0
  <2>1. 1 \in 1..Len(ps)
    BY <1>1, <1>3
  <2>2. ps[1].last = 0
    BY <1>4, <2>1
  <2>3. 0 + (tot + Parity(tot)) <= Len(ps)
    BY <1>1, <1>3
  <2>4. \A i \in 1..Len(ps) : ps[i].block = 0 => i \in 0 + 1..0 + (tot + Parity(tot))
    BY <1>1, <1>3
  <2>5. HasBlock(ps, 0, size, 0, tot, 0, 0)
    BY <1>3, <2>2, <2>3, <2>4 DEF HasBlock
  <2>6. 0 \in Nat /\ 0 \in 0..2
    OBVIOUS
  <2> QED  BY <1>1, <2>2, <2>5, <2>6, FecConsistent
<1>6. \A b \in 0..ps[1].last : BlockComplete(ps, b)
  BY <1>5
<1>7. ASSUME NEW i \in 1..Len(ps)
      PROVE  /\ ps[i].sof <=> i = 1
             /\ ps[i].eof => ps[i].bytes = LastPayloadLen(size)
  <2>1. ps[i].sof <=> i = 1
    BY <1>1, <1>4
  <2>2. CASE ps[i].eof
    <3>1. i = tot /\ i <= tot
      BY <1>1, <1>4, <2>2
    <3>2. ps[i].bytes = Least(FullSize(size) - (i - 1) * PacketBytes, PacketBytes)
      BY <1>4, <3>1, Zenon
    <3> QED  BY <1>2, <2>1, <3>1, <3>2, Zenon
  <2> QED  BY <2>1, <2>2
<1>8. \E i \in 1..Len(ps) : ps[i].eof
  <2>1. tot \in 1..Len(ps) /\ tot <= tot
    BY <1>1, <1>3
  <2> QED  BY <1>4, <2>1
<1> QED  BY <1>6, <1>7, <1>8 DEF Whole

\* ps is three blocks of d0, d1 and d2 data packets, each with its parity.
ThreeBlocks(ps, size, d0, d1, d2) ==
  /\ Len(ps) = (d0 + Parity(d0)) + (d1 + Parity(d1)) + (d2 + Parity(d2))
  /\ Fec(ps, 0, size, 0, d0, 0, 2)
  /\ Fec(ps, d0 + Parity(d0), size, d0, d1, 1, 2)
  /\ Fec(ps, (d0 + Parity(d0)) + (d1 + Parity(d1)), size, d0 + d1, d2, 2, 2)

\* A frame of three.
LEMMA ThreeBlocksWhole ==
  ASSUME NEW ps \in Seq(Packet), NEW size \in Nat,
         NEW d0 \in Nat \ {0}, NEW d1 \in Nat \ {0}, NEW d2 \in Nat \ {0},
         TotPackets(size) = d0 + d1 + d2, ThreeBlocks(ps, size, d0, d1, d2)
  PROVE  Whole(ps, LastPayloadLen(size))
<1> DEFINE tot == TotPackets(size)
           Bytes(nr) == Least(FullSize(size) - nr * PacketBytes, PacketBytes)
<1>0. Parity(d0) \in Nat /\ Parity(d1) \in Nat /\ Parity(d2) \in Nat
  BY ParityNat
<1>1. PICK n0 \in Nat, n1 \in Nat, n2 \in Nat :
        n0 = d0 + Parity(d0) /\ n1 = d1 + Parity(d1) /\ n2 = d2 + Parity(d2)
  <2>1. ASSUME NEW d \in Nat \ {0}, Parity(d) \in Nat PROVE d + Parity(d) \in Nat
    BY <2>1
  <2> QED  BY <1>0, <2>1
<1>2. Bytes(tot - 1) = LastPayloadLen(size)
  BY LastPacket
<1>3. tot \in Nat \ {0} /\ tot = d0 + d1 + d2
  OBVIOUS
<1>4. /\ Len(ps) = n0 + n1 + n2
      /\ Fec(ps, 0, size, 0, d0, 0, 2) /\ Fec(ps, n0, size, d0, d1, 1, 2)
      /\ Fec(ps, n0 + n1, size, d0 + d1, d2, 2, 2)
  BY <1>1 DEF ThreeBlocks
<1>9. d0 <= n0 /\ d1 <= n1 /\ d2 <= n2
  <2>1. ASSUME NEW d \in Nat \ {0}, NEW p \in Nat PROVE d <= d + p
    OBVIOUS
  <2> QED  BY <1>0, <1>1, <2>1
<1> HIDE DEF Bytes
<1>5. ASSUME NEW i \in 1..n0
      PROVE  /\ ps[i].block = 0 /\ ps[i].last = 2
             /\ ps[i].sof <=> i = 1
             /\ ~ps[i].eof
  <2>1. 0 + i = i /\ i \in 1..d0 + Parity(d0)
    BY <1>1
  <2>2. /\ ps[i].block = 0 /\ ps[i].last = 2
        /\ ps[i].sof <=> i <= d0 /\ 0 + i = 1
        /\ ps[i].eof <=> i <= d0 /\ 0 + i = tot
    BY <1>4, <2>1 DEF Fec
  <2> QED  BY <1>3, <2>2
<1>6. ASSUME NEW i \in n0 + 1..n0 + n1
      PROVE  /\ ps[i].block = 1 /\ ps[i].last = 2
             /\ ~ps[i].sof /\ ~ps[i].eof
  <2> DEFINE j == i - n0
  <2>0. i \in Int /\ n0 + 1 <= i /\ i <= n0 + n1
    BY <1>6
  <2>1. n0 + j = i /\ j \in 1..n1
    BY <2>0
  <2>2. j \in 1..d1 + Parity(d1)
    BY <1>1, <2>1
  <2> HIDE DEF j
  <2>3. /\ ps[i].block = 1 /\ ps[i].last = 2
        /\ ps[i].sof <=> j <= d1 /\ d0 + j = 1
        /\ ps[i].eof <=> j <= d1 /\ d0 + j = tot
    BY <1>4, <2>2, <2>1 DEF Fec
  <2>4. ~(d0 + j = 1)
    BY <2>1
  <2>5. ~(j <= d1 /\ d0 + j = tot)
    BY <1>3, <2>1
  <2> QED  BY <2>3, <2>4, <2>5
<1>7. ASSUME NEW i \in n0 + n1 + 1..n0 + n1 + n2
      PROVE  /\ ps[i].block = 2 /\ ps[i].last = 2
             /\ ~ps[i].sof
             /\ ps[i].eof <=> i = n0 + n1 + d2
             /\ ps[i].eof => ps[i].bytes = Bytes(tot - 1)
  <2> DEFINE j == i - (n0 + n1)
  <2>1. i \in Int /\ n0 + n1 + 1 <= i /\ i <= n0 + n1 + n2
    BY <1>7
  <2>2. (n0 + n1) + j = i /\ j \in 1..n2
    BY <2>1
  <2>3. j \in 1..d2 + Parity(d2)
    BY <1>1, <2>2
  <2> HIDE DEF j
  <2>4. /\ ps[i].block = 2 /\ ps[i].last = 2
        /\ ps[i].sof <=> j <= d2 /\ (d0 + d1) + j = 1
        /\ ps[i].eof <=> j <= d2 /\ (d0 + d1) + j = tot
        /\ j <= d2 => ps[i].bytes = Bytes((d0 + d1) + j - 1)
    BY <1>4, <2>3, <2>2 DEF Fec, Bytes
  <2>5. ~((d0 + d1) + j = 1)
    BY <2>2
  <2>6. (j <= d2 /\ (d0 + d1) + j = tot) <=> j = d2
    BY <1>3, <2>2
  <2>7. j = d2 <=> i = n0 + n1 + d2
    BY <2>2
  <2>8. j = d2 => j <= d2 /\ (d0 + d1) + j - 1 = tot - 1
    BY <1>3, <2>2
  <2>9. /\ ~ps[i].sof
        /\ ps[i].eof <=> i = n0 + n1 + d2
        /\ ps[i].eof => j <= d2 /\ (d0 + d1) + j - 1 = tot - 1
    BY <2>4, <2>5, <2>6, <2>7, <2>8, Zenon
  <2> QED  BY <2>4, <2>9
<1> HIDE DEF tot
<1>8. \A i \in 1..Len(ps) : \/ i \in 1..n0 \/ i \in n0 + 1..n0 + n1
                            \/ i \in n0 + n1 + 1..n0 + n1 + n2
  BY <1>4
<1>10. ps[1].last = 2
  <2>1. 1 \in 1..n0
    BY <1>9
  <2> QED  BY <1>5, <2>1
<1>11. BlockComplete(ps, 0)
  <2>1. 0 + n0 <= Len(ps)
    BY <1>4
  <2>2. \A i \in 1..Len(ps) : ps[i].block = 0 => i \in 0 + 1..0 + n0
    BY <1>6, <1>7, <1>8
  <2>3. HasBlock(ps, 0, size, 0, d0, 0, 2)
    BY <1>1, <1>4, <1>10, <2>1, <2>2 DEF HasBlock
  <2>4. 0 \in Nat /\ 0 \in 0..2
    OBVIOUS
  <2> QED  BY <2>3, <2>4, FecConsistent
<1>12. BlockComplete(ps, 1)
  <2>1. n0 + n1 <= Len(ps)
    BY <1>4
  <2>2. \A i \in 1..Len(ps) : ps[i].block = 1 => i \in n0 + 1..n0 + n1
    BY <1>5, <1>7, <1>8
  <2>3. HasBlock(ps, n0, size, d0, d1, 1, 2)
    BY <1>1, <1>4, <1>10, <2>1, <2>2 DEF HasBlock
  <2>4. 1 \in 0..2
    OBVIOUS
  <2> QED  BY <2>3, <2>4, FecConsistent
<1>13. BlockComplete(ps, 2)
  <2>0. PICK off \in Nat : off = n0 + n1
    OBVIOUS
  <2>1. off + n2 <= Len(ps)
    BY <1>4, <2>0
  <2>2. \A i \in 1..Len(ps) : ps[i].block = 2 => i \in off + 1..off + n2
    BY <1>5, <1>6, <1>8, <2>0
  <2>3. HasBlock(ps, off, size, d0 + d1, d2, 2, 2)
    BY <1>1, <1>4, <1>10, <2>0, <2>1, <2>2 DEF HasBlock
  <2>4. 2 \in 0..2
    OBVIOUS
  <2> QED  BY <2>3, <2>4, FecConsistent
<1>14. \A b \in 0..ps[1].last : BlockComplete(ps, b)
  <2>1. \A b \in 0..2 : b = 0 \/ b = 1 \/ b = 2
    OBVIOUS
  <2> QED  BY <1>10, <1>11, <1>12, <1>13, <2>1
<1>15. ASSUME NEW i \in 1..Len(ps)
       PROVE  /\ ps[i].sof <=> i = 1
              /\ ps[i].eof => ps[i].bytes = LastPayloadLen(size)
  <2>1. CASE i \in 1..n0
    BY <1>5, <2>1
  <2>2. CASE i \in n0 + 1..n0 + n1
    <3>1. i # 1
      BY <1>9, <2>2
    <3> QED  BY <1>6, <2>2, <3>1
  <2>3. CASE i \in n0 + n1 + 1..n0 + n1 + n2
    <3>1. i # 1
      BY <1>9, <2>3
    <3> QED  BY <1>2, <1>7, <2>3, <3>1
  <2> QED  BY <1>8, <2>1, <2>2, <2>3
<1>16. \E i \in 1..Len(ps) : ps[i].eof
  <2> DEFINE e == n0 + n1 + d2
  <2>1. e \in n0 + n1 + 1..n0 + n1 + n2 /\ e \in 1..Len(ps)
    BY <1>9, <1>4
  <2>2. ps[e].eof
    BY <1>7, <2>1
  <2> QED  BY <2>1, <2>2
<1> QED  BY <1>14, <1>15, <1>16 DEF Whole

\* Where the packets of three blocks are in the frame.
LEMMA Join3 ==
  ASSUME NEW S, NEW p0 \in Seq(S), NEW p1 \in Seq(S), NEW p2 \in Seq(S)
  PROVE  LET ps == p0 \o p1 \o p2
         IN  /\ Len(ps) = Len(p0) + Len(p1) + Len(p2)
             /\ \A i \in 1..Len(p0) : ps[i] = p0[i]
             /\ \A i \in 1..Len(p1) : ps[Len(p0) + i] = p1[i]
             /\ \A i \in 1..Len(p2) : ps[Len(p0) + Len(p1) + i] = p2[i]
<1> DEFINE q == p0 \o p1
<1>1. /\ q \in Seq(S) /\ Len(q) = Len(p0) + Len(p1)
      /\ \A i \in 1..Len(p0) : q[i] = p0[i]
      /\ \A i \in 1..Len(p1) : q[Len(p0) + i] = p1[i]
  <2>1. q \in Seq(S) /\ Len(q) = Len(p0) + Len(p1)
    OBVIOUS
  <2>2. \A i \in 1..Len(p0) : q[i] = p0[i]
    OBVIOUS
  <2>3. ASSUME NEW i \in 1..Len(p1) PROVE q[Len(p0) + i] = p1[i]
    OBVIOUS
  <2> QED  BY <2>1, <2>2, <2>3
<1> HIDE DEF q
<1> DEFINE ps == q \o p2
<1>2. q \in Seq(S)
  BY <1>1
<1>3. /\ Len(ps) = Len(q) + Len(p2)
      /\ \A i \in 1..Len(q) : ps[i] = q[i]
      /\ \A i \in 1..Len(p2) : ps[Len(q) + i] = p2[i]
  <2>1. Len(ps) = Len(q) + Len(p2)
    BY <1>2
  <2>2. \A i \in 1..Len(q) : ps[i] = q[i]
    BY <1>2
  <2>3. ASSUME NEW i \in 1..Len(p2) PROVE ps[Len(q) + i] = p2[i]
    BY <1>2
  <2> QED  BY <2>1, <2>2, <2>3
<1> HIDE DEF ps
<1>4. \A i \in 1..Len(p0) : ps[i] = p0[i]
  BY <1>1, <1>3
<1>5. \A i \in 1..Len(p1) : ps[Len(p0) + i] = p1[i]
  BY <1>1, <1>3
<1>6. Len(ps) = Len(p0) + Len(p1) + Len(p2)
      /\ \A i \in 1..Len(p2) : ps[Len(p0) + Len(p1) + i] = p2[i]
  BY <1>1, <1>3
<1>7. ps = p0 \o p1 \o p2
  BY DEF ps, q
<1> QED  BY <1>4, <1>5, <1>6, <1>7

\* The data packets of three blocks are as many as the blocks say.
Thrice(d0, n0, d1, n1, d2) ==
  (1..d0) \cup (n0 + 1..n0 + d1) \cup (n0 + n1 + 1..n0 + n1 + d2)

LEMMA CountOfThree ==
  ASSUME NEW d0 \in Nat, NEW d1 \in Nat, NEW d2 \in Nat, NEW n0 \in Nat, NEW n1 \in Nat,
         d0 <= n0, d1 <= n1
  PROVE  Cardinality(Thrice(d0, n0, d1, n1, d2)) = d0 + d1 + d2
<1> DEFINE A == 1..d0
           B == n0 + 1..n0 + d1
           C == n0 + n1 + 1..n0 + n1 + d2
<1>1. ASSUME NEW a \in Nat, NEW d \in Nat
      PROVE  IsFiniteSet(a + 1..a + d) /\ Cardinality(a + 1..a + d) = d
  <2>1. a + 1 \in Int /\ a + d \in Int
    OBVIOUS
  <2>2. /\ IsFiniteSet(a + 1..a + d)
        /\ Cardinality(a + 1..a + d) = IF a + 1 > a + d THEN 0 ELSE (a + d) - (a + 1) + 1
    BY <2>1, FS_Interval
  <2> QED  BY <2>2
<1>2. IsFiniteSet(A) /\ Cardinality(A) = d0
  <2>1. 0 + 1 = 1 /\ 0 + d0 = d0
    OBVIOUS
  <2> QED  BY <1>1, <2>1
<1>3. IsFiniteSet(B) /\ Cardinality(B) = d1
  BY <1>1
<1>4. IsFiniteSet(C) /\ Cardinality(C) = d2
  <2>1. n0 + n1 \in Nat
    OBVIOUS
  <2> QED  BY <1>1, <2>1
<1>5. A \cap B = {} /\ (A \cup B) \cap C = {}
  OBVIOUS
<1> HIDE DEF A, B, C
<1>6. IsFiniteSet(A \cup B) /\ Cardinality(A \cup B) = d0 + d1
  BY <1>2, <1>3, <1>5, FS_Union, FS_EmptySet
<1>7. Cardinality((A \cup B) \cup C) = (d0 + d1) + d2
  <2>1. Cardinality((A \cup B) \cup C)
          = Cardinality(A \cup B) + Cardinality(C) - Cardinality((A \cup B) \cap C)
    BY <1>4, <1>6, FS_Union
  <2>2. Cardinality((A \cup B) \cap C) = 0
    BY <1>5, FS_EmptySet
  <2> QED  BY <1>4, <1>6, <2>1, <2>2
<1> QED  BY <1>7 DEF A, B, C, Thrice

DataOf(ps) == {i \in 1..Len(ps) : ps[i].kind = "data"}

\* The data packets of p are the first d.
Leads(p, d) == d <= Len(p) /\ \A i \in 1..Len(p) : p[i].kind = "data" <=> i <= d

\* The frame has the data packets of its blocks.
LEMMA CountOfJoin ==
  ASSUME NEW p0 \in Seq(Packet), NEW p1 \in Seq(Packet), NEW p2 \in Seq(Packet),
         NEW d0 \in Nat, NEW d1 \in Nat, NEW d2 \in Nat,
         Leads(p0, d0), Leads(p1, d1), Leads(p2, d2)
  PROVE  Cardinality(DataOf(p0 \o p1 \o p2)) = d0 + d1 + d2
<1> DEFINE ps == p0 \o p1 \o p2
<1>1. PICK n0 \in Nat, n1 \in Nat, n2 \in Nat :
        n0 = Len(p0) /\ n1 = Len(p1) /\ n2 = Len(p2)
  OBVIOUS
<1>2. /\ Len(ps) = n0 + n1 + n2
      /\ \A i \in 1..n0 : ps[i] = p0[i]
      /\ \A i \in 1..n1 : ps[n0 + i] = p1[i]
      /\ \A i \in 1..n2 : ps[n0 + n1 + i] = p2[i]
  BY <1>1, Join3
<1> HIDE DEF ps
<1>3. \A i \in 1..n0 : ps[i].kind = "data" <=> i \in 1..d0
  BY <1>1, <1>2 DEF Leads
<1>4. ASSUME NEW i \in n0 + 1..n0 + n1
      PROVE  ps[i].kind = "data" <=> i \in n0 + 1..n0 + d1
  <2>1. PICK j \in 1..n1 : n0 + j = i
    <3>1. i - n0 \in 1..n1 /\ n0 + (i - n0) = i
      OBVIOUS
    <3> QED  BY <3>1
  <2>2. ps[i].kind = "data" <=> j <= d1
    BY <1>1, <1>2, <2>1 DEF Leads
  <2> QED  BY <2>1, <2>2
<1>5. ASSUME NEW i \in n0 + n1 + 1..n0 + n1 + n2
      PROVE  ps[i].kind = "data" <=> i \in n0 + n1 + 1..n0 + n1 + d2
  <2>1. PICK j \in 1..n2 : n0 + n1 + j = i
    <3>1. i - (n0 + n1) \in 1..n2 /\ n0 + n1 + (i - (n0 + n1)) = i
      OBVIOUS
    <3> QED  BY <3>1
  <2>2. ps[i].kind = "data" <=> j <= d2
    BY <1>1, <1>2, <2>1 DEF Leads
  <2> QED  BY <2>1, <2>2
<1>6. d0 <= n0 /\ d1 <= n1 /\ d2 <= n2
  BY <1>1 DEF Leads
<1>7. \A i \in Int :
        i \in DataOf(ps) <=> \/ i \in 1..d0 \/ i \in n0 + 1..n0 + d1
                             \/ i \in n0 + n1 + 1..n0 + n1 + d2
  <2> TAKE i \in Int
  <2>1. i \in DataOf(ps) <=> i \in 1..n0 + n1 + n2 /\ ps[i].kind = "data"
    BY <1>2 DEF DataOf
  <2>2. CASE i \in 1..n0
    BY <1>3, <1>6, <2>1, <2>2
  <2>3. CASE i \in n0 + 1..n0 + n1
    BY <1>4, <1>6, <2>1, <2>3
  <2>4. CASE i \in n0 + n1 + 1..n0 + n1 + n2
    BY <1>5, <1>6, <2>1, <2>4
  <2>5. CASE i < 1 \/ i > n0 + n1 + n2
    BY <1>6, <2>1, <2>5
  <2> QED  BY <2>2, <2>3, <2>4, <2>5
<1>8. DataOf(ps) = Thrice(d0, n0, d1, n1, d2)
  <2>1. DataOf(ps) \subseteq Int
    BY DEF DataOf
  <2>2. 1..d0 \subseteq Int /\ n0 + 1..n0 + d1 \subseteq Int
        /\ n0 + n1 + 1..n0 + n1 + d2 \subseteq Int
    OBVIOUS
  <2> QED  BY <1>7, <2>1, <2>2 DEF Thrice
<1>9. Cardinality(DataOf(ps)) = d0 + d1 + d2
  BY <1>1, <1>6, <1>8, CountOfThree
<1> QED  BY <1>9 DEF ps

\* A block of a frame with several: d data packets that begin after the first
\* from of the frame, with FEC or as generate_rtp_packets made them.
BlockOf(ps, size, start, from, d, b) ==
  /\ ps \in Seq(Packet) /\ d <= Len(ps)
  /\ \A i \in 1..Len(ps) : ps[i].kind = "data" <=> i <= d
  /\ TooLarge(d) =>
       Len(ps) = d /\ \A i \in 1..d : ps[i] = RtpPacket(size, start, from + i - 1)
  /\ ~TooLarge(d) =>
       Len(ps) = d + Parity(d) /\ Fec(ps, 0, size, from, d, b, 2)

\* generate_fec_packets makes such blocks.
LEMMA WithFecIs ==
  ASSUME NEW size \in Nat, NEW start \in Nat, NEW base \in Nat, NEW from \in Nat,
         NEW d \in Nat \ {0}, NEW b \in 0..2, TooLarge(d) => base = start + from
  PROVE  /\ BlockOf(WithFec(size, start, base, from, d, b, 2), size, start, from, d, b)
         /\ Len(WithFec(size, start, base, from, d, b, 2)) \in Nat
<1> DEFINE ps == WithFec(size, start, base, from, d, b, 2)
<1>1. 2 \in {0, 2}
  OBVIOUS
<1>2. /\ ps \in Seq(Packet)
      /\ Len(ps) = IF TooLarge(d) THEN d ELSE d + Parity(d)
      /\ NumberedFrom(ps, base)
  BY <1>1, WithFecNumbers
<1>3. Parity(d) \in Nat
  BY ParityNat
<1>4. TooLarge(d) => \A i \in 1..d : ps[i] = RtpPacket(size, start, from + i - 1)
  BY DEF WithFec
<1>5. ~TooLarge(d) => Fec(ps, 0, size, from, d, b, 2)
  BY <1>1, WithFecBlock
<1> HIDE DEF ps
<1>6. ASSUME NEW i \in 1..Len(ps)
      PROVE  ps[i].kind = "data" <=> i <= d
  <2>1. CASE TooLarge(d)
    <3>1. i \in 1..d
      BY <1>2, <2>1
    <3>2. ps[i] = RtpPacket(size, start, from + i - 1)
      BY <1>4, <2>1, <3>1
    <3>3. ps[i].kind = "data"
      BY <3>2 DEF RtpPacket
    <3> QED  BY <3>1, <3>3
  <2>2. CASE ~TooLarge(d)
    <3>1. i \in 1..d + Parity(d) /\ 0 + i = i
      BY <1>2, <2>2
    <3>2. ps[0 + i].kind = "data" <=> i <= d
      BY <1>5, <2>2, <3>1 DEF Fec
    <3> QED  BY <3>1, <3>2
  <2> QED  BY <2>1, <2>2
<1>7. d <= Len(ps) /\ Len(ps) \in Nat
  BY <1>2, <1>3
<1>8. BlockOf(ps, size, start, from, d, b)
  BY <1>2, <1>4, <1>5, <1>6, <1>7 DEF BlockOf
<1> QED  BY <1>7, <1>8 DEF ps

\* The three blocks of a larger frame. The third is no larger than the others.
Blocks(frame, size, start, p0, p1, p2, d0, d1, d2) ==
  /\ frame = p0 \o p1 \o p2
  /\ BlockOf(p0, size, start, 0, d0, 0)
  /\ BlockOf(p1, size, start, d0, d1, 1)
  /\ BlockOf(p2, size, start, d0 + d1, d2, 2)
  /\ d0 = BlockSize(TotPackets(size), 0) /\ d1 = BlockSize(TotPackets(size), 1)
  /\ d2 = BlockSize(TotPackets(size), 2)
  /\ d0 + d1 + d2 = TotPackets(size)
  /\ TooLarge(d2) => TooLarge(d1)
  /\ d1 = d0

\* generate_fec_multi_blocks makes such a frame.
LEMMA FrameHasBlocks ==
  ASSUME NEW size \in Nat, NEW start \in Nat, TotPackets(size) > MultiAbove
  PROVE  \E d0 \in Nat \ {0}, d1 \in Nat \ {0}, d2 \in Nat \ {0} : \E p0, p1, p2 :
           Blocks(SplitIntoRtp(size, start), size, start, p0, p1, p2, d0, d1, d2)
<1> DEFINE tot == TotPackets(size)
           S(b) == BlockStart(tot, b)
           D(b) == BlockSize(tot, b)
           B(b, base) == WithFec(size, start, base, S(b), D(b), b, 2)
           p0 == B(0, start)
           p1 == B(1, start + Len(p0))
           p2 == B(2, start + Len(p0) + Len(p1))
<1>0. tot \in Nat \ {0} /\ tot > MultiAbove
  BY LastPacket
<1>1. PICK d0 \in Nat \ {0}, d1 \in Nat \ {0}, d2 \in Nat \ {0} :
        /\ d0 = D(0) /\ d1 = D(1) /\ d2 = D(2) /\ d0 + d1 + d2 = tot
  <2>1. \A b \in 0..2 : D(b) \in Nat \ {0}
    BY <1>0, BlocksNotEmpty
  <2>2. D(0) + D(1) + D(2) = tot
    <3>1. 0 \in 0..2
      OBVIOUS
    <3> QED  BY <1>0, <3>1, BlocksNotEmpty
  <2>3. D(0) \in Nat \ {0} /\ D(1) \in Nat \ {0} /\ D(2) \in Nat \ {0}
    BY <2>1
  <2> QED  BY <2>2, <2>3
<1>2. S(0) = 0 /\ S(1) = d0 /\ S(2) = d0 + d1 /\ d1 = d0 /\ d2 <= d1
  <2>1. S(0) = 0 /\ S(1) = D(0) /\ S(2) = D(0) + D(1) /\ D(1) = D(0) /\ D(2) <= D(1)
    BY <1>0, PacketsAssumption DEF BlockStart, BlockSize, Ceil, Least
  <2> QED  BY <1>1, <2>1
<1>3. TooLarge(d2) => TooLarge(d1)
  BY <1>1, <1>2, PacketsAssumption DEF TooLarge, Parity, Most, Ceil
<1>4. SplitIntoRtp(size, start) = p0 \o p1 \o p2
  BY DEF SplitIntoRtp, MultiBlocks
<1>5. /\ \A base \in Nat : B(0, base) = WithFec(size, start, base, 0, d0, 0, 2)
      /\ \A base \in Nat : B(1, base) = WithFec(size, start, base, d0, d1, 1, 2)
      /\ \A base \in Nat : B(2, base) = WithFec(size, start, base, d0 + d1, d2, 2, 2)
  BY <1>1, <1>2
<1> HIDE DEF B, S, D
<1>6. 0 \in 0..2 /\ 1 \in 0..2 /\ 2 \in 0..2 /\ start = start + 0
      /\ 0 \in Nat /\ d0 \in Nat /\ d0 + d1 \in Nat
  BY <1>1
<1>7. BlockOf(p0, size, start, 0, d0, 0) /\ Len(p0) \in Nat
  <2>1. TooLarge(d0) => start = start + 0
    BY <1>6
  <2>2. /\ BlockOf(WithFec(size, start, start, 0, d0, 0, 2), size, start, 0, d0, 0)
        /\ Len(WithFec(size, start, start, 0, d0, 0, 2)) \in Nat
    BY <1>1, <1>6, <2>1, WithFecIs
  <2>3. p0 = WithFec(size, start, start, 0, d0, 0, 2)
    BY <1>5
  <2> QED  BY <2>2, <2>3
<1> HIDE DEF p0
<1>8. BlockOf(p1, size, start, d0, d1, 1) /\ Len(p1) \in Nat
  <2> DEFINE base == start + Len(p0)
  <2>1. base \in Nat /\ (TooLarge(d1) => base = start + d0)
    <3>1. TooLarge(d1) => Len(p0) = d0
      BY <1>2, <1>7 DEF BlockOf
    <3> QED  BY <1>7, <3>1
  <2>2. p1 = WithFec(size, start, base, d0, d1, 1, 2)
    BY <1>5, <2>1
  <2> HIDE DEF base
  <2>3. /\ BlockOf(WithFec(size, start, base, d0, d1, 1, 2), size, start, d0, d1, 1)
        /\ Len(WithFec(size, start, base, d0, d1, 1, 2)) \in Nat
    BY <1>1, <1>6, <2>1, WithFecIs
  <2> QED  BY <2>2, <2>3
<1> HIDE DEF p1
<1>9. BlockOf(p2, size, start, d0 + d1, d2, 2)
  <2> DEFINE base == start + Len(p0) + Len(p1)
             from == d0 + d1
  <2>1. base \in Nat /\ (TooLarge(d2) => base = start + from)
    <3>1. TooLarge(d2) => Len(p0) = d0 /\ Len(p1) = d1
      BY <1>2, <1>3, <1>7, <1>8 DEF BlockOf
    <3>2. Len(p0) \in Nat /\ Len(p1) \in Nat
      BY <1>7, <1>8
    <3>3. base \in Nat
      BY <3>2
    <3>4. ASSUME NEW a \in Nat, NEW b \in Nat PROVE start + a + b = start + (a + b)
      OBVIOUS
    <3> QED  BY <1>6, <3>1, <3>3, <3>4
  <2>2. p2 = WithFec(size, start, base, from, d2, 2, 2)
    BY <1>5, <2>1
  <2>3. from \in Nat
    BY <1>6
  <2> HIDE DEF base, from
  <2>4. BlockOf(WithFec(size, start, base, from, d2, 2, 2), size, start, from, d2, 2)
    BY <1>1, <1>6, <2>1, <2>3, WithFecIs
  <2> QED  BY <2>2, <2>4 DEF from
<1> HIDE DEF p2
<1>10. Blocks(SplitIntoRtp(size, start), size, start, p0, p1, p2, d0, d1, d2)
  BY <1>1, <1>2, <1>3, <1>4, <1>7, <1>8, <1>9 DEF Blocks, D
<1> QED  BY <1>1, <1>10

\* Blocks that are all too large make a frame without FEC.
LEMMA BlocksRaw ==
  ASSUME NEW size \in Nat, NEW start \in Nat, NEW p0, NEW p1, NEW p2,
         NEW d0 \in Nat \ {0}, NEW d1 \in Nat \ {0}, NEW d2 \in Nat \ {0}, NEW ps,
         Blocks(ps, size, start, p0, p1, p2, d0, d1, d2), TooLarge(d1), TooLarge(d2)
  PROVE  Raw(ps, size, start)
<1>1. /\ p0 \in Seq(Packet) /\ p1 \in Seq(Packet) /\ p2 \in Seq(Packet)
      /\ Len(p0) = d0 /\ \A i \in 1..d0 : p0[i] = RtpPacket(size, start, 0 + i - 1)
      /\ Len(p1) = d1 /\ \A i \in 1..d1 : p1[i] = RtpPacket(size, start, d0 + i - 1)
      /\ Len(p2) = d2 /\ \A i \in 1..d2 : p2[i] = RtpPacket(size, start, (d0 + d1) + i - 1)
  BY DEF Blocks, BlockOf
<1>2. ps = p0 \o p1 \o p2 /\ TotPackets(size) = d0 + d1 + d2
  BY DEF Blocks
<1>3. /\ Len(ps) = d0 + d1 + d2
      /\ \A i \in 1..d0 : ps[i] = p0[i]
      /\ \A i \in 1..d1 : ps[d0 + i] = p1[i]
      /\ \A i \in 1..d2 : ps[d0 + d1 + i] = p2[i]
  <2>1. LET qs == p0 \o p1 \o p2
        IN  /\ Len(qs) = Len(p0) + Len(p1) + Len(p2)
            /\ \A i \in 1..Len(p0) : qs[i] = p0[i]
            /\ \A i \in 1..Len(p1) : qs[Len(p0) + i] = p1[i]
            /\ \A i \in 1..Len(p2) : qs[Len(p0) + Len(p1) + i] = p2[i]
    <3>1. p0 \in Seq(Packet) /\ p1 \in Seq(Packet) /\ p2 \in Seq(Packet)
      BY <1>1
    <3> QED  BY <3>1, Join3
  <2>2. Len(p0) = d0 /\ Len(p1) = d1 /\ Len(p2) = d2
    BY <1>1
  <2> QED  BY <1>2, <2>1, <2>2
<1>4. ASSUME NEW i \in 1..d0 + d1 + d2
      PROVE  ps[i] = RtpPacket(size, start, i - 1)
  <2>1. CASE i \in 1..d0
    <3>1. 0 + i - 1 = i - 1
      OBVIOUS
    <3> QED  BY <1>1, <1>3, <2>1, <3>1
  <2>2. CASE i \in d0 + 1..d0 + d1
    <3>1. PICK j \in 1..d1 : d0 + j = i
      <4>1. i - d0 \in 1..d1 /\ d0 + (i - d0) = i
        BY <2>2
      <4> QED  BY <4>1
    <3>2. ps[i] = RtpPacket(size, start, d0 + j - 1)
      BY <1>1, <1>3, <3>1
    <3> QED  BY <3>1, <3>2
  <2>3. CASE i \in d0 + d1 + 1..d0 + d1 + d2
    <3>1. PICK j \in 1..d2 : d0 + d1 + j = i
      <4>1. i - (d0 + d1) \in 1..d2 /\ d0 + d1 + (i - (d0 + d1)) = i
        BY <2>3
      <4> QED  BY <4>1
    <3>2. ps[i] = RtpPacket(size, start, (d0 + d1) + j - 1)
      BY <1>1, <1>3, <3>1
    <3> QED  BY <3>1, <3>2
  <2> QED  BY <2>1, <2>2, <2>3
<1> QED  BY <1>2, <1>3, <1>4 DEF Raw

\* A block keeps its shape where it stands in the frame.
LEMMA FecMoves ==
  ASSUME NEW ps, NEW qs, NEW off \in Nat, NEW size, NEW from, NEW d \in Nat \ {0}, NEW b,
         Fec(qs, 0, size, from, d, b, 2),
         \A i \in 1..d + Parity(d) : ps[off + i] = qs[i]
  PROVE  Fec(ps, off, size, from, d, b, 2)
<1>1. Parity(d) \in Nat
  BY ParityNat
<1>2. \A i \in 1..d + Parity(d) : 0 + i = i /\ ps[off + i] = qs[0 + i]
  BY <1>1
<1>3. ASSUME NEW i \in 1..d + Parity(d)
      PROVE  /\ ps[off + i].block = b /\ ps[off + i].last = 2
             /\ ps[off + i].shard = i - 1
             /\ ps[off + i].data = d /\ ps[off + i].pct = Percentage(d)
             /\ ps[off + i].kind = "data" <=> i <= d
             /\ ps[off + i].sof <=> i <= d /\ from + i = 1
             /\ ps[off + i].eof <=> i <= d /\ from + i = TotPackets(size)
             /\ i <= d => ps[off + i].bytes
                            = Least(FullSize(size) - (from + i - 1) * PacketBytes, PacketBytes)
  <2>1. PICK q : q = qs[0 + i]
    OBVIOUS
  <2>2. ps[off + i] = q
    BY <1>2, <2>1
  <2>3. /\ q.block = b /\ q.last = 2 /\ q.shard = i - 1
        /\ q.data = d /\ q.pct = Percentage(d)
        /\ q.kind = "data" <=> i <= d
        /\ q.sof <=> i <= d /\ from + i = 1
        /\ q.eof <=> i <= d /\ from + i = TotPackets(size)
        /\ i <= d => q.bytes
                       = Least(FullSize(size) - (from + i - 1) * PacketBytes, PacketBytes)
    BY <2>1, Zenon DEF Fec
  <2> QED  BY <2>2, <2>3, Zenon
<1> QED  BY <1>3, Zenon DEF Fec

\* Blocks that all have FEC are told apart by their headers.
LEMMA BlocksThree ==
  ASSUME NEW size \in Nat, NEW start \in Nat, NEW p0, NEW p1, NEW p2,
         NEW d0 \in Nat \ {0}, NEW d1 \in Nat \ {0}, NEW d2 \in Nat \ {0}, NEW ps,
         Blocks(ps, size, start, p0, p1, p2, d0, d1, d2), ~TooLarge(d1)
  PROVE  ThreeBlocks(ps, size, d0, d1, d2)
<1>1. /\ p0 \in Seq(Packet) /\ p1 \in Seq(Packet) /\ p2 \in Seq(Packet)
      /\ Len(p0) = d0 + Parity(d0) /\ Fec(p0, 0, size, 0, d0, 0, 2)
      /\ Len(p1) = d1 + Parity(d1) /\ Fec(p1, 0, size, d0, d1, 1, 2)
      /\ Len(p2) = d2 + Parity(d2) /\ Fec(p2, 0, size, d0 + d1, d2, 2, 2)
  BY DEF Blocks, BlockOf
<1>2. PICK n0 \in Nat, n1 \in Nat, n2 \in Nat :
        n0 = Len(p0) /\ n1 = Len(p1) /\ n2 = Len(p2)
  BY <1>1
<1>3. ps = p0 \o p1 \o p2
  BY DEF Blocks
<1>4. /\ Len(ps) = n0 + n1 + n2
      /\ \A i \in 1..n0 : ps[i] = p0[i]
      /\ \A i \in 1..n1 : ps[n0 + i] = p1[i]
      /\ \A i \in 1..n2 : ps[n0 + n1 + i] = p2[i]
  <2>1. LET qs == p0 \o p1 \o p2
        IN  /\ Len(qs) = Len(p0) + Len(p1) + Len(p2)
            /\ \A i \in 1..Len(p0) : qs[i] = p0[i]
            /\ \A i \in 1..Len(p1) : qs[Len(p0) + i] = p1[i]
            /\ \A i \in 1..Len(p2) : qs[Len(p0) + Len(p1) + i] = p2[i]
    <3>1. p0 \in Seq(Packet) /\ p1 \in Seq(Packet) /\ p2 \in Seq(Packet)
      BY <1>1
    <3> QED  BY <3>1, Join3
  <2> QED  BY <1>2, <1>3, <2>1
<1>8. n0 = d0 + Parity(d0) /\ n1 = d1 + Parity(d1) /\ n2 = d2 + Parity(d2)
  BY <1>1, <1>2
<1>5. Fec(ps, 0, size, 0, d0, 0, 2)
  <2>1. \A i \in 1..d0 + Parity(d0) : ps[0 + i] = p0[i]
    <3>1. ASSUME NEW i \in 1..n0 PROVE ps[0 + i] = p0[i]
      <4>1. 0 + i = i
        OBVIOUS
      <4>2. ps[i] = p0[i]
        BY <1>4
      <4> QED  BY <4>1, <4>2
    <3> QED  BY <1>8, <3>1
  <2>2. 0 \in Nat
    OBVIOUS
  <2> QED  BY <1>1, <2>1, <2>2, FecMoves
<1>6. Fec(ps, n0, size, d0, d1, 1, 2)
  <2>1. \A i \in 1..d1 + Parity(d1) : ps[n0 + i] = p1[i]
    <3>1. \A i \in 1..n1 : ps[n0 + i] = p1[i]
      BY <1>4
    <3> QED  BY <1>8, <3>1
  <2> QED  BY <1>1, <1>2, <2>1, FecMoves
<1>7. Fec(ps, n0 + n1, size, d0 + d1, d2, 2, 2)
  <2> DEFINE off == n0 + n1
  <2>1. \A i \in 1..d2 + Parity(d2) : ps[off + i] = p2[i]
    <3>1. \A i \in 1..n2 : ps[off + i] = p2[i]
      BY <1>4
    <3> QED  BY <1>8, <3>1
  <2>2. off \in Nat
    BY <1>2
  <2> HIDE DEF off
  <2>3. Fec(ps, off, size, d0 + d1, d2, 2, 2)
    BY <1>1, <2>1, <2>2, FecMoves
  <2> QED  BY <2>3 DEF off
<1> QED  BY <1>1, <1>2, <1>4, <1>5, <1>6, <1>7 DEF ThreeBlocks

\* No data packet is lost or added.
LEMMA BlocksCount ==
  ASSUME NEW size \in Nat, NEW start \in Nat, NEW p0, NEW p1, NEW p2,
         NEW d0 \in Nat \ {0}, NEW d1 \in Nat \ {0}, NEW d2 \in Nat \ {0}, NEW ps,
         Blocks(ps, size, start, p0, p1, p2, d0, d1, d2)
  PROVE  Cardinality(DataOf(ps)) = TotPackets(size)
<1>1. /\ p0 \in Seq(Packet) /\ p1 \in Seq(Packet) /\ p2 \in Seq(Packet)
      /\ Leads(p0, d0) /\ Leads(p1, d1) /\ Leads(p2, d2)
  BY DEF Blocks, BlockOf, Leads
<1>2. ps = p0 \o p1 \o p2 /\ d0 + d1 + d2 = TotPackets(size)
  BY DEF Blocks
<1>3. d0 \in Nat /\ d1 \in Nat /\ d2 \in Nat
  OBVIOUS
<1>4. Cardinality(DataOf(p0 \o p1 \o p2)) = d0 + d1 + d2
  BY <1>1, <1>3, CountOfJoin
<1> QED  BY <1>2, <1>4

\* Whatever the size of a frame, its blocks and their parity: unless its last
\* block alone is small enough for FEC, the headers tell the client all of it.
THEOREM SplitWhole ==
  ASSUME NEW size \in Nat, NEW start \in Nat,
         ~Mixed(Cardinality(DataOf(SplitIntoRtp(size, start))))
  PROVE  Whole(SplitIntoRtp(size, start), LastPayloadLen(size))
<1> DEFINE tot == TotPackets(size)
           frame == SplitIntoRtp(size, start)
<1>1. tot \in Nat \ {0}
  BY LastPacket
<1>2. frame \in Seq(Packet)
  BY SplitNumbers
<1>3. CASE ~(tot > MultiAbove)
  <2>1. frame = WithFec(size, start, start, 0, tot, 0, 0)
    BY <1>3 DEF SplitIntoRtp
  <2>2. CASE TooLarge(tot)
    <3>1. frame = [i \in 1..tot |-> RtpPacket(size, start, 0 + i - 1)]
      BY <2>1, <2>2 DEF WithFec
    <3>2. Len(frame) = tot /\ \A i \in 1..tot : frame[i] = RtpPacket(size, start, i - 1)
      <4>1. \A i \in 1..tot : 0 + i - 1 = i - 1
        OBVIOUS
      <4>2. Len(frame) = tot
        BY <1>1, <3>1
      <4> QED  BY <3>1, <4>1, <4>2
    <3>3. Raw(frame, size, start)
      BY <3>2 DEF Raw
    <3> QED  BY <1>2, <3>3, RawWhole
  <2>3. CASE ~TooLarge(tot)
    <3>0. 0 \in Nat /\ 0 \in 0..2 /\ 0 \in {0, 2}
      OBVIOUS
    <3>1. Fec(frame, 0, size, 0, tot, 0, 0)
      BY <1>1, <2>1, <2>3, <3>0, WithFecBlock
    <3>2. Len(frame) = tot + Parity(tot)
      <4>1. LET ps == WithFec(size, start, start, 0, tot, 0, 0)
            IN  /\ ps \in Seq(Packet)
                /\ Len(ps) = IF TooLarge(tot) THEN tot ELSE tot + Parity(tot)
                /\ NumberedFrom(ps, start)
        BY <1>1, <2>3, <3>0, WithFecNumbers
      <4> QED  BY <2>1, <2>3, <4>1
    <3> QED  BY <1>2, <3>1, <3>2, OneBlockWhole
  <2> QED  BY <2>2, <2>3
<1>4. CASE tot > MultiAbove
  <2>1. PICK d0 \in Nat \ {0}, d1 \in Nat \ {0}, d2 \in Nat \ {0} : \E p0, p1, p2 :
          Blocks(frame, size, start, p0, p1, p2, d0, d1, d2)
    BY <1>4, FrameHasBlocks
  <2>2. PICK p0, p1, p2 : Blocks(frame, size, start, p0, p1, p2, d0, d1, d2)
    BY <2>1
  <2>3. CASE TooLarge(d1) /\ TooLarge(d2)
    <3>1. Raw(frame, size, start)
      BY <2>1, <2>2, <2>3, BlocksRaw
    <3> QED  BY <1>2, <3>1, RawWhole
  <2>4. CASE ~TooLarge(d1)
    <3>1. ThreeBlocks(frame, size, d0, d1, d2)
      BY <2>1, <2>2, <2>4, BlocksThree
    <3>2. tot = d0 + d1 + d2
      BY <2>2 DEF Blocks
    <3> QED  BY <1>2, <2>1, <3>1, <3>2, ThreeBlocksWhole
  <2>5. CASE TooLarge(d1) /\ ~TooLarge(d2)
    <3>1. Cardinality(DataOf(frame)) = tot
      BY <2>1, <2>2, BlocksCount
    <3>2. d1 = BlockSize(tot, 1) /\ d2 = BlockSize(tot, 2)
      BY <2>2 DEF Blocks
    <3>3. 1 \in 0..2 /\ 2 \in 0..2
      OBVIOUS
    <3>4. Mixed(tot)
      BY <1>4, <2>5, <3>2, <3>3 DEF Mixed
    <3> QED  BY <3>1, <3>4
  <2> QED  BY <2>3, <2>4, <2>5
<1> QED  BY <1>3, <1>4

\* The packets are those of a frame that the encoder had, numbered from the
\* counter before it; lastLen is of that frame too.
FrameInv ==
  packets # <<>> =>
    \E size \in Sizes : packets = SplitIntoRtp(size, first) /\ lastLen = LastPayloadLen(size)

LEMMA NextFrame == FrameInv /\ [Next]_vars => FrameInv'
<1> SUFFICES ASSUME FrameInv, [Next]_vars PROVE FrameInv'
  OBVIOUS
<1>1. ASSUME NEW size \in Sizes, EncodeFrame(size) PROVE FrameInv'
  <2>1. packets' = SplitIntoRtp(size, first') /\ lastLen' = LastPayloadLen(size)
    BY <1>1 DEF EncodeFrame
  <2> QED  BY <2>1 DEF FrameInv
<1>2. ASSUME UNCHANGED payloader PROVE FrameInv'
  BY <1>2 DEF FrameInv, payloader
<1>3. CASE PaceStep
  BY <1>2, <1>3 DEF PaceStep, PaceOver, Sleep, NextBatch
<1>4. CASE Send
  BY <1>2, <1>4 DEF Send, BuildChunk, BatchSent, Accept, PollTimeout, SendError, Fail
<1>5. CASE Tick \/ EncodeAudio
  BY <1>2, <1>5 DEF Tick, EncodeAudio
<1>6. CASE UNCHANGED vars
  BY <1>2, <1>6 DEF vars
<1> QED  BY <1>1, <1>3, <1>4, <1>5, <1>6 DEF Next

LEMMA FrameFits == TypeOK /\ FrameInv => FrameReassembles
<1> SUFFICES ASSUME TypeOK, FrameInv, packets # <<>>, ~Mixed(TotData)
             PROVE  Whole(packets, lastLen)
  BY DEF FrameReassembles, Whole
<1>1. PICK size \in Sizes :
        packets = SplitIntoRtp(size, first) /\ lastLen = LastPayloadLen(size)
  BY DEF FrameInv
<1>2. size \in Nat /\ first \in Nat
  BY <1>1, StreamAssumption DEF TypeOK
<1>3. TotData = Cardinality(DataOf(packets))
  BY DEF TotData, DataOf
<1> QED  BY <1>1, <1>2, <1>3, SplitWhole

\* From the headers alone a client that gets every packet knows the whole frame.
THEOREM FrameCorrect == Spec => []FrameReassembles
<1>1. Init => FrameInv
  BY DEF Init, FrameInv
<1>2. IInv => TypeOK
  BY DEF IInv
<1> QED  BY Invariant, <1>1, <1>2, NextFrame, FrameFits, PTL DEF Spec

=============================================================================
