------------------------------ MODULE RtpPackets ------------------------------
(***************************************************************************)
(* The RTP payloaders: how an encoded frame is cut into packets, how the   *)
(* packets are protected by FEC (forward error correction) in blocks, and  *)
(* how audio packets are numbered. Packets are records of the header       *)
(* fields; of the payload only its length matters.                         *)
(***************************************************************************)
EXTENDS Integers, Sequences

CONSTANTS SeqMod,         \* 2^16: sequence numbers are 16 bits wide
          PayloadSize,    \* payload_size, from the client's packetSize
          MinFec,         \* min_required_fec_packets, from the client
          DataShardsMax,  \* 255: shards of a block that can be encoded
          MultiAbove      \* 90: data packets of a frame with one block

MaxRtpHeaderSize == 16
NvVideoPacketSize == 16
VideoHeaderSize == 8
FecPercentage == 20
AudioDataShards == 4
AudioFecShards == 2

ASSUME PacketsAssumption ==
  /\ SeqMod \in Nat \ {0} /\ SeqMod % AudioDataShards = 0
  /\ PayloadSize \in Nat /\ PayloadSize > MaxRtpHeaderSize
  /\ MinFec \in 0..2
  /\ DataShardsMax \in Nat
  /\ MultiAbove \in Nat /\ MultiAbove >= 4

Least(a, b) == IF a <= b THEN a ELSE b
Most(a, b) == IF a >= b THEN a ELSE b
Ceil(a, b) == (a + b - 1) \div b

-----------------------------------------------------------------------------
(* Video. A frame of size bytes gets a header of 8. *)

FullSize(size) == size + VideoHeaderSize
PacketBytes == PayloadSize - MaxRtpHeaderSize
TotPackets(size) == Ceil(FullSize(size), PacketBytes)

\* What the header of a frame says of the last packet, whose padding AV1
\* decoders cannot skip.
LastPayloadLen(size) ==
  LET left == FullSize(size) % (PayloadSize - NvVideoPacketSize)
  IN  IF left = 0 THEN PayloadSize - NvVideoPacketSize ELSE left

\* A data packet as generate_rtp_packets makes it: numbered within its frame.
RtpPacket(size, start, nr) ==
  [kind |-> "data", seq |-> (start + nr) % SeqMod,
   block |-> 0, last |-> 0, shard |-> nr, data |-> TotPackets(size), pct |-> 0,
   sof |-> nr = 0, eof |-> nr = TotPackets(size) - 1,
   bytes |-> Least(FullSize(size) - nr * PacketBytes, PacketBytes)]

\* determine_split: the parity shards of a block ...
Parity(data) == Most(Ceil(data * FecPercentage, 100), MinFec)

\* Variant of Percentage for mutation: small frames keep the percentage.
PercentageFixed(data) == FecPercentage

\* ... and the percentage that makes a client compute as many.
Percentage(data) ==
  IF Ceil(data * FecPercentage, 100) < MinFec
  THEN (100 * MinFec) \div data ELSE FecPercentage

\* The size of a block that the codec cannot encode: FEC is skipped.
TooLarge(data) == data + Parity(data) > DataShardsMax

\* generate_fec_packets: data packets from + 1 to from + data of the frame
\* become a block, the parity shards follow. Packets of a block that is too
\* large keep what generate_rtp_packets wrote.
WithFec(size, start, base, from, data, block, last) ==
  IF TooLarge(data)
  THEN [i \in 1..data |-> RtpPacket(size, start, from + i - 1)]
  ELSE [i \in 1..data + Parity(data) |->
          [kind |-> IF i <= data THEN "data" ELSE "parity",
           seq |-> (base + i - 1) % SeqMod,
           block |-> block, last |-> last,
           shard |-> i - 1, data |-> data, pct |-> Percentage(data),
           sof |-> i <= data /\ from + i = 1,
           eof |-> i <= data /\ from + i = TotPackets(size),
           bytes |-> IF i <= data
                     THEN Least(FullSize(size) - (from + i - 1) * PacketBytes, PacketBytes)
                     ELSE PacketBytes]]

\* Where the three blocks of a frame of tot packets begin.
BlockStart(tot, block) == Least(block * Ceil(tot, 3), tot)
BlockSize(tot, block) == BlockStart(tot, block + 1) - BlockStart(tot, block)

\* generate_fec_multi_blocks: the number of the first packet of a block follows
\* that of the last parity packet of the block before.
MultiBlocks(size, start) ==
  LET tot == TotPackets(size)
      Block(b, base) ==
        WithFec(size, start, base, BlockStart(tot, b), BlockSize(tot, b), b, 2)
      p0 == Block(0, start)
      p1 == Block(1, start + Len(p0))
      p2 == Block(2, start + Len(p0) + Len(p1))
  IN  p0 \o p1 \o p2

SplitIntoRtp(size, start) ==
  IF TotPackets(size) > MultiAbove
  THEN MultiBlocks(size, start)
  ELSE WithFec(size, start, start, 0, TotPackets(size), 0, 0)

-----------------------------------------------------------------------------
(* Audio: every packet is numbered; each fourth is followed by two packets of *)
(* parity over the last four.                                                 *)

\* Variant of TimeToFec for mutation: one packet too early.
TimeToFecEarly(seq) == (seq + 2) % AudioDataShards = 0

TimeToFec(seq) == (seq + 1) % AudioDataShards = 0

\* The numbers of the packets saved in packets_buffer, once seq is.
SavePacket(buffer, seq) == [buffer EXCEPT ![seq % AudioDataShards] = seq]

\* The FEC packets of an audio packet: the first number they say they protect,
\* and the packets their parity is of.
AudioFec(buffer, seq) ==
  IF TimeToFec(seq)
  THEN [shard \in 1..AudioFecShards |->
          [seq |-> (seq + shard - 1) % SeqMod,
           base |-> (seq - (AudioDataShards - 1)) % SeqMod, of |-> buffer]]
  ELSE <<>>

-----------------------------------------------------------------------------
(* What ANNOUNCE and the start of a pipeline compute from the client's wishes. *)

\* The bitrate of the encoder: the client's, less what FEC, audio and overhead
\* need (in Kbps).
AnnouncedBitrate(configured, channels) ==
  LET video == (configured * (100 - FecPercentage)) \div 100
      rest == video - Least(96 * channels, video \div 5)
  IN  rest - Least(500, rest \div 10)

\* Packets per millisecond at 80% of a gigabit, and per system call in 64 KB.
PacketsPerMs(size) == Most(1, 800000 \div (size * 8))
PacketsPerCall(size) == Least(16, 65536 \div size)
=============================================================================
