------------------------------- MODULE RtpStream -------------------------------
(***************************************************************************)
(* The end of a stream's pipelines: frames that become RTP packets and are *)
(* sent in paced batches over a UDP socket that may refuse them, and audio *)
(* packets with their FEC. The numbers and blocks are those of RtpPackets. *)
(*                                                                         *)
(* Time is counted in packets: a millisecond is MaxPerMs.                  *)
(***************************************************************************)
EXTENDS RtpPackets, FiniteSets

CONSTANTS Sizes,         \* frame sizes, in bytes
          MaxPerMs,      \* max_packets_per_ms of the pacing
          MaxBatchSize,  \* max_batch_size: packets per call of send_batch
          MaxBatch,      \* 64: messages per sendmmsg
          MaxRetries,    \* 10: polls that time out in a row
          MaxFrames,     \* bound: frames encoded
          MaxTime        \* bound: time that passes by itself

ASSUME StreamAssumption ==
  /\ Sizes \subseteq Nat
  /\ MaxPerMs \in Nat \ {0} /\ MaxBatchSize \in Nat \ {0}
  /\ MaxBatch \in Nat \ {0} /\ MaxRetries \in Nat \ {0}
  /\ MaxFrames \in Nat /\ MaxTime \in Nat

VARIABLES
  seq,        \* cur_seq_number of the video payloader
  frames,     \* frame_num
  packets,    \* the packets of the last frame
  first,      \* cur_seq_number before that frame
  lastLen,    \* last_payload_len of that frame
  pacing,     \* WOLF_ENABLE_VIDEO_PACING
  now,        \* the steady clock
  nextStart,  \* pacing.next_frame_start
  pace,       \* the loop of send_buffer_batched
  batch,      \* the loops of send_batch
  at,         \* where the sending thread is
  wire,       \* indices of the packets that the kernel took of this frame
  audioSeq,   \* cur_seq_number of the audio payloader
  buffer,     \* packets_buffer
  audioFec    \* the FEC packets after the last audio packet

payloader == <<seq, frames, packets, first, lastLen>>
sender == <<now, nextStart, pace, batch, at, wire>>
audio == <<audioSeq, buffer, audioFec>>
vars == <<payloader, pacing, sender, audio>>

Packet ==
  [kind : {"data", "parity"}, seq : 0..SeqMod - 1, block : 0..2, last : {0, 2},
   shard : Nat, data : Nat, pct : Nat, sof : BOOLEAN, eof : BOOLEAN, bytes : Int]

\* frame_start, packets_sent and packets_in_window; paced if not a small frame.
Pace == [paced : BOOLEAN, start : Nat, sent : Nat, window : 0..MaxPerMs]

\* block_offset, block_count, blocks_sent; base and size of the chunk that is
\* built, batch_sent and retries.
Batch == [offset : Nat, count : Nat, done : Nat,
          base : Nat, size : Nat, got : Nat, retries : 0..MaxRetries]

TypeOK ==
  /\ seq \in 0..SeqMod - 1 /\ first \in 0..SeqMod - 1
  /\ frames \in 0..MaxFrames
  /\ packets \in Seq(Packet)
  /\ lastLen \in 0..PacketBytes
  /\ pacing \in BOOLEAN
  /\ now \in Nat /\ nextStart \in Nat
  /\ pace \in Pace
  /\ batch \in Batch
  /\ at \in {"idle", "pace", "chunk", "send", "failed"}
  /\ wire \in Seq(Nat)
  /\ audioSeq \in 0..SeqMod - 1
  /\ buffer \in [0..AudioDataShards - 1 -> -1..SeqMod - 1]
  /\ \/ audioFec = <<>>
     \/ audioFec \in [1..AudioFecShards ->
          [seq : 0..SeqMod - 1, base : 0..SeqMod - 1,
           of : [0..AudioDataShards - 1 -> -1..SeqMod - 1]]]

NoBatch == [offset |-> 0, count |-> 0, done |-> 0,
            base |-> 0, size |-> 0, got |-> 0, retries |-> 0]

Init ==
  /\ seq = 0 /\ frames = 0 /\ packets = <<>> /\ first = 0 /\ lastLen = 0
  /\ pacing \in BOOLEAN
  /\ now = 0 /\ nextStart = 0
  /\ pace = [paced |-> FALSE, start |-> 0, sent |-> 0, window |-> 0]
  /\ batch = NoBatch
  /\ at = "idle" /\ wire = <<>>
  /\ audioSeq = 0
  /\ buffer = [i \in 0..AudioDataShards - 1 |-> -1]
  /\ audioFec = <<>>

-----------------------------------------------------------------------------
(* The video payloader. *)

\* A batch of count packets from offset on is handed to send_batch.
SendBatch(offset, count) ==
  /\ batch' = [NoBatch EXCEPT !.offset = offset, !.count = count]
  /\ at' = "chunk"

\* send_buffer_batched: small frames go out at once, larger ones are paced from
\* the moment the frame before is due to be over.
SendBuffer(count) ==
  IF ~pacing \/ count <= MaxBatchSize
  THEN /\ SendBatch(0, count)
       /\ pace' = [paced |-> FALSE, start |-> now, sent |-> 0, window |-> 0]
  ELSE /\ pace' = [paced |-> TRUE, start |-> Most(nextStart, now), sent |-> 0, window |-> 0]
       /\ at' = "pace"
       /\ UNCHANGED batch

\* Variant of EncodeFrame for mutation: parity packets are not counted.
EncodeFrameDataOnly(size) ==
  /\ at = "idle" /\ frames < MaxFrames
  /\ frames' = frames + 1
  /\ packets' = SplitIntoRtp(size, seq)
  /\ first' = seq
  /\ seq' = (seq + TotPackets(size)) % SeqMod
  /\ lastLen' = LastPayloadLen(size)
  /\ wire' = <<>>
  /\ SendBuffer(Len(packets'))
  /\ UNCHANGED <<pacing, now, nextStart, audio>>

\* The encoder has a frame: split_into_rtp, and the list goes to the sink.
EncodeFrame(size) ==
  /\ at = "idle" /\ frames < MaxFrames
  /\ frames' = frames + 1
  /\ packets' = SplitIntoRtp(size, seq)
  /\ first' = seq
  /\ seq' = (seq + Len(packets')) % SeqMod
  /\ lastLen' = LastPayloadLen(size)
  /\ wire' = <<>>
  /\ SendBuffer(Len(packets'))
  /\ UNCHANGED <<pacing, now, nextStart, audio>>

-----------------------------------------------------------------------------
(* send_buffer_batched: the loop over batches of a paced frame. *)

\* All of the frame is sent.
PaceOver ==
  /\ at = "pace" /\ pace.sent = Len(packets)
  /\ nextStart' = pace.start + pace.sent
  /\ at' = "idle"
  /\ UNCHANGED <<payloader, pacing, now, pace, batch, wire, audio>>

\* Variant of Sleep for mutation: the window is not emptied.
SleepKeepsWindow ==
  /\ at = "pace" /\ pace.sent < Len(packets) /\ pace.window = MaxPerMs
  /\ now' = Most(now, pace.start + pace.sent)
  /\ UNCHANGED <<payloader, pacing, nextStart, pace, batch, at, wire, audio>>

\* The budget of the window is used up: sleep until the packets are due.
Sleep ==
  /\ at = "pace" /\ pace.sent < Len(packets) /\ pace.window = MaxPerMs
  /\ now' = Most(now, pace.start + pace.sent)
  /\ pace' = [pace EXCEPT !.window = 0]
  /\ UNCHANGED <<payloader, pacing, nextStart, batch, at, wire, audio>>

\* Variant of NextCount for mutation: no budget.
NextCountAll == Least(MaxBatchSize, Len(packets) - pace.sent)

NextCount ==
  Least(Least(MaxPerMs - pace.window, MaxBatchSize), Len(packets) - pace.sent)

NextBatch ==
  /\ at = "pace" /\ pace.sent < Len(packets) /\ pace.window < MaxPerMs
  /\ SendBatch(pace.sent, NextCount)
  /\ UNCHANGED <<payloader, pacing, now, nextStart, pace, wire, audio>>

-----------------------------------------------------------------------------
(* send_batch. *)

\* Variant of BuildChunk for mutation: a chunk begins at the batch's offset.
BuildChunkAtOffset ==
  /\ at = "chunk" /\ batch.done < batch.count
  /\ batch' = [batch EXCEPT !.base = batch.offset,
                            !.size = Least(batch.count - batch.done, MaxBatch),
                            !.got = 0, !.retries = 0]
  /\ at' = "send"
  /\ UNCHANGED <<payloader, pacing, now, nextStart, pace, wire, audio>>

\* The messages of the next chunk are built.
BuildChunk ==
  /\ at = "chunk" /\ batch.done < batch.count
  /\ batch' = [batch EXCEPT !.base = batch.offset + batch.done,
                            !.size = Least(batch.count - batch.done, MaxBatch),
                            !.got = 0, !.retries = 0]
  /\ at' = "send"
  /\ UNCHANGED <<payloader, pacing, now, nextStart, pace, wire, audio>>

\* The kernel takes k messages, in order.
Accept(k) ==
  /\ at = "send"
  /\ batch.got + k <= batch.size
  /\ wire' = wire \o [i \in 1..k |-> batch.base + batch.got + i - 1]
  /\ batch' = [batch EXCEPT !.got = @ + k, !.done = @ + k, !.retries = 0]
  /\ at' = IF batch.got + k = batch.size THEN "chunk" ELSE "send"
  /\ UNCHANGED <<payloader, pacing, now, nextStart, pace, audio>>

\* The frame fails; the flow error ends the pipeline.
Fail ==
  /\ at' = "failed"
  /\ nextStart' = IF pace.paced THEN pace.start + pace.sent ELSE nextStart
  /\ UNCHANGED <<payloader, pacing, now, pace, wire, audio>>

\* The socket would block and poll() times out. (When poll() finds it writable,
\* or a call is interrupted, the loop tries again and nothing has changed.)
PollTimeout ==
  /\ at = "send"
  /\ batch' = [batch EXCEPT !.retries = @ + 1]
  /\ IF batch.retries + 1 < MaxRetries
     THEN UNCHANGED <<payloader, pacing, now, nextStart, pace, at, wire, audio>>
     ELSE Fail

SendError ==
  /\ at = "send"
  /\ Fail
  /\ UNCHANGED batch

\* send_batch returns TRUE.
BatchSent ==
  /\ at = "chunk" /\ batch.done = batch.count
  /\ IF pace.paced
     THEN /\ pace' = [pace EXCEPT !.sent = @ + batch.count, !.window = @ + batch.count]
          /\ at' = "pace"
     ELSE at' = "idle" /\ UNCHANGED pace
  /\ UNCHANGED <<payloader, pacing, now, nextStart, batch, wire, audio>>

Tick ==
  /\ now < MaxTime
  /\ at # "failed"
  /\ now' = now + 1
  /\ UNCHANGED <<payloader, pacing, nextStart, pace, batch, at, wire, audio>>

-----------------------------------------------------------------------------
(* The audio payloader, a pipeline of its own. *)

EncodeAudio ==
  /\ buffer' = SavePacket(buffer, audioSeq)
  /\ audioFec' = AudioFec(buffer', audioSeq)
  /\ audioSeq' = (audioSeq + 1) % SeqMod
  /\ UNCHANGED <<payloader, pacing, sender>>

-----------------------------------------------------------------------------
Send == \/ BuildChunk \/ BatchSent
        \/ \E k \in 1..MaxBatch : Accept(k)
        \/ PollTimeout \/ SendError
PaceStep == PaceOver \/ Sleep \/ NextBatch

Next ==
  \/ \E size \in Sizes : EncodeFrame(size)
  \/ PaceStep \/ Send \/ Tick \/ EncodeAudio

\* The sending thread runs, and a socket that poll() says is writable takes a
\* packet. Nothing is assumed of the encoder or the clock.
Spec == Init /\ [][Next]_vars
FairSpec == Spec /\ WF_vars(PaceStep) /\ WF_vars(Send)

-----------------------------------------------------------------------------
\* Receivers find losses by gaps in the sequence numbers: there must be none of
\* the payloader's own making, across blocks with and without parity, frames,
\* and the wrap at 2^16.
SeqConsecutive ==
  /\ \A i \in 1..Len(packets) : packets[i].seq = (first + i - 1) % SeqMod
  /\ seq = (first + Len(packets)) % SeqMod

\* What a client computes from the percentage in a header.
ClientParity(p) == Ceil(p.data * p.pct, 100)

ShardsOf(ps, b) == {i \in 1..Len(ps) : ps[i].block = b}

\* A client has all of a block: every header of it says the same, and each shard
\* that the header promises came once.
BlockComplete(ps, b) ==
  \E p \in {ps[i] : i \in ShardsOf(ps, b)} :
    /\ \A i \in ShardsOf(ps, b) : /\ ps[i].data = p.data
                                  /\ ps[i].pct = p.pct /\ ps[i].last = ps[1].last
                                  /\ ps[i].shard < p.data + ClientParity(p)
                                  /\ ps[i].kind = "data" <=> ps[i].shard < p.data
    /\ \A s \in 0..p.data + ClientParity(p) - 1 :
         \E i \in ShardsOf(ps, b) :
           ps[i].shard = s /\ \A j \in ShardsOf(ps, b) : ps[j].shard = s => j = i

\* Some blocks of the frame are small enough for FEC and some are not.
Mixed(tot) ==
  /\ tot > MultiAbove
  /\ \E a, b \in 0..2 : TooLarge(BlockSize(tot, a)) /\ ~TooLarge(BlockSize(tot, b))

TotData == Cardinality({i \in 1..Len(packets) : packets[i].kind = "data"})

\* From the headers alone a client that gets every packet knows it has the whole
\* frame: block after block with all their shards, the first and the last
\* packet, and how much of the last is padding. But for frames whose last block
\* alone is small enough for FEC: see MixedSizes.
FrameReassembles ==
  packets # <<>> /\ ~Mixed(TotData) =>
    /\ \A b \in 0..packets[1].last : BlockComplete(packets, b)
    /\ \A i \in 1..Len(packets) :
         /\ packets[i].sof <=> i = 1
         /\ packets[i].eof => packets[i].bytes = lastLen
    /\ \E i \in 1..Len(packets) : packets[i].eof

\* Whatever the kernel takes at a time, refuses or lets time out, it gets the
\* packets of a frame in order, each once, and all of them unless the stream
\* fails.
WireInOrder ==
  /\ \A i \in 1..Len(wire) : wire[i] = i - 1
  /\ Len(wire) <= Len(packets)
  /\ at = "idle" => Len(wire) = Len(packets)

\* A paced frame is never more than a window ahead of the line's rate.
PacedRate ==
  pace.paced => Len(wire) <= MaxPerMs + Most(0, now - pace.start)

\* A frame that is being sent goes out or fails: no wait is without an end.
FrameEnds == at \notin {"idle", "failed"} ~> at \in {"idle", "failed"}

\* The parity after a fourth audio packet is of the four packets its header
\* names, also when the numbers wrap.
AudioFecCovers ==
  \A k \in 1..Len(audioFec) : \A i \in 0..AudioDataShards - 1 :
    audioFec[k].of[i] = audioFec[k].base + i
=============================================================================
