------------------------ MODULE PacketProcessorProofs ------------------------
(***************************************************************************)
(* Proof that PacketProcessor uses the decoder as SIMBADecoder expects, so *)
(* that its invariant carries over; and from it that packets do not affect *)
(* each other and that nothing is read beyond a plain packet.              *)
(***************************************************************************)
EXTENDS PacketProcessor, SIMBADecoderProofs

\* While a packet is decoded, datagram and udp_at are those of the packet.
InHand ==
  decoding # "idle" =>
    /\ frame \in Frames
    /\ ~NotUdp(frame)
    /\ Plain(frame) => datagram = frame.datagram /\ udp_at = HeadersEnd(frame.header)

IsHistory(s) == s \in Seq({s[i] : i \in DOMAIN s})

\* The histories have an element for each packet taken, the one in hand not yet counted.
Histories ==
  /\ IsHistory(arrived) /\ IsHistory(feeds)
  /\ Len(arrived) = Len(feeds) /\ Len(arrived) <= MaxFrames
  /\ decoding # "idle" => Len(arrived) < MaxFrames
  /\ \A i \in DOMAIN feeds :
       /\ arrived[i] \in Frames /\ IsHistory(feeds[i])
       /\ IsFeedOf(handlers, arrived[i], feeds[i])

\* The packets that may have been counted, and those that must have been.
MayCount(s)  == {i \in DOMAIN s : ~NotUdp(s[i])}
MustCount(s) == {i \in DOMAIN s : Plain(s[i])}

Counted ==
  /\ packet_processed_ \in Nat
  /\ packet_processed_ <= 1 + Cardinality(MayCount(arrived))
  /\ packet_processed_ >= 1 + Cardinality(MustCount(arrived))

PacketIInv ==
  /\ DecoderIInv
  /\ InHand
  /\ Histories
  /\ Counted
  /\ frame \in Frames \cup {NoFrame} /\ udp_at \in Nat

-----------------------------------------------------------------------------
(***************************************************************************)
(* Lemmas about packets and about the steps.                               *)
(***************************************************************************)
LEMMA HistoryGrows ==
  ASSUME NEW s, IsHistory(s), NEW x
  PROVE  /\ IsHistory(Append(s, x))
         /\ Len(s) \in Nat
         /\ DOMAIN s = 1 .. Len(s)
         /\ Len(Append(s, x)) = Len(s) + 1
         /\ DOMAIN Append(s, x) = 1 .. Len(s) + 1
         /\ \A i \in 1 .. Len(s) : Append(s, x)[i] = s[i]
         /\ Append(s, x)[Len(s) + 1] = x
  <1> DEFINE S == {s[i] : i \in DOMAIN s} \cup {x}
             t == Append(s, x)
  <1>1. s \in Seq(S) /\ x \in S
    <2>1. s \in Seq({s[i] : i \in DOMAIN s}) /\ {s[i] : i \in DOMAIN s} \subseteq S
      BY DEF IsHistory
    <2>2. x \in S
      OBVIOUS
    <2> HIDE DEF S
    <2> QED
      BY <2>1, <2>2
  <1> HIDE DEF S
  <1>2. /\ Len(s) \in Nat /\ DOMAIN s = 1 .. Len(s)
        /\ Len(t) = Len(s) + 1 /\ DOMAIN t = 1 .. Len(s) + 1
        /\ \A i \in 1 .. Len(s) : t[i] = s[i]
        /\ t[Len(s) + 1] = x
        /\ t \in Seq(S)
    BY <1>1
  <1> HIDE DEF t
  <1>3. IsHistory(t)
    BY <1>2 DEF IsHistory
  <1> QED
    BY <1>2, <1>3 DEF t

LEMMA DatagramIsNotShort ==
  ASSUME NEW d, IsDatagram(d)
  PROVE  DatagramEnd(d) \in Nat /\ DatagramEnd(d) >= 16
  <1>1. /\ Len(d.messages) \in Nat
        /\ d.starts \in [1 .. Len(d.messages) + 1 -> Nat]
        /\ d.starts[1] = HeadersLength(d)
        /\ HeadersLength(d) \in Nat /\ HeadersLength(d) >= 16
    BY DEF IsDatagram, HeadersLength, MARKET_HEADER, INCREMENTAL_HEADER
  <1>2. CASE Len(d.messages) = 0
    BY <1>1, <1>2 DEF DatagramEnd
  <1>3. CASE Len(d.messages) > 0
    <2>1. 1 \in 1 .. Len(d.messages) /\ Len(d.messages) + 1 \in 2 .. Len(d.messages) + 1
      BY <1>1, <1>3
    <2>2. d.starts[Len(d.messages) + 1] >= MessageEnd(d, 1)
      <3>1. Len(d.messages) + 1 \in 1 + 1 .. Len(d.messages) + 1
        BY <1>1, <1>3
      <3> QED
        BY <2>1, <3>1, MessagesFollow
    <2>3. BodyLength(d.messages[1]) \in Nat
      <3>1. IsMessage(d.messages[1])
        BY <2>1 DEF IsDatagram
      <3>2. /\ d.messages[1].block_length \in Nat /\ d.messages[1].block_size \in Nat
            /\ Len(d.messages[1].entries) \in Nat
        BY <3>1 DEF IsMessage, IsHeader
      <3>3. d.messages[1].block_size * Len(d.messages[1].entries) \in Nat
        BY <3>2
      <3> QED
        BY <3>2, <3>3 DEF BodyLength, GROUP_SIZE
    <2>4. MessageEnd(d, 1) >= 16 /\ MessageEnd(d, 1) \in Nat
      BY <1>1, <2>3 DEF MessageEnd, SBE_HEADER
    <2>5. d.starts[Len(d.messages) + 1] \in Nat
      BY <1>1
    <2> QED
      BY <2>2, <2>4, <2>5 DEF DatagramEnd
  <1> QED
    BY <1>1, <1>2, <1>3

\* The headers of a plain packet are found, and its datagram after them.
LEMMA PlainPacket ==
  ASSUME NEW f \in Frames, Plain(f)
  PROVE  /\ IPPacketsRead(f) = {f.header}
         /\ UdpSpanStart(f.header) = HeadersEnd(f.header)
         /\ PayloadsAt(f, UdpSpanStart(f.header)) = {f.datagram}
         /\ HeadersEnd(f.header) \in Nat
         /\ HeadersEnd(f.header) + DatagramEnd(f.datagram) <= f.length
         /\ f.length \in Nat
  <1>1. /\ IsFrame(f) /\ f.whole /\ f.header.protocol = UDP_PROTOCOL
        /\ f.header.ihl \in 0 .. 15 /\ f.length \in Nat
        /\ IsDatagram(f.datagram)
    BY PacketProcessorAssumption, SIMBADecoderAssumption DEF Plain, IsFrame, IPPackets
  <1>2. HeadersEnd(f.header) \in Nat /\ HeadersEnd(f.header) >= 22
    BY <1>1 DEF HeadersEnd, ETH_PACKET_SIZE, UDP_HEADER_SIZE
  <1>3. HeadersEnd(f.header) + DatagramEnd(f.datagram) <= f.length
    BY <1>1 DEF IsFrame
  <1>4. f.length > PROTOCOL_BYTE
    BY <1>1, <1>2, <1>3, DatagramIsNotShort DEF PROTOCOL_BYTE
  <1> QED
    BY <1>1, <1>2, <1>3, <1>4 DEF IPPacketsRead, UdpSpanStart, HeadersEnd, PayloadsAt

\* Each step of the packet processor is one of the decoder, or none.
LEMMA StepsOfDecoder ==
  ASSUME [PacketNext]_packetVars
  PROVE  [Next]_vars
  <1>1. ASSUME NEW f \in Frames, SkipPacket(f)
        PROVE  UNCHANGED vars
    BY <1>1 DEF SkipPacket
  <1>2. ASSUME NEW f \in Frames, HandOver(f)
        PROVE  \E d \in Datagrams : Receive(d)
    <2>1. PICK h \in IPPacketsRead(f) : \E d \in PayloadsAt(f, udp_at') : Receive(d)
      BY <1>2 DEF HandOver
    <2>2. PayloadsAt(f, udp_at') \subseteq Datagrams
      BY PacketProcessorAssumption DEF PayloadsAt, IsFrame
    <2> QED
      BY <2>1, <2>2
  <1> QED
    BY <1>1, <1>2 DEF PacketNext, Process, Decode, Next, packetVars

LEMMA DecodingKeeps ==
  ASSUME DecodeStep
  PROVE  decoding # "idle" /\ UNCHANGED <<datagram, handlers>>
  BY DEF DecodeStep, ReadSBEHeader, HandleOrderUpdate, HandleOrderExecution, Handle, LineThrows,
    BlockTooLong, SnapshotHeader, SnapshotEntry, EntryThrows, EntryTooLong, SnapshotDone,
    SkipMessage, DatagramDone, DecodingEnds, DecoderAt, MessageInHand, MoreEntries, MoreMessages

LEMMA HandlersKept ==
  ASSUME [PacketNext]_packetVars
  PROVE  UNCHANGED handlers
  BY DecodingKeeps DEF PacketNext, Process, SkipPacket, HandOver, Receive, Decode, packetVars, vars

LEMMA ExpectedIsItem ==
  ASSUME NEW d, NEW k
  PROVE  Expected(d, k) = ItemOf(handlers, d, k)
  BY DEF Expected, ItemOf

\* What was decoded when decode_message() returns is what the packet may contribute.
LEMMA ReturnsWithFeed ==
  ASSUME PacketIInv, DecoderIInv', DecodeStep, decoding' = "idle"
  PROVE  IsFeedOf(handlers, frame, decoded')
  <1>1. decoding # "idle" /\ datagram' = datagram /\ handlers' = handlers
    BY DecodingKeeps
  <1>2. ~NotUdp(frame)
    BY <1>1 DEF PacketIInv, InHand
  <1>3. ASSUME Plain(frame)
        PROVE  /\ Len(decoded') <= Len(frame.datagram.messages)
               /\ \A i \in 1 .. Len(decoded') :
                    /\ Known(frame.datagram.messages[i])
                    /\ decoded'[i] = ItemOf(handlers, frame.datagram, i)
               /\ \/ Len(decoded') = Len(frame.datagram.messages)
                  \/ ~Known(frame.datagram.messages[Len(decoded') + 1])
    <2>1. datagram' = frame.datagram /\ FollowsSchema(datagram')
      BY <1>1, <1>3 DEF PacketIInv, InHand, Plain
    <2>2. /\ \A i \in DOMAIN decoded' :
               /\ i \in 1 .. Len(datagram'.messages)
               /\ Known(datagram'.messages[i])
               /\ decoded'[i] = Expected(datagram, i)'
          /\ \/ Len(decoded') = Len(datagram'.messages)
             \/ ~Known(datagram'.messages[Len(decoded') + 1])
      BY <2>1 DEF DecoderIInv, Aligned, DecodedInStep, DecodedUpToUnknown
    <2>3. \A i : Expected(datagram, i)' = ItemOf(handlers, frame.datagram, i)
      BY <1>1, <2>1 DEF Expected, ItemOf
    <2>4. Len(decoded') \in Nat /\ DOMAIN decoded' = 1 .. Len(decoded')
      BY DEF DecoderIInv, TypeIInv
    <2>5. Len(datagram'.messages) \in Nat
      BY DEF DecoderIInv, TypeIInv, DecoderTypeOK, IsDatagram
    <2>6. Len(decoded') <= Len(datagram'.messages)
      <3>1. CASE Len(decoded') = 0
        BY <2>5, <3>1
      <3>2. CASE Len(decoded') > 0
        <4>1. Len(decoded') \in DOMAIN decoded'
          BY <2>4, <3>2
        <4> QED
          BY <2>2, <2>4, <2>5, <4>1
      <3> QED
        BY <2>4, <3>1, <3>2
    <2> QED
      BY <2>1, <2>2, <2>3, <2>4, <2>6
  <1> QED
    BY <1>2, <1>3 DEF IsFeedOf

\* A packet f of which items are decoded is taken, and counted n times.
Takes(f, items, n) ==
  /\ IsFeedOf(handlers, f, items) /\ IsHistory(items)
  /\ Len(arrived) < MaxFrames
  /\ arrived' = Append(arrived, f)
  /\ feeds' = Append(feeds, items)
  /\ packet_processed_' = packet_processed_ + n
  /\ Plain(f) => n = 1
  /\ NotUdp(f) => n = 0
  /\ decoding' = "idle"

\* A packet is taken by the steps that return from process_packet, and by no other.
LEMMA TakesOrNot ==
  ASSUME PacketIInv, DecoderIInv', [PacketNext]_packetVars
  PROVE  \/ UNCHANGED <<arrived, feeds, packet_processed_>>
         \/ \E f \in Frames : \E items : \E n \in {0, 1} : Takes(f, items, n)
  <1>1. ASSUME NEW f \in Frames, Process(f), SkipPacket(f)
        PROVE  Takes(f, <<>>, 0)
    <2>1. ~Plain(f)
      <3>1. PICK h \in IPPacketsRead(f) : h.protocol # UDP_PROTOCOL
        BY <1>1 DEF SkipPacket
      <3> QED
        BY <3>1, PlainPacket DEF Plain
    <2>2. packet_processed_' = packet_processed_ + 0
      BY <1>1 DEF SkipPacket, PacketIInv, Counted
    <2>3. decoding' = "idle" /\ Len(arrived) < MaxFrames
      BY <1>1 DEF SkipPacket, DecoderAt, vars, Process
    <2> QED
      BY <1>1, <2>1, <2>2, <2>3 DEF SkipPacket, IsFeedOf, Takes, IsHistory
  <1>2. ASSUME NEW f \in Frames, HandOver(f)
        PROVE  UNCHANGED <<arrived, feeds, packet_processed_>>
    BY <1>2 DEF HandOver, feedVars
  <1>3. ASSUME Decode, decoding' = "idle"
        PROVE  frame \in Frames /\ Takes(frame, decoded', 1)
    <2>1. DecodeStep
      BY <1>3 DEF Decode
    <2>2. IsFeedOf(handlers, frame, decoded') /\ IsHistory(decoded')
      BY <1>3, <2>1, ReturnsWithFeed DEF DecoderIInv, TypeIInv, IsHistory
    <2>3. frame \in Frames /\ ~NotUdp(frame) /\ Len(arrived) < MaxFrames
      BY <2>1, DecodingKeeps DEF PacketIInv, InHand, Histories
    <2> QED
      BY <1>3, <2>2, <2>3 DEF Decode, Takes
  <1>4. ASSUME Decode, decoding' # "idle"
        PROVE  UNCHANGED <<arrived, feeds, packet_processed_>>
    BY <1>4 DEF Decode, feedVars
  <1>5. CASE UNCHANGED packetVars
    BY <1>5 DEF packetVars, feedVars
  <1> QED
    BY <1>1, <1>2, <1>3, <1>4, <1>5 DEF PacketNext, Process

LEMMA InHandKept ==
  ASSUME PacketIInv, [PacketNext]_packetVars
  PROVE  InHand'
  <1>1. ASSUME NEW f \in Frames, HandOver(f)
        PROVE  InHand'
    <2>1. PICK h \in IPPacketsRead(f) :
            /\ h.protocol = UDP_PROTOCOL
            /\ udp_at' = UdpSpanStart(h)
            /\ \E d \in PayloadsAt(f, udp_at') : Receive(d)
      BY <1>1 DEF HandOver
    <2>2. PICK d \in PayloadsAt(f, udp_at') : datagram' = d
      BY <2>1 DEF Receive
    <2>3. frame' = f
      BY <1>1 DEF HandOver
    <2>4. ~NotUdp(f)
      BY <2>1 DEF NotUdp, IPPacketsRead
    <2>5. ASSUME Plain(f)
          PROVE  datagram' = f.datagram /\ udp_at' = HeadersEnd(f.header)
      <3>1. h = f.header
        BY <2>1, <2>5, PlainPacket
      <3> QED
        BY <2>1, <2>2, <2>5, <3>1, PlainPacket
    <2> QED
      BY <2>3, <2>4, <2>5 DEF InHand
  <1>2. ASSUME NEW f \in Frames, SkipPacket(f)
        PROVE  InHand'
    BY <1>2 DEF SkipPacket, DecoderAt, InHand, vars
  <1>3. CASE Decode
    BY <1>3, DecodingKeeps DEF Decode, PacketIInv, InHand
  <1>4. CASE UNCHANGED packetVars
    BY <1>4 DEF packetVars, vars, PacketIInv, InHand
  <1> QED
    BY <1>1, <1>2, <1>3, <1>4 DEF PacketNext, Process

\* One more packet in the sets that bound the counter.
LEMMA OneMoreCounted ==
  ASSUME IsHistory(arrived), NEW f
  PROVE  LET fs == Append(arrived, f) IN
         /\ Cardinality(MayCount(arrived)) \in Nat
         /\ Cardinality(MustCount(arrived)) \in Nat
         /\ NotUdp(f) => Cardinality(MayCount(fs)) = Cardinality(MayCount(arrived))
         /\ ~NotUdp(f) => Cardinality(MayCount(fs)) = Cardinality(MayCount(arrived)) + 1
         /\ Plain(f) => Cardinality(MustCount(fs)) = Cardinality(MustCount(arrived)) + 1
         /\ ~Plain(f) => Cardinality(MustCount(fs)) = Cardinality(MustCount(arrived))
  <1> DEFINE fs == Append(arrived, f)
             n == Len(arrived)
  <1>1. /\ n \in Nat /\ DOMAIN arrived = 1 .. n /\ DOMAIN fs = 1 .. n + 1
        /\ \A i \in 1 .. n : fs[i] = arrived[i]
        /\ fs[n + 1] = f
    BY HistoryGrows
  <1>2. 1 .. n + 1 = (1 .. n) \cup {n + 1} /\ n + 1 \notin 1 .. n
    BY <1>1
  <1> HIDE DEF fs, n
  <1>3. IsFiniteSet(1 .. n)
    BY <1>1, FS_Interval
  <1>4. /\ IsFiniteSet(MayCount(arrived)) /\ n + 1 \notin MayCount(arrived)
        /\ IsFiniteSet(MustCount(arrived)) /\ n + 1 \notin MustCount(arrived)
    <2>1. MayCount(arrived) \subseteq 1 .. n /\ MustCount(arrived) \subseteq 1 .. n
      BY <1>1 DEF MayCount, MustCount
    <2> QED
      BY <1>2, <1>3, <2>1, FS_Subset
  <1>5. /\ NotUdp(f) => MayCount(fs) = MayCount(arrived)
        /\ ~NotUdp(f) => MayCount(fs) = MayCount(arrived) \cup {n + 1}
    BY <1>1, <1>2 DEF MayCount
  <1>6. /\ Plain(f) => MustCount(fs) = MustCount(arrived) \cup {n + 1}
        /\ ~Plain(f) => MustCount(fs) = MustCount(arrived)
    BY <1>1, <1>2 DEF MustCount
  <1>7. /\ Cardinality(MayCount(arrived) \cup {n + 1}) = Cardinality(MayCount(arrived)) + 1
        /\ Cardinality(MustCount(arrived) \cup {n + 1}) = Cardinality(MustCount(arrived)) + 1
    BY <1>4, FS_AddElement
  <1> QED
    BY <1>4, <1>5, <1>6, <1>7, FS_CardinalityType DEF fs

LEMMA CountedKept ==
  ASSUME PacketIInv, DecoderIInv', [PacketNext]_packetVars
  PROVE  Counted'
  <1>1. ASSUME NEW f \in Frames, NEW items, NEW n \in {0, 1}, Takes(f, items, n)
        PROVE  Counted'
    <2>1. arrived' = Append(arrived, f) /\ packet_processed_' = packet_processed_ + n
      BY <1>1 DEF Takes
    <2>2. /\ NotUdp(f) => n = 0
          /\ Plain(f) => n = 1
      BY <1>1 DEF Takes
    <2>3. Counted /\ IsHistory(arrived)
      BY DEF PacketIInv, Histories
    <2>4. packet_processed_' <= 1 + Cardinality(MayCount(arrived'))
      BY <2>1, <2>2, <2>3, OneMoreCounted DEF Counted
    <2>5. packet_processed_' >= 1 + Cardinality(MustCount(arrived'))
      BY <2>1, <2>2, <2>3, OneMoreCounted DEF Counted
    <2>6. packet_processed_' \in Nat
      BY <2>1, <2>3 DEF Counted
    <2> QED
      BY <2>4, <2>5, <2>6 DEF Counted, MayCount, MustCount, NotUdp, Plain
  <1>2. CASE UNCHANGED <<arrived, feeds, packet_processed_>>
    BY <1>2 DEF PacketIInv, Counted, MayCount, MustCount
  <1> QED
    BY <1>1, <1>2, TakesOrNot

LEMMA HistoriesKept ==
  ASSUME PacketIInv, DecoderIInv', [PacketNext]_packetVars
  PROVE  Histories'
  <1>1. handlers' = handlers
    BY HandlersKept
  <1>2. ASSUME NEW f \in Frames, NEW items, NEW n \in {0, 1}, Takes(f, items, n)
        PROVE  Histories'
    <2>1. /\ IsFeedOf(handlers, f, items) /\ IsHistory(items)
          /\ Len(arrived) < MaxFrames
          /\ arrived' = Append(arrived, f)
          /\ feeds' = Append(feeds, items)
          /\ decoding' = "idle"
      BY <1>2 DEF Takes
    <2>2. /\ IsHistory(arrived') /\ Len(arrived) \in Nat
          /\ Len(arrived') = Len(arrived) + 1
          /\ \A i \in 1 .. Len(arrived) : arrived'[i] = arrived[i]
          /\ arrived'[Len(arrived) + 1] = f
      BY <2>1, HistoryGrows DEF PacketIInv, Histories
    <2>3. /\ IsHistory(feeds') /\ Len(feeds') = Len(feeds) + 1
          /\ DOMAIN feeds' = 1 .. Len(feeds) + 1 /\ DOMAIN feeds = 1 .. Len(feeds)
          /\ \A i \in 1 .. Len(feeds) : feeds'[i] = feeds[i]
          /\ feeds'[Len(feeds) + 1] = items
      BY <2>1, HistoryGrows DEF PacketIInv, Histories
    <2>4. Len(arrived) = Len(feeds)
      BY DEF PacketIInv, Histories
    <2>5. ASSUME NEW i \in DOMAIN feeds'
          PROVE  /\ arrived'[i] \in Frames /\ IsHistory(feeds'[i])
                 /\ IsFeedOf(handlers', arrived'[i], feeds'[i])
      <3>1. CASE i \in DOMAIN feeds
        BY <1>1, <2>2, <2>3, <2>4, <3>1 DEF PacketIInv, Histories
      <3>2. CASE i = Len(feeds) + 1
        BY <1>1, <2>1, <2>2, <2>3, <2>4, <3>2
      <3> QED
        BY <2>2, <2>3, <2>4, <3>1, <3>2
    <2>6. Len(arrived') = Len(feeds') /\ Len(arrived') <= MaxFrames
      BY <2>1, <2>2, <2>3, <2>4, PacketProcessorAssumption
    <2> QED
      BY <2>1, <2>2, <2>3, <2>5, <2>6 DEF Histories
  <1>3. CASE UNCHANGED <<arrived, feeds, packet_processed_>>
    <2>1. decoding' # "idle" => Len(arrived) < MaxFrames
      <3>1. CASE \E f \in Frames : Process(f)
        BY <3>1 DEF Process
      <3>2. CASE Decode
        BY <3>2, DecodingKeeps DEF Decode, PacketIInv, Histories
      <3>3. CASE UNCHANGED packetVars
        BY <3>3 DEF packetVars, vars, PacketIInv, Histories
      <3> QED
        BY <3>1, <3>2, <3>3 DEF PacketNext
    <2>2. Histories
      BY DEF PacketIInv
    <2> QED
      BY <1>1, <1>3, <2>1, <2>2 DEF Histories
  <1> QED
    BY <1>2, <1>3, TakesOrNot

LEMMA FrameTypeKept ==
  ASSUME PacketIInv, [PacketNext]_packetVars
  PROVE  frame' \in Frames \cup {NoFrame} /\ udp_at' \in Nat
  <1>1. ASSUME NEW f \in Frames, HandOver(f)
        PROVE  frame' \in Frames \cup {NoFrame} /\ udp_at' \in Nat
    <2>1. PICK h \in IPPacketsRead(f) : udp_at' = UdpSpanStart(h)
      BY <1>1 DEF HandOver
    <2>2. h \in IPPackets
      BY PacketProcessorAssumption DEF IPPacketsRead, IsFrame
    <2>3. h.ihl \in 0 .. 15
      BY <2>2 DEF IPPackets
    <2>4. udp_at' \in Nat
      BY <2>1, <2>3 DEF UdpSpanStart, ETH_PACKET_SIZE, UDP_HEADER_SIZE
    <2> QED
      BY <1>1, <2>4 DEF HandOver
  <1>2. CASE (\E f \in Frames : SkipPacket(f)) \/ Decode \/ UNCHANGED packetVars
    BY <1>2 DEF SkipPacket, Decode, packetVars, PacketIInv
  <1> QED
    BY <1>1, <1>2 DEF PacketNext, Process

-----------------------------------------------------------------------------
(***************************************************************************)
(* Every read of a plain packet ends inside it.                            *)
(***************************************************************************)
LEMMA Fits ==
  ASSUME NEW at \in Nat, NEW end \in Nat, NEW length \in Nat, at + end <= length,
         NEW offset \in Nat, NEW n \in Nat, offset + n <= end
  PROVE  at + offset + n <= length
  OBVIOUS

LEMMA EndOfMessage ==
  ASSUME NEW start \in Nat, NEW body \in Nat, NEW end \in Nat, NEW block \in Nat, NEW n \in Nat,
         end >= start + 8 + body, body = block \/ (body = 19 + 57 * n /\ block = 16)
  PROVE  /\ start + 8 + block <= end
         /\ body = 19 + 57 * n => start + 27 + 57 * n <= end
  OBVIOUS

LEMMA BlockFits ==
  ASSUME NEW start \in Nat, NEW end \in Nat, NEW n \in Nat, NEW block \in Nat,
         start + 8 + block <= end
  PROVE  /\ start + 8 \in Nat
         /\ start + 8 + block <= end
         /\ block = 16 /\ start + 27 + 57 * n <= end => start + 8 + (block + 3) <= end
  OBVIOUS

LEMMA EntryFits ==
  ASSUME NEW start \in Nat, NEW end \in Nat, NEW n \in Nat, NEW i \in Nat, i < n,
         start + 27 + 57 * n <= end
  PROVE  /\ start + 8 + 16 + 3 + ((i + 1) - 1) * 57 \in Nat
         /\ start + 8 + 16 + 3 + ((i + 1) - 1) * 57 + 57 <= end
  OBVIOUS

\* What is left of the message in hand, and of the datagram after it.
LEMMA RoomForMessage ==
  ASSUME InSchema, NEW k \in 1 .. Len(datagram.messages)
  PROVE  LET m == datagram.messages[k] IN
         /\ datagram.starts[k] \in Nat /\ m.block_length \in Nat /\ DatagramEnd(datagram) \in Nat
         /\ datagram.starts[k] + 8 + m.block_length <= DatagramEnd(datagram)
         /\ m.template_id = 17 => /\ m.block_length = 16
                                  /\ datagram.starts[k] + 27 + 57 * Len(m.entries)
                                       <= DatagramEnd(datagram)
  <1> DEFINE m == datagram.messages[k]
  <1>1. Len(datagram.messages) + 1 \in k + 1 .. Len(datagram.messages) + 1
    BY StartsOfMessages
  <1>2. /\ DatagramEnd(datagram) \in Nat /\ datagram.starts[k] \in Nat
        /\ DatagramEnd(datagram) >= MessageEnd(datagram, k)
        /\ MessageEnd(datagram, k) = datagram.starts[k] + 8 + BodyLength(m)
    BY <1>1, StartsOfMessages DEF DatagramEnd
  <1>3. /\ m.block_length \in Nat /\ Len(m.entries) \in Nat
        /\ m.template_id = 17 => m.block_length = 16
        /\ m.template_id # 17 => BodyLength(m) = m.block_length
        /\ m.template_id = 17 => BodyLength(m) = 19 + 57 * Len(m.entries)
    BY SchemaLengths
  <1>4. /\ BodyLength(m) \in Nat
        /\ \/ BodyLength(m) = m.block_length
           \/ BodyLength(m) = 19 + 57 * Len(m.entries) /\ m.block_length = 16
        /\ DatagramEnd(datagram) >= datagram.starts[k] + 8 + BodyLength(m)
    BY <1>2, <1>3, SchemaLengths
  <1>5. /\ datagram.starts[k] + 8 + m.block_length <= DatagramEnd(datagram)
        /\ BodyLength(m) = 19 + 57 * Len(m.entries)
             => datagram.starts[k] + 27 + 57 * Len(m.entries) <= DatagramEnd(datagram)
    <2> HIDE DEF m
    <2> QED
      BY <1>2, <1>3, <1>4, EndOfMessage
  <1> QED
    BY <1>2, <1>3, <1>5

\* A plain packet that is being decoded: the datagram lies inside it, and the decoder is
\* in step with the datagram.
LEMMA PlainInHand ==
  ASSUME PacketIInv, Plain(frame), decoding # "idle"
  PROVE  /\ InSchema /\ BeforeMessage /\ InMessage /\ InEntries /\ MappingExtendsTemplates
         /\ udp_at \in Nat /\ frame.length \in Nat
         /\ udp_at + DatagramEnd(datagram) <= frame.length
         /\ DatagramEnd(datagram) = datagram.message_size
         /\ Len(datagram.messages) \in Nat
         /\ current_offset_ \in Nat /\ entry_nr \in Nat
  <1>1. frame \in Frames /\ datagram = frame.datagram /\ udp_at = HeadersEnd(frame.header)
    BY DEF PacketIInv, InHand
  <1>2. FollowsSchema(datagram) /\ TypeIInv /\ Aligned
    BY <1>1 DEF PacketIInv, DecoderIInv, Plain
  <1>3. InSchema /\ BeforeMessage /\ InMessage /\ InEntries /\ Len(datagram.messages) \in Nat
    BY <1>2, InStepFacts
  <1>4. /\ udp_at \in Nat /\ frame.length \in Nat
        /\ udp_at + DatagramEnd(datagram) <= frame.length
    BY <1>1, PlainPacket
  <1>5. DatagramEnd(datagram) = datagram.message_size
    BY <1>2 DEF FollowsSchema, DatagramEnd
  <1>6. /\ current_offset_ \in Nat /\ entry_nr \in Nat /\ MappingExtendsTemplates
    BY <1>2 DEF TypeIInv, DecoderTypeOK, IsGroup
  <1> QED
    BY <1>3, <1>4, <1>5, <1>6

LEMMA HeaderInside ==
  ASSUME PacketIInv, Plain(frame), decoding = "loop", MoreMessages
  PROVE  udp_at + current_offset_ + SBE_HEADER <= frame.length
  <1>1. Current \in 1 .. Len(datagram.messages) + 1 /\ current_offset_ = datagram.starts[Current]
    BY PlainInHand DEF MoreMessages, BeforeMessage
  <1>2. Current # Len(datagram.messages) + 1
    BY <1>1, PlainInHand DEF MoreMessages, DatagramEnd
  <1>3. Current \in 1 .. Len(datagram.messages)
    BY <1>1, <1>2, PlainInHand
  <1> DEFINE block == datagram.messages[Current].block_length
  <1>4. /\ DatagramEnd(datagram) \in Nat /\ block \in Nat /\ current_offset_ \in Nat
        /\ current_offset_ + 8 + block <= DatagramEnd(datagram)
    BY <1>1, <1>3, PlainInHand, RoomForMessage
  <1> HIDE DEF block
  <1>5. current_offset_ + 8 <= DatagramEnd(datagram)
    BY <1>4
  <1> QED
    BY <1>4, <1>5, PlainInHand, Fits DEF SBE_HEADER

LEMMA BlockInside ==
  ASSUME PacketIInv, Plain(frame), NEW type, MessageInHand(type)
  PROVE  /\ udp_at + current_offset_ + sbe_header_.block_length <= frame.length
         /\ type = "OrderBookSnapshotType" =>
              udp_at + current_offset_ + (sbe_header_.block_length + GROUP_SIZE) <= frame.length
  <1> DEFINE m == datagram.messages[Current]
  <1>1. decoding = "message"
    BY DEF MessageInHand, DecoderAt
  <1>2. /\ Current \in 1 .. Len(datagram.messages)
        /\ current_offset_ = datagram.starts[Current] + 8
        /\ sbe_header_.block_length = m.block_length /\ sbe_header_.template_id = m.template_id
    BY <1>1, PlainInHand DEF InMessage, MessageLeft, SBE_HEADER
  <1>3. type = "OrderBookSnapshotType" => m.template_id = 17
    BY <1>1, <1>2, PlainInHand, TypeInHand
  <1>4. /\ datagram.starts[Current] \in Nat /\ m.block_length \in Nat
        /\ DatagramEnd(datagram) \in Nat
        /\ datagram.starts[Current] + 8 + m.block_length <= DatagramEnd(datagram)
        /\ m.template_id = 17 => /\ m.block_length = 16
                                 /\ datagram.starts[Current] + 27 + 57 * Len(m.entries)
                                      <= DatagramEnd(datagram)
    BY <1>1, <1>2, PlainInHand, RoomForMessage
  <1>5. Len(m.entries) \in Nat
    BY <1>1, <1>2, PlainInHand, SchemaLengths
  <1>6. /\ udp_at \in Nat /\ frame.length \in Nat
        /\ udp_at + DatagramEnd(datagram) <= frame.length
    BY <1>1, PlainInHand
  <1> HIDE DEF m
  <1>7. /\ current_offset_ \in Nat /\ sbe_header_.block_length \in Nat
        /\ current_offset_ + sbe_header_.block_length <= DatagramEnd(datagram)
        /\ m.template_id = 17
             => current_offset_ + (sbe_header_.block_length + 3) <= DatagramEnd(datagram)
    BY <1>2, <1>4, <1>5, BlockFits
  <1>8. udp_at + current_offset_ + sbe_header_.block_length <= frame.length
    BY <1>4, <1>6, <1>7, Fits
  <1>9. m.template_id = 17
          => udp_at + current_offset_ + (sbe_header_.block_length + 3) <= frame.length
    <2> SUFFICES ASSUME m.template_id = 17
                 PROVE  udp_at + current_offset_ + (sbe_header_.block_length + 3) <= frame.length
      OBVIOUS
    <2> DEFINE b == sbe_header_.block_length + 3
    <2>1. b \in Nat /\ current_offset_ \in Nat
      BY <1>7
    <2>2. current_offset_ + b <= DatagramEnd(datagram)
      BY <1>7
    <2>3. DatagramEnd(datagram) \in Nat
      BY <1>4
    <2> HIDE DEF b
    <2>4. udp_at + current_offset_ + b <= frame.length
      BY <1>6, <2>1, <2>2, <2>3, Fits
    <2> QED
      BY <2>4 DEF b
  <1> QED
    BY <1>3, <1>8, <1>9 DEF GROUP_SIZE

LEMMA EntryInside ==
  ASSUME PacketIInv, Plain(frame), MoreEntries
  PROVE  udp_at + current_offset_ + group_size.block_size <= frame.length
  <1> DEFINE m == datagram.messages[Current]
  <1>1. decoding = "entries" /\ entry_nr < group_size.num_in_group
    BY DEF MoreEntries, DecoderAt
  <1>2. /\ Current \in 1 .. Len(datagram.messages)
        /\ m.template_id = 17
        /\ group_size.block_size = 57 /\ group_size.num_in_group = Len(m.entries)
        /\ current_offset_ = EntryStart(Current, entry_nr + 1)
    BY <1>1, PlainInHand DEF InEntries, MessageLeft, ORDER_BOOK_ENTRY
  <1>3. /\ datagram.starts[Current] \in Nat /\ m.block_length = 16
        /\ DatagramEnd(datagram) \in Nat
        /\ datagram.starts[Current] + 27 + 57 * Len(m.entries) <= DatagramEnd(datagram)
    BY <1>1, <1>2, PlainInHand, RoomForMessage
  <1>4. Len(m.entries) \in Nat /\ entry_nr \in Nat
    BY <1>1, <1>2, PlainInHand, SchemaLengths
  <1>5. current_offset_ = datagram.starts[Current] + 8 + 16 + 3 + ((entry_nr + 1) - 1) * 57
    <2>1. EntryStart(Current, entry_nr + 1)
            = datagram.starts[Current] + 8 + datagram.messages[Current].block_length + 3
              + ((entry_nr + 1) - 1) * 57
      BY Zenon DEF EntryStart, SBE_HEADER, GROUP_SIZE, ORDER_BOOK_ENTRY
    <2>2. datagram.messages[Current].block_length = 16
      BY <1>3
    <2> QED
      BY <1>2, <2>1, <2>2, Zenon
  <1>6. /\ udp_at \in Nat /\ frame.length \in Nat
        /\ udp_at + DatagramEnd(datagram) <= frame.length
    BY <1>1, PlainInHand
  <1> HIDE DEF m
  <1>7. current_offset_ \in Nat /\ current_offset_ + 57 <= DatagramEnd(datagram)
    <2> DEFINE n == Len(m.entries)
               start == datagram.starts[Current]
               end == DatagramEnd(datagram)
    <2>1. /\ start \in Nat /\ end \in Nat /\ n \in Nat /\ entry_nr \in Nat /\ entry_nr < n
          /\ start + 27 + 57 * n <= end
      BY <1>1, <1>2, <1>3, <1>4
    <2>2. current_offset_ = start + 8 + 16 + 3 + ((entry_nr + 1) - 1) * 57
      BY <1>5
    <2> HIDE DEF n, start, end
    <2>3. current_offset_ \in Nat /\ current_offset_ + 57 <= end
      BY <2>1, <2>2, EntryFits
    <2> QED
      BY <2>3 DEF end
  <1> QED
    BY <1>2, <1>3, <1>6, <1>7, Fits
-----------------------------------------------------------------------------
(***************************************************************************)
(* Places and their numbers.  Elements are found from the first packet on, *)
(* so a new place comes after all others: it gets the next number, and no  *)
(* number changes.  So do the lines and the books of the files.            *)
(***************************************************************************)
Before(q, place) == q[1] < place[1] \/ (q[1] = place[1] /\ q[2] < place[2])

UpTo(S, place) == {q \in S : q[1] < place[1] \/ (q[1] = place[1] /\ q[2] <= place[2])}

LEMMA NumberOfPlace ==
  ASSUME NEW S, S \subseteq Nat \X Nat, IsFiniteSet(S), NEW place \in S
  PROVE  Cardinality(S) \in Nat /\ Number(S, place) \in 1 .. Cardinality(S)
  <1>1. UpTo(S, place) \in SUBSET S /\ place \in UpTo(S, place)
    BY DEF UpTo
  <1>2. /\ IsFiniteSet(UpTo(S, place))
        /\ Cardinality(UpTo(S, place)) <= Cardinality(S)
    BY <1>1, FS_Subset
  <1>3. Cardinality(S) \in Nat /\ Cardinality(UpTo(S, place)) \in Nat
    BY <1>2, FS_CardinalityType
  <1>4. Cardinality(UpTo(S, place)) # 0
    BY <1>1, <1>2, FS_EmptySet
  <1> QED
    BY <1>2, <1>3, <1>4 DEF Number, UpTo

LEMMA OneMorePlace ==
  ASSUME NEW S, S \subseteq Nat \X Nat, IsFiniteSet(S),
         NEW new \in Nat \X Nat, \A q \in S : Before(q, new)
  PROVE  LET T == S \cup {new} IN
         /\ T \subseteq Nat \X Nat /\ IsFiniteSet(T)
         /\ Cardinality(T) = Cardinality(S) + 1
         /\ Number(T, new) = Cardinality(S) + 1
         /\ \A place \in S : Number(T, place) = Number(S, place)
  <1> DEFINE T == S \cup {new}
  <1>1. new \notin S
    BY DEF Before
  <1>2. IsFiniteSet(T) /\ Cardinality(T) = Cardinality(S) + 1
    BY <1>1, FS_AddElement
  <1>3. UpTo(T, new) = T
    BY DEF UpTo, Before
  <1>4. \A place \in S : UpTo(T, place) = UpTo(S, place)
    BY DEF UpTo, Before
  <1> QED
    BY <1>2, <1>3, <1>4 DEF Number, UpTo

\* A list with an element for each place keeps them, and gets that of the new place.
Lists(list, S) ==
  /\ S \subseteq Nat \X Nat /\ IsFiniteSet(S)
  /\ IsHistory(list) /\ Len(list) = Cardinality(S)

ListsOneMore(longer, T, list, S, new, x) ==
  /\ Lists(longer, T)
  /\ longer[Number(T, new)] = x
  /\ \A place \in S : longer[Number(T, place)] = list[Number(S, place)]

Extends(t, s, x) == t = Append(s, x)

LEMMA OneMoreListed ==
  ASSUME NEW S, NEW list, Lists(list, S),
         NEW new \in Nat \X Nat, \A q \in S : Before(q, new),
         NEW x, NEW longer, Extends(longer, list, x),
         NEW T, T = S \cup {new}
  PROVE  ListsOneMore(longer, T, list, S, new, x)
  <1> USE DEF Lists
  <1>1. /\ T \subseteq Nat \X Nat /\ IsFiniteSet(T)
        /\ Cardinality(T) = Cardinality(S) + 1
        /\ Number(T, new) = Cardinality(S) + 1
        /\ \A place \in S : Number(T, place) = Number(S, place)
    BY OneMorePlace
  <1>2. /\ IsHistory(longer)
        /\ Len(longer) = Len(list) + 1
        /\ \A i \in 1 .. Len(list) : longer[i] = list[i]
        /\ longer[Len(list) + 1] = x
    BY HistoryGrows DEF Extends
  <1>3. \A place \in S : Number(S, place) \in 1 .. Len(list)
    BY NumberOfPlace
  <1>4. \A place \in S : longer[Number(T, place)] = list[Number(S, place)]
    BY <1>1, <1>2, <1>3
  <1> QED
    BY <1>1, <1>2, <1>4 DEF ListsOneMore

(***************************************************************************)
(* The places of what was decoded, the datagram in hand included.          *)
(***************************************************************************)
AllFeeds == IF decoding = "idle" THEN feeds ELSE Append(feeds, decoded)

PlacesOf(fs) == UNION {{i} \X DOMAIN fs[i] : i \in DOMAIN fs}

SnapshotsOf(fs) ==
  {place \in PlacesOf(fs) : fs[place[1]][place[2]].type = "OrderBookSnapshotType"}

OrdersOf(fs) ==
  {place \in PlacesOf(fs) : fs[place[1]][place[2]].type # "OrderBookSnapshotType"}

LEMMA NothingAdded ==
  ASSUME NEW fs, IsHistory(fs)
  PROVE  LET gs == Append(fs, <<>>) IN
         /\ PlacesOf(gs) = PlacesOf(fs)
         /\ \A place \in PlacesOf(fs) : gs[place[1]][place[2]] = fs[place[1]][place[2]]
  <1> DEFINE gs == Append(fs, <<>>)
  <1>1. /\ Len(fs) \in Nat /\ DOMAIN fs = 1 .. Len(fs)
        /\ DOMAIN gs = 1 .. Len(fs) + 1
        /\ \A i \in 1 .. Len(fs) : gs[i] = fs[i]
        /\ gs[Len(fs) + 1] = <<>>
    BY HistoryGrows
  <1> HIDE DEF gs
  <1>2. ASSUME NEW place
        PROVE  place \in PlacesOf(gs) <=> place \in PlacesOf(fs)
    <2>1. place \in PlacesOf(gs) <=> \E i \in 1 .. Len(fs) + 1 : place \in {i} \X DOMAIN gs[i]
      BY <1>1 DEF PlacesOf
    <2>2. place \in PlacesOf(fs) <=> \E i \in 1 .. Len(fs) : place \in {i} \X DOMAIN fs[i]
      BY <1>1 DEF PlacesOf
    <2>3. DOMAIN gs[Len(fs) + 1] = {}
      BY <1>1
    <2> QED
      BY <1>1, <2>1, <2>2, <2>3
  <1>3. \A place \in PlacesOf(fs) : place[1] \in 1 .. Len(fs)
    BY <1>1 DEF PlacesOf
  <1> QED
    BY <1>1, <1>2, <1>3 DEF gs

HasNewPlace(gs, hs, new, x) ==
  /\ new \in Nat \X Nat
  /\ PlacesOf(hs) = PlacesOf(gs) \cup {new}
  /\ hs[new[1]][new[2]] = x
  /\ \A place \in PlacesOf(gs) :
       /\ Before(place, new)
       /\ hs[place[1]][place[2]] = gs[place[1]][place[2]]

LEMMA ItemAdded ==
  ASSUME NEW fs, IsHistory(fs), NEW items, IsHistory(items), NEW x,
         NEW gs, Extends(gs, fs, items),
         NEW longer, Extends(longer, items, x),
         NEW hs, Extends(hs, fs, longer),
         NEW new, new = <<Len(fs) + 1, Len(items) + 1>>
  PROVE  HasNewPlace(gs, hs, new, x)
  <1> DEFINE n == Len(fs)
             k == Len(items)
  <1>1. /\ n \in Nat /\ DOMAIN gs = 1 .. n + 1
        /\ \A i \in 1 .. n : gs[i] = fs[i]
        /\ gs[n + 1] = items
    BY HistoryGrows DEF Extends
  <1>2. /\ DOMAIN hs = 1 .. n + 1
        /\ \A i \in 1 .. n : hs[i] = fs[i]
        /\ hs[n + 1] = longer
    BY HistoryGrows DEF Extends
  <1>3. /\ k \in Nat /\ DOMAIN items = 1 .. k /\ DOMAIN longer = 1 .. k + 1
        /\ \A j \in 1 .. k : longer[j] = items[j]
        /\ longer[k + 1] = x
    BY HistoryGrows DEF Extends
  <1>4. /\ 1 .. n + 1 = (1 .. n) \cup {n + 1} /\ n + 1 \notin 1 .. n
        /\ 1 .. k + 1 = (1 .. k) \cup {k + 1}
    BY <1>1, <1>3
  <1>10. new = <<n + 1, k + 1>>
    OBVIOUS
  <1> HIDE DEF n, k
  <1>5. PlacesOf(gs) = (UNION {{i} \X DOMAIN fs[i] : i \in 1 .. n}) \cup ({n + 1} \X (1 .. k))
    BY <1>1, <1>3, <1>4 DEF PlacesOf
  <1>6. PlacesOf(hs) = (UNION {{i} \X DOMAIN fs[i] : i \in 1 .. n}) \cup ({n + 1} \X (1 .. k + 1))
    BY <1>2, <1>3, <1>4 DEF PlacesOf
  <1>7. PlacesOf(hs) = PlacesOf(gs) \cup {new}
    BY <1>4, <1>5, <1>6, <1>10
  <1>8. ASSUME NEW place \in PlacesOf(gs)
        PROVE  /\ Before(place, new)
               /\ hs[place[1]][place[2]] = gs[place[1]][place[2]]
    <2>1. CASE place \in {n + 1} \X (1 .. k)
      BY <1>1, <1>2, <1>3, <1>10, <2>1 DEF Before
    <2>2. CASE place \in UNION {{i} \X DOMAIN fs[i] : i \in 1 .. n}
      <3>1. place[1] \in 1 .. n
        BY <2>2
      <3> QED
        BY <1>1, <1>2, <1>10, <3>1 DEF Before
    <2> QED
      BY <1>5, <2>1, <2>2
  <1>9. hs[new[1]][new[2]] = x /\ new \in Nat \X Nat
    BY <1>1, <1>2, <1>3, <1>10
  <1> QED
    BY <1>7, <1>8, <1>9 DEF n, k, HasNewPlace

\* The packet of each place, the one in hand included.
AllArrived == IF decoding = "idle" THEN arrived ELSE Append(arrived, frame)

NewPlace == <<Len(feeds) + 1, Len(decoded) + 1>>

KeepsElements ==
  \A place \in PlacesOf(AllFeeds) :
    /\ AllFeeds'[place[1]][place[2]] = AllFeeds[place[1]][place[2]]
    /\ AllArrived'[place[1]] = AllArrived[place[1]]

AddsNothing ==
  /\ PlacesOf(AllFeeds') = PlacesOf(AllFeeds)
  /\ KeepsElements
  /\ UNCHANGED <<csv, books>>

Adds(item) ==
  /\ Decode /\ decoded' = Append(decoded, item)
  /\ NewPlace \in Nat \X Nat
  /\ PlacesOf(AllFeeds') = PlacesOf(AllFeeds) \cup {NewPlace}
  /\ KeepsElements
  /\ \A place \in PlacesOf(AllFeeds) : Before(place, NewPlace)
  /\ AllFeeds'[NewPlace[1]][NewPlace[2]] = item

LEMMA DecodedGrows ==
  ASSUME DecodeStep
  PROVE  \/ decoded' = decoded
         \/ \E item : decoded' = Append(decoded, item) /\ decoding' = "loop"
  BY DEF DecodeStep, ReadSBEHeader, HandleOrderUpdate, HandleOrderExecution, Handle, LineThrows,
    BlockTooLong, SnapshotHeader, SnapshotEntry, EntryThrows, EntryTooLong, SnapshotDone,
    SkipMessage, DatagramDone, DecodingEnds

LEMMA AllAreHistories ==
  ASSUME PacketIInv
  PROVE  /\ IsHistory(decoded) /\ IsHistory(feeds) /\ IsHistory(arrived)
         /\ IsHistory(AllFeeds) /\ IsHistory(AllArrived)
         /\ Len(feeds) \in Nat /\ Len(arrived) = Len(feeds) /\ Len(decoded) \in Nat
         /\ decoding # "idle" => AllFeeds = Append(feeds, decoded) /\ AllArrived = Append(arrived, frame)
         /\ decoding = "idle" => AllFeeds = feeds /\ AllArrived = arrived
         /\ \A place \in PlacesOf(feeds) : place[1] \in 1 .. Len(feeds)
         /\ \A place \in PlacesOf(AllFeeds) :
              /\ place[1] \in 1 .. Len(feeds) + 1
              /\ decoding = "idle" => place[1] \in 1 .. Len(feeds)
  <1>1. IsHistory(decoded) /\ IsHistory(feeds) /\ IsHistory(arrived) /\ Len(arrived) = Len(feeds)
    BY DEF PacketIInv, Histories, DecoderIInv, TypeIInv, IsHistory
  <1>2. /\ IsHistory(Append(feeds, decoded)) /\ IsHistory(Append(arrived, frame))
        /\ Len(feeds) \in Nat /\ Len(decoded) \in Nat
        /\ DOMAIN feeds = 1 .. Len(feeds)
        /\ DOMAIN Append(feeds, decoded) = 1 .. Len(feeds) + 1
    BY <1>1, HistoryGrows
  <1>3. /\ decoding # "idle" => AllFeeds = Append(feeds, decoded) /\ AllArrived = Append(arrived, frame)
        /\ decoding = "idle" => AllFeeds = feeds /\ AllArrived = arrived
    BY DEF AllFeeds, AllArrived
  <1>4. \A fs, n : DOMAIN fs = 1 .. n => \A place \in PlacesOf(fs) : place[1] \in 1 .. n
    BY DEF PlacesOf
  <1>5. \A place \in PlacesOf(feeds) : place[1] \in 1 .. Len(feeds)
    BY <1>2, <1>4
  <1>6. \A place \in PlacesOf(Append(feeds, decoded)) : place[1] \in 1 .. Len(feeds) + 1
    BY <1>2, <1>4
  <1>7. \A i \in 1 .. Len(feeds) : i \in 1 .. Len(feeds) + 1
    BY <1>2
  <1> QED
    BY <1>1, <1>2, <1>3, <1>5, <1>6, <1>7

LEMMA FeedStep ==
  ASSUME PacketIInv, PacketIInv', [PacketNext]_packetVars
  PROVE  AddsNothing \/ \E item : Adds(item)
  <1>1. ASSUME decoding = "idle", AllFeeds' = Append(feeds, <<>>),
               UNCHANGED <<csv, books>>,
               AllArrived' = arrived \/ \E f : AllArrived' = Append(arrived, f)
        PROVE  AddsNothing
    <2>1. /\ AllFeeds = feeds /\ AllArrived = arrived /\ IsHistory(feeds) /\ IsHistory(arrived)
          /\ \A place \in PlacesOf(feeds) : place[1] \in 1 .. Len(arrived)
      BY <1>1, AllAreHistories
    <2>2. \A i \in 1 .. Len(arrived) : AllArrived'[i] = arrived[i]
      BY <1>1, <2>1, HistoryGrows
    <2> QED
      BY <1>1, <2>1, <2>2, NothingAdded DEF AddsNothing, KeepsElements
  <1>2. ASSUME NEW f \in Frames, SkipPacket(f)
        PROVE  AddsNothing
    <2>1. /\ decoding = "idle" /\ decoding' = "idle" /\ UNCHANGED <<csv, books>>
          /\ feeds' = Append(feeds, <<>>) /\ arrived' = Append(arrived, f)
      BY <1>2 DEF SkipPacket, DecoderAt, vars, fileVars
    <2> QED
      BY <1>1, <2>1 DEF AllFeeds, AllArrived
  <1>3. ASSUME NEW f \in Frames, HandOver(f)
        PROVE  AddsNothing
    <2>1. /\ decoding = "idle" /\ decoding' = "loop" /\ UNCHANGED <<csv, books, arrived, feeds>>
          /\ decoded' = <<>>
      BY <1>3 DEF HandOver, Receive, DecoderAt, fileVars, feedVars
    <2> QED
      BY <1>1, <2>1 DEF AllFeeds, AllArrived
  <1>4. ASSUME Decode, decoded' = decoded
        PROVE  AddsNothing
    <2>1. decoding # "idle" /\ frame' = frame
      BY <1>4, DecodingKeeps DEF Decode
    <2>2. IF decoding' = "idle" THEN feeds' = Append(feeds, decoded) /\ arrived' = Append(arrived, frame)
                                ELSE feeds' = feeds /\ arrived' = arrived
      BY <1>4 DEF Decode, feedVars
    <2>3. AllFeeds' = AllFeeds /\ AllArrived' = AllArrived
      BY <1>4, <2>1, <2>2 DEF AllFeeds, AllArrived
    <2>4. ~Decodes
      <3>1. Len(decoded) \in Nat
        BY AllAreHistories
      <3> QED
        BY <1>4, <3>1 DEF Decodes
    <2>5. UNCHANGED <<csv, books>>
      BY <1>4, <2>4 DEF Decode, WriteLine, WriteBook
    <2> QED
      BY <2>3, <2>5 DEF AddsNothing, KeepsElements
  <1>5. ASSUME Decode, NEW item, decoded' = Append(decoded, item), decoding' = "loop"
        PROVE  Adds(item)
    <2>1. decoding # "idle" /\ UNCHANGED <<frame, arrived, feeds>>
      BY <1>5, DecodingKeeps DEF Decode, feedVars
    <2>2. /\ AllFeeds = Append(feeds, decoded) /\ AllArrived = Append(arrived, frame)
          /\ AllFeeds' = Append(feeds, Append(decoded, item)) /\ AllArrived' = AllArrived
      BY <1>5, <2>1 DEF AllFeeds, AllArrived
    <2>3. IsHistory(feeds) /\ IsHistory(decoded)
      BY AllAreHistories
    <2>4. /\ NewPlace \in Nat \X Nat
          /\ PlacesOf(AllFeeds') = PlacesOf(AllFeeds) \cup {NewPlace}
          /\ AllFeeds'[NewPlace[1]][NewPlace[2]] = item
          /\ \A place \in PlacesOf(AllFeeds) :
               /\ Before(place, NewPlace)
               /\ AllFeeds'[place[1]][place[2]] = AllFeeds[place[1]][place[2]]
      <3>1. /\ NewPlace = <<Len(feeds) + 1, Len(decoded) + 1>>
            /\ Extends(AllFeeds, feeds, decoded)
            /\ Extends(decoded', decoded, item)
            /\ Extends(AllFeeds', feeds, decoded')
        BY <1>5, <2>2 DEF NewPlace, Extends
      <3> QED
        <4>1. HasNewPlace(AllFeeds, AllFeeds', NewPlace, item)
          BY <2>3, <3>1, ItemAdded
        <4> QED
          BY <4>1 DEF HasNewPlace
    <2> QED
      BY <1>5, <2>2, <2>4 DEF Adds, KeepsElements
  <1>6. CASE UNCHANGED packetVars
    <2>1. AllFeeds' = AllFeeds /\ AllArrived' = AllArrived /\ UNCHANGED <<csv, books>>
      BY <1>6 DEF packetVars, vars, feedVars, fileVars, AllFeeds, AllArrived
    <2> QED
      BY <2>1 DEF AddsNothing, KeepsElements
  <1>7. ASSUME Decode
        PROVE  AddsNothing \/ \E item : Adds(item)
    BY <1>4, <1>5, <1>7, DecodedGrows DEF Decode
  <1> QED
    BY <1>2, <1>3, <1>6, <1>7 DEF PacketNext, Process

(***************************************************************************)
(* The books of --out-book.                                                *)
(***************************************************************************)
PlacesIInv == PlacesOf(AllFeeds) \subseteq Nat \X Nat /\ IsFiniteSet(PlacesOf(AllFeeds))

ShowsBook(book, item) == ShowsSide(book.asks, item.asks) /\ ShowsSide(book.bids, item.bids)

BooksIInv ==
  IF "book" \in handlers
  THEN /\ IsHistory(books)
       /\ Len(books) = Cardinality(SnapshotsOf(AllFeeds))
       /\ \A place \in SnapshotsOf(AllFeeds) :
            ShowsBook(books[Number(SnapshotsOf(AllFeeds), place)], AllFeeds[place[1]][place[2]])
  ELSE books = <<>>

LEMMA PlacesKept ==
  ASSUME PlacesIInv, PacketIInv, PacketIInv', [PacketNext]_packetVars
  PROVE  PlacesIInv'
  <1>1. CASE AddsNothing
    BY <1>1 DEF AddsNothing, PlacesIInv
  <1>2. ASSUME NEW item, Adds(item)
        PROVE  PlacesIInv'
    <2>1. PlacesOf(AllFeeds') = PlacesOf(AllFeeds) \cup {NewPlace} /\ NewPlace \in Nat \X Nat
      BY <1>2 DEF Adds
    <2>2. IsFiniteSet(PlacesOf(AllFeeds'))
      BY <2>1, FS_AddElement DEF PlacesIInv
    <2> QED
      BY <2>1, <2>2 DEF PlacesIInv
  <1> QED
    BY <1>1, <1>2, FeedStep

\* The rows of entries that descend show them.
LEMMA RowsShowSide ==
  ASSUME NEW es, Descends(es)
  PROVE  ShowsSide(Rows(es), ToSet(es))
  <1>1. /\ DOMAIN Rows(es) = DOMAIN es
        /\ \A i \in DOMAIN es : Rows(es)[i] = <<es[i].order_price, es[i].order_volume>>
    BY DEF Rows
  <1>2. \A i, j \in DOMAIN es : i < j => Rows(es)[i][1] > Rows(es)[j][1]
    BY <1>1 DEF Descends
  <1>3. {Rows(es)[i] : i \in DOMAIN es} = {<<e.order_price, e.order_volume>> : e \in ToSet(es)}
    <2>1. {Rows(es)[i] : i \in DOMAIN es}
            = {<<es[i].order_price, es[i].order_volume>> : i \in DOMAIN es}
      BY <1>1
    <2>2. {<<e.order_price, e.order_volume>> : e \in {es[i] : i \in DOMAIN es}}
            = {<<es[i].order_price, es[i].order_volume>> : i \in DOMAIN es}
      BY Zenon
    <2> QED
      BY <2>1, <2>2 DEF ToSet
  <1> QED
    BY <1>1, <1>2, <1>3 DEF ShowsSide

LEMMA ReverseHasSame ==
  ASSUME NEW S, NEW s \in Seq(S)
  PROVE  ToSet(Reverse(s)) = ToSet(s)
  <1> DEFINE n == Len(s)
             r == Reverse(s)
  <1>1. n \in Nat /\ DOMAIN s = 1 .. n
    OBVIOUS
  <1>2. DOMAIN r = 1 .. n /\ \A i \in 1 .. n : r[i] = s[(n - i) + 1]
    BY DEF Reverse
  <1> HIDE DEF n, r
  <1>3. \A i \in 1 .. n : (n - i) + 1 \in 1 .. n /\ (n - ((n - i) + 1)) + 1 = i
    BY <1>1
  <1>4. \A i \in 1 .. n : r[i] \in ToSet(s)
    BY <1>1, <1>2, <1>3 DEF ToSet
  <1>5. \A i \in 1 .. n : s[i] \in ToSet(r)
    <2>1. \A i \in 1 .. n : r[(n - i) + 1] = s[i]
      BY <1>2, <1>3
    <2> QED
      BY <1>2, <1>3, <2>1 DEF ToSet
  <1>6. ToSet(r) = ToSet(s)
    BY <1>1, <1>2, <1>4, <1>5 DEF ToSet
  <1> QED
    BY <1>6 DEF r

\* The text of the book in hand shows the entries in its maps.
LEMMA TextShowsBook ==
  ASSUME BookIInv
  PROVE  /\ ShowsSide(BookText.asks, ToSet(ask_book_))
         /\ ShowsSide(BookText.bids, ToSet(bid_book_))
  <1>1. Descends(AskRows) /\ Descends(BidRows)
    BY BookIInvDescends DEF BestPricesMeet
  <1>2. ask_book_ \in Seq(PlacedOn("Offer"))
    BY DEF BookIInv, BookTypeOK
  <1>3. ToSet(AskRows) = ToSet(ask_book_) /\ ToSet(BidRows) = ToSet(bid_book_)
    BY <1>2, ReverseHasSame DEF AskRows, BidRows
  <1>4. BookText.asks = Rows(AskRows) /\ BookText.bids = Rows(BidRows)
    BY DEF BookText
  <1> QED
    BY <1>1, <1>3, <1>4, RowsShowSide

\* What Decode writes when an item is added.
LEMMA WritesOfItem ==
  ASSUME PacketIInv, NEW item, Adds(item)
  PROVE  /\ Last(decoded') = item
         /\ UNCHANGED handlers
         /\ item.type # "OrderBookSnapshotType" =>
              /\ Decodes <=> "orders" \in handlers
              /\ \/ HandleOrderUpdate /\ item.type = "OrderUpdateType"
                 \/ HandleOrderExecution /\ item.type = "OrderExecutionType"
         /\ item.type = "OrderBookSnapshotType" =>
              /\ Decodes <=> "book" \in handlers
              /\ item.bids = ToSet(bid_book_) /\ item.asks = ToSet(ask_book_)
  <1>1. decoded' = Append(decoded, item) /\ DecodeStep
    BY DEF Adds, Decode
  <1>2. IsHistory(decoded)
    BY AllAreHistories
  <1>3. /\ Len(decoded) \in Nat /\ Len(decoded') = Len(decoded) + 1
        /\ decoded'[Len(decoded) + 1] = item
    BY <1>1, <1>2, HistoryGrows
  <1>4. Last(decoded') = item
    BY <1>3 DEF Last
  <1>5. SnapshotDone \/ HandleOrderUpdate \/ HandleOrderExecution
    <2>1. decoded' # decoded
      BY <1>3
    <2> QED
      BY <1>1, <2>1 DEF DecodeStep, ReadSBEHeader, LineThrows, BlockTooLong, SnapshotHeader,
        SnapshotEntry, EntryThrows, EntryTooLong, SkipMessage, DatagramDone, DecodingEnds
  <1>6. ASSUME NEW x, decoded' = Append(decoded, x)
        PROVE  x = item
    BY <1>2, <1>3, <1>6, HistoryGrows
  <1>7. ASSUME NEW given, item.given = (given \in handlers)
        PROVE  Decodes <=> given \in handlers
    <2>1. CASE given \in handlers
      <3>1. item.given = TRUE
        BY <1>7, <2>1
      <3> QED
        BY <1>3, <1>4, <2>1, <3>1 DEF Decodes
    <2>2. CASE given \notin handlers
      <3>1. ~item.given
        BY <1>7, <2>2
      <3> QED
        BY <1>3, <1>4, <2>2, <3>1 DEF Decodes
    <2> QED
      BY <2>1, <2>2
  <1>8. CASE SnapshotDone
    <2>1. item = Item("OrderBookSnapshotType", SnapshotStart, sbe_header_.block_length,
                      "book" \in handlers, ToSet(bid_book_), ToSet(ask_book_))
      BY <1>6, <1>8 DEF SnapshotDone
    <2>2. /\ item.type = "OrderBookSnapshotType" /\ item.given = ("book" \in handlers)
          /\ item.bids = ToSet(bid_book_) /\ item.asks = ToSet(ask_book_)
      BY <2>1 DEF Item
    <2>3. Decodes <=> "book" \in handlers
      BY <1>7, <2>2
    <2> QED
      BY <1>4, <1>8, <2>2, <2>3 DEF SnapshotDone
  <1>9. ASSUME NEW type, NEW size, Handle(type, size)
        PROVE  /\ item.type = type /\ UNCHANGED handlers
               /\ Decodes <=> "orders" \in handlers
    <2>1. item = Item(type, current_offset_, sbe_header_.block_length, "orders" \in handlers,
                      {}, {})
      BY <1>6, <1>9 DEF Handle
    <2>2. item.type = type /\ item.given = ("orders" \in handlers)
      BY <2>1 DEF Item
    <2>3. Decodes <=> "orders" \in handlers
      BY <1>7, <2>2
    <2> QED
      BY <1>9, <2>2, <2>3 DEF Handle
  <1>10. CASE HandleOrderUpdate
    BY <1>4, <1>9, <1>10 DEF HandleOrderUpdate
  <1>11. CASE HandleOrderExecution
    BY <1>4, <1>9, <1>11 DEF HandleOrderExecution
  <1> QED
    BY <1>5, <1>8, <1>10, <1>11

LEMMA BooksKept ==
  ASSUME BooksIInv, PlacesIInv, PacketIInv, PacketIInv', [PacketNext]_packetVars
  PROVE  BooksIInv'
  <1>1. handlers' = handlers
    BY HandlersKept
  <1> DEFINE S == SnapshotsOf(AllFeeds)
             T == SnapshotsOf(AllFeeds')
  <1>2. S \subseteq PlacesOf(AllFeeds)
    BY DEF SnapshotsOf
  <1>3. S \subseteq Nat \X Nat /\ IsFiniteSet(S)
    BY <1>2, FS_Subset DEF PlacesIInv
  <1>4. ASSUME T = S, books' = books, KeepsElements
        PROVE  BooksIInv'
    BY <1>1, <1>2, <1>4 DEF BooksIInv, KeepsElements
  <1>5. CASE AddsNothing
    <2>1. T = S
      BY <1>5 DEF AddsNothing, KeepsElements, SnapshotsOf
    <2> QED
      BY <1>4, <1>5, <2>1 DEF AddsNothing
  <1>6. ASSUME NEW item, Adds(item)
        PROVE  BooksIInv'
    <2>1. /\ NewPlace \in Nat \X Nat
          /\ PlacesOf(AllFeeds') = PlacesOf(AllFeeds) \cup {NewPlace}
          /\ KeepsElements
          /\ \A place \in PlacesOf(AllFeeds) : Before(place, NewPlace)
          /\ AllFeeds'[NewPlace[1]][NewPlace[2]] = item
          /\ WriteBook
      BY <1>6 DEF Adds, Decode
    <2>2. T = S \cup (IF item.type = "OrderBookSnapshotType" THEN {NewPlace} ELSE {})
      BY <2>1 DEF KeepsElements, SnapshotsOf
    <2>3. CASE item.type # "OrderBookSnapshotType"
      <3>1. books' = books
        BY <1>6, <2>1, <2>3, WritesOfItem DEF WriteBook
      <3> QED
        BY <1>4, <2>1, <2>2, <2>3, <3>1
    <2>4. CASE item.type = "OrderBookSnapshotType" /\ "book" \notin handlers
      <3>1. books' = books
        BY <1>6, <2>1, <2>4, WritesOfItem DEF WriteBook
      <3> QED
        BY <1>1, <2>4, <3>1 DEF BooksIInv
    <2>5. CASE item.type = "OrderBookSnapshotType" /\ "book" \in handlers
      <3>1. /\ books' = Append(books, BookText)
            /\ item.bids = ToSet(bid_book_) /\ item.asks = ToSet(ask_book_)
        BY <1>6, <2>1, <2>5, WritesOfItem DEF WriteBook
      <3>2. ShowsBook(BookText, item)
        <4>1. BookIInv
          BY DEF PacketIInv, DecoderIInv, TypeIInv
        <4> QED
          BY <3>1, <4>1, TextShowsBook DEF ShowsBook
      <3>3. /\ IsHistory(books) /\ Len(books) = Cardinality(S)
            /\ \A place \in S : ShowsBook(books[Number(S, place)], AllFeeds[place[1]][place[2]])
        BY <2>5 DEF BooksIInv
      <3>4. \A place \in S : Before(place, NewPlace)
        BY <1>2, <2>1
      <3>5. T = S \cup {NewPlace}
        BY <2>2, <2>5
      <3> HIDE DEF S, T
      <3>6. ListsOneMore(books', T, books, S, NewPlace, BookText)
        <4>1. Lists(books, S) /\ Extends(books', books, BookText)
          BY <1>3, <3>1, <3>3 DEF Lists, Extends
        <4> QED
          BY <2>1, <3>4, <3>5, <4>1, OneMoreListed
      <3>7. ASSUME NEW place \in T
            PROVE  ShowsBook(books'[Number(T, place)], AllFeeds'[place[1]][place[2]])
        <4>1. CASE place \in S
          <5>1. AllFeeds'[place[1]][place[2]] = AllFeeds[place[1]][place[2]]
            BY <1>2, <2>1, <4>1 DEF KeepsElements
          <5> QED
            BY <3>3, <3>6, <4>1, <5>1 DEF ListsOneMore
        <4>2. CASE place = NewPlace
          BY <2>1, <3>2, <3>6, <4>2 DEF ListsOneMore
        <4> QED
          BY <3>5, <4>1, <4>2
      <3> QED
        <4>1. /\ IsHistory(books') /\ Len(books') = Cardinality(T)
          BY <3>6 DEF ListsOneMore, Lists
        <4>2. "book" \in handlers'
          BY <1>1, <2>5
        <4> QED
          BY <3>7, <4>1, <4>2 DEF BooksIInv, T
    <2> QED
      BY <2>3, <2>4, <2>5
  <1> QED
    BY <1>5, <1>6, FeedStep

(***************************************************************************)
(* The unit of the sixth digit.  SixthDigit is defined by recursion: that  *)
(* there is such a function is proved with the least number for which      *)
(* there would be none.                                                    *)
(***************************************************************************)
UnitStep(g, n) == IF n < 1000000 THEN 1 ELSE 10 * g[n \div 10]

Solves(g, n) == \A m \in 0 .. n : g[m] = UnitStep(g, m)

LEMMA TenthIsSmaller ==
  ASSUME NEW n \in Nat, n >= 1000000
  PROVE  n \div 10 \in Nat /\ n \div 10 < n
  OBVIOUS

LEMMA SolutionExists ==
  ASSUME NEW n \in Nat
  PROVE  \E g : Solves(g, n)
  <1> DEFINE T == {k \in Nat : ~\E g : Solves(g, k)}
  <1>1. ASSUME T # {}
        PROVE  FALSE
    <2>1. PICK k \in T : \A m \in Nat : m < k => m \notin T
      BY <1>1, LeastOne
    <2>2. CASE k = 0
      <3> DEFINE g == [m \in {0} |-> 1]
      <3>1. Solves(g, 0)
        BY DEF Solves, UnitStep
      <3> HIDE DEF g
      <3> QED
        BY <2>1, <2>2, <3>1
    <2>3. CASE k > 0
      <3>1. k - 1 \in Nat /\ k - 1 < k /\ k \in Nat
        BY <2>3
      <3>2. PICK g : Solves(g, k - 1)
        BY <2>1, <3>1
      <3> DEFINE h == [m \in 0 .. k |-> IF m = k THEN UnitStep(g, k) ELSE g[m]]
      <3>3. ASSUME NEW m \in 0 .. k
            PROVE  h[m] = UnitStep(h, m)
        <4>1. m \in Nat /\ m <= k /\ (m # k => m \in 0 .. k - 1)
          BY <3>1
        <4>2. h[m] = UnitStep(g, m)
          BY <3>2, <4>1 DEF Solves
        <4>3. m >= 1000000 => m \div 10 \in 0 .. k - 1
          BY <3>1, <4>1, TenthIsSmaller
        <4>4. m >= 1000000 => h[m \div 10] = g[m \div 10]
          BY <3>1, <4>3
        <4> HIDE DEF h
        <4> QED
          BY <4>1, <4>2, <4>4 DEF UnitStep
      <3> HIDE DEF h
      <3>4. Solves(h, k)
        BY <3>3 DEF Solves
      <3> QED
        BY <2>1, <3>4
    <2> QED
      BY <2>2, <2>3
  <1> QED
    BY <1>1

LEMMA SolutionUnique ==
  ASSUME NEW n \in Nat, NEW k \in Nat, NEW g, NEW h, Solves(g, n), Solves(h, k),
         NEW m \in Nat, m <= n, m <= k
  PROVE  g[m] = h[m]
  <1> DEFINE T == {i \in Nat : i <= n /\ i <= k /\ g[i] # h[i]}
  <1>1. ASSUME T # {}
        PROVE  FALSE
    <2>1. PICK i \in T : \A j \in Nat : j < i => j \notin T
      <3>1. T \subseteq Nat
        OBVIOUS
      <3> HIDE DEF T
      <3> QED
        BY <1>1, <3>1, LeastOne
    <2>2. i \in Nat /\ i \in 0 .. n /\ i \in 0 .. k
      OBVIOUS
    <2>3. g[i] = UnitStep(g, i) /\ h[i] = UnitStep(h, i)
      BY <2>2 DEF Solves
    <2>4. i >= 1000000 => g[i \div 10] = h[i \div 10]
      BY <2>1, <2>2, TenthIsSmaller
    <2>5. g[i] = h[i]
      BY <2>2, <2>3, <2>4 DEF UnitStep
    <2> QED
      BY <2>5
  <1> QED
    BY <1>1

LEMMA SixthDigitIs ==
  \A n \in Nat : SixthDigit[n] = UnitStep(SixthDigit, n)
  <1> DEFINE G(n) == CHOOSE g : Solves(g, n)
             f == [n \in Nat |-> G(n)[n]]
  <1>1. \A n \in Nat : Solves(G(n), n)
    BY SolutionExists
  <1> HIDE DEF G
  <1>2. ASSUME NEW n \in Nat
        PROVE  f[n] = UnitStep(f, n)
    <2>1. G(n)[n] = UnitStep(G(n), n)
      BY <1>1 DEF Solves
    <2>2. n >= 1000000 => G(n)[n \div 10] = G(n \div 10)[n \div 10]
      <3>1. SUFFICES ASSUME n >= 1000000
                     PROVE  G(n)[n \div 10] = G(n \div 10)[n \div 10]
        OBVIOUS
      <3> DEFINE m == n \div 10
      <3>2. m \in Nat /\ m <= n /\ m <= m
        BY <3>1, TenthIsSmaller
      <3> HIDE DEF m
      <3>3. G(n)[m] = G(m)[m]
        BY <1>1, <3>2, SolutionUnique
      <3> QED
        BY <3>3 DEF m
    <2>3. n >= 1000000 => n \div 10 \in Nat
      OBVIOUS
    <2> QED
      BY <2>1, <2>2, <2>3 DEF UnitStep
  <1>3. f = [n \in Nat |-> IF n < 1000000 THEN 1 ELSE 10 * f[n \div 10]]
    <2>1. \A n \in Nat : f[n] = IF n < 1000000 THEN 1 ELSE 10 * f[n \div 10]
      BY <1>2 DEF UnitStep
    <2>2. f = [n \in Nat |-> f[n]]
      OBVIOUS
    <2> HIDE DEF f
    <2> QED
      BY <2>1, <2>2
  <1> HIDE DEF f
  <1>4. SixthDigit = [n \in Nat |-> IF n < 1000000 THEN 1 ELSE 10 * SixthDigit[n \div 10]]
    BY <1>3 DEF SixthDigit
  <1> QED
    BY <1>4 DEF UnitStep

LEMMA SixthDigitIsPositive ==
  ASSUME NEW n \in Nat
  PROVE  SixthDigit[n] \in Nat \ {0}
  <1> DEFINE T == {k \in Nat : SixthDigit[k] \notin Nat \ {0}}
  <1>1. ASSUME T # {}
        PROVE  FALSE
    <2>1. PICK k \in T : \A m \in Nat : m < k => m \notin T
      BY <1>1, LeastOne
    <2>2. SixthDigit[k] = UnitStep(SixthDigit, k)
      BY SixthDigitIs
    <2>3. k >= 1000000 => SixthDigit[k \div 10] \in Nat \ {0}
      BY <2>1, TenthIsSmaller
    <2> QED
      BY <2>2, <2>3 DEF UnitStep
  <1> QED
    BY <1>1
(***************************************************************************)
(* The texts of prices, and the lines of --out-orders-csv.                 *)
(***************************************************************************)
LEMMA MultipleOf ==
  ASSUME NEW q \in Int, NEW u \in Nat \ {0}
  PROVE  (q * u) % u = 0
  <1> DEFINE x == q * u
  <1>1. x \in Int
    OBVIOUS
  <1>2. x = u * (x \div u) + (x % u) /\ x \div u \in Int /\ x % u \in 0 .. u - 1
    <2> HIDE DEF x
    <2> QED
      BY <1>1
  <1> DEFINE k == q - x \div u
  <1>3. k \in Int /\ x % u = k * u
    <2>1. \A a, b, c, d \in Int : a = b * c /\ a = b * d + (x % u) => (x % u) = (c - d) * b
      BY <1>2
    <2> QED
      BY <1>2, <2>1
  <1>4. k = 0
    <2> HIDE DEF k
    <2>1. k >= 1 => k * u >= u
      BY <1>3
    <2>2. k <= -1 => k * u <= -u
      BY <1>3
    <2> QED
      BY <1>2, <1>3, <2>1, <2>2
  <1> QED
    BY <1>3, <1>4

LEMMA Nearest ==
  ASSUME NEW p \in Int, NEW t \in Int, NEW u \in Nat \ {0}, 2 * AbsOf(p - t) <= u
  PROVE  \A d \in {-1, 1} : AbsOf(p - t) <= AbsOf(p - (t + d * u))
  BY DEF AbsOf

LEMMA TextShowsPrice ==
  ASSUME NEW p \in Int, NEW text \in PriceTexts(p)
  PROVE ShowsPrice(text, p)
  <1> DEFINE u == SixthDigit[AbsOf(p)]
             q == p \div u
  <1>1. u \in Nat \ {0}
    BY SixthDigitIsPositive DEF AbsOf
  <1>2. PICK t \in {q * u, (q + 1) * u} : 2 * AbsOf(p - t) <= u /\ text = <<t>>
    BY DEF PriceTexts
  <1>3. q \in Int
    <2> HIDE DEF u
    <2> QED
      BY <1>1
  <1> HIDE DEF u, q
  <1>4. t \in Int /\ t % u = 0
    <2>1. q + 1 \in Int /\ q * u \in Int /\ (q + 1) * u \in Int
      BY <1>1, <1>3
    <2> QED
      BY <1>1, <1>2, <1>3, <2>1, MultipleOf
  <1>5. \A d \in {-1, 1} : AbsOf(p - t) <= AbsOf(p - (t + d * u))
    BY <1>1, <1>2, <1>4, Nearest
  <1>6. Len(text) = 1 /\ text[1] = t
    BY <1>2
  <1> QED
    BY <1>4, <1>5, <1>6 DEF ShowsPrice, u

LEMMA LineShowsOrder ==
  ASSUME NEW m, IsOrder(m.order), NEW type, NEW line \in CsvLines(type, m.order),
         \/ type = "OrderUpdateType" /\ m.template_id = 15
         \/ type = "OrderExecutionType" /\ m.template_id = 16
  PROVE  ShowsOrder(line, m)
  <1>1. /\ line.label = IF m.template_id = 15 THEN "ORDER_UPDATE" ELSE "ORDER_EXECUTION"
        /\ line.order_price \in OrderPriceTexts(m.order.order_price)
        /\ m.template_id = 16 => line.trade_price \in PriceTexts(m.order.trade_price)
    BY DEF CsvLines
  <1>2. CASE m.order.order_price = NULL_VALUE
    <2>1. line.order_price = <<>>
      BY <1>1, <1>2 DEF OrderPriceTexts
    <2> QED
      BY <1>1, <1>2, <2>1, TextShowsPrice DEF ShowsOrder, IsOrder
  <1>3. CASE m.order.order_price # NULL_VALUE
    <2>1. ShowsPrice(line.order_price, m.order.order_price)
      BY <1>1, <1>3, TextShowsPrice DEF OrderPriceTexts, IsOrder
    <2> QED
      BY <1>1, <1>3, <2>1, TextShowsPrice DEF ShowsOrder, IsOrder
  <1> QED
    BY <1>2, <1>3

CsvIInv ==
  "orders" \in handlers =>
    /\ IsHistory(csv)
    /\ Len(csv) = Cardinality(OrdersOf(AllFeeds))
    /\ \A place \in OrdersOf(AllFeeds) :
         Plain(AllArrived[place[1]]) =>
           ShowsOrder(csv[Number(OrdersOf(AllFeeds), place)],
                      AllArrived[place[1]].datagram.messages[place[2]])

\* The line written for an order of a plain packet is that of the message in hand.
LEMMA LineOfMessage ==
  ASSUME PacketIInv, NEW item, Adds(item), item.type # "OrderBookSnapshotType",
         "orders" \in handlers
  PROVE  \E line : /\ csv' = Append(csv, line)
                   /\ Plain(frame) => ShowsOrder(line, frame.datagram.messages[NewPlace[2]])
  <1>1. /\ Decodes /\ Last(decoded') = item
        /\ \/ HandleOrderUpdate /\ item.type = "OrderUpdateType"
           \/ HandleOrderExecution /\ item.type = "OrderExecutionType"
    BY WritesOfItem
  <1>2. PICK o \in OrdersInHand : \E line \in CsvLines(item.type, o) : csv' = Append(csv, line)
    BY <1>1 DEF Adds, Decode, WriteLine
  <1>3. PICK line \in CsvLines(item.type, o) : csv' = Append(csv, line)
    BY <1>2
  <1>4. ASSUME Plain(frame)
        PROVE  ShowsOrder(line, frame.datagram.messages[NewPlace[2]])
    <2>1. MessageInHand(item.type) /\ decoding # "idle"
      BY <1>1 DEF HandleOrderUpdate, HandleOrderExecution, Handle, MessageInHand, DecoderAt
    <2>2. frame \in Frames /\ datagram = frame.datagram /\ FollowsSchema(datagram)
      BY <1>4, <2>1 DEF PacketIInv, InHand, Plain
    <2> DEFINE m == datagram.messages[Current]
    <2>3. /\ MessageLeft /\ MessagesInHand = {Current}
          /\ item.type = "OrderUpdateType" => m.template_id = 15
          /\ item.type = "OrderExecutionType" => m.template_id = 16
      BY <2>1, <2>2, InHandIsCurrent DEF PacketIInv, DecoderIInv
    <2>4. o = m.order
      BY <2>3 DEF OrdersInHand
    <2>5. IsOrder(m.order)
      <3>1. frame.datagram \in Datagrams
        BY <2>2, PacketProcessorAssumption DEF IsFrame
      <3> QED
        BY <2>2, <2>3, <3>1, PacketProcessorAssumption DEF MessageLeft
    <2>6. ShowsOrder(line, m)
      <3> HIDE DEF m
      <3> QED
        BY <1>1, <1>3, <2>3, <2>4, <2>5, LineShowsOrder
    <2>7. NewPlace[2] = Current
      BY DEF NewPlace, Current
    <2> QED
      BY <2>2, <2>6, <2>7
  <1> QED
    BY <1>3, <1>4

LEMMA CsvKept ==
  ASSUME CsvIInv, PlacesIInv, PacketIInv, PacketIInv', [PacketNext]_packetVars
  PROVE  CsvIInv'
  <1> SUFFICES ASSUME "orders" \in handlers
               PROVE  CsvIInv'
    BY HandlersKept DEF CsvIInv
  <1> DEFINE S == OrdersOf(AllFeeds)
             T == OrdersOf(AllFeeds')
  <1>1. S \subseteq PlacesOf(AllFeeds)
    BY DEF OrdersOf
  <1>2. S \subseteq Nat \X Nat /\ IsFiniteSet(S)
    BY <1>1, FS_Subset DEF PlacesIInv
  <1>3. /\ Lists(csv, S)
        /\ \A place \in S :
             Plain(AllArrived[place[1]]) =>
               ShowsOrder(csv[Number(S, place)], AllArrived[place[1]].datagram.messages[place[2]])
    BY <1>2 DEF CsvIInv, Lists
  <1>4. ASSUME T = S, csv' = csv, KeepsElements
        PROVE  CsvIInv'
    BY <1>1, <1>4 DEF CsvIInv, KeepsElements
  <1>5. CASE AddsNothing
    <2>1. T = S
      BY <1>5 DEF AddsNothing, KeepsElements, OrdersOf
    <2> QED
      BY <1>4, <1>5, <2>1 DEF AddsNothing
  <1>6. ASSUME NEW item, Adds(item)
        PROVE  CsvIInv'
    <2>1. /\ NewPlace \in Nat \X Nat
          /\ PlacesOf(AllFeeds') = PlacesOf(AllFeeds) \cup {NewPlace}
          /\ KeepsElements
          /\ \A place \in PlacesOf(AllFeeds) : Before(place, NewPlace)
          /\ AllFeeds'[NewPlace[1]][NewPlace[2]] = item
          /\ WriteLine /\ Decode
      BY <1>6 DEF Adds, Decode
    <2>2. T = S \cup (IF item.type # "OrderBookSnapshotType" THEN {NewPlace} ELSE {})
      BY <2>1 DEF KeepsElements, OrdersOf
    <2>3. CASE item.type = "OrderBookSnapshotType"
      <3>1. csv' = csv
        BY <1>6, <2>1, <2>3, WritesOfItem DEF WriteLine
      <3> QED
        BY <1>4, <2>1, <2>2, <2>3, <3>1
    <2>4. CASE item.type # "OrderBookSnapshotType"
      <3>1. PICK line : /\ csv' = Append(csv, line)
                        /\ Plain(frame) => ShowsOrder(line, frame.datagram.messages[NewPlace[2]])
        BY <1>6, <2>4, LineOfMessage
      <3>2. AllArrived'[NewPlace[1]] = frame
        <4>1. decoding # "idle" /\ decoding' = "loop" /\ UNCHANGED <<frame, arrived>>
          <5>1. HandleOrderUpdate \/ HandleOrderExecution
            BY <1>6, <2>4, WritesOfItem
          <5> QED
            BY <2>1, <5>1 DEF Decode, HandleOrderUpdate, HandleOrderExecution, Handle,
              MessageInHand, DecoderAt, feedVars
        <4>2. AllArrived' = Append(arrived, frame)
          BY <4>1 DEF AllArrived
        <4>3. NewPlace[1] = Len(arrived) + 1 /\ IsHistory(arrived)
          BY AllAreHistories DEF NewPlace
        <4> QED
          BY <4>2, <4>3, HistoryGrows
      <3>3. \A place \in S : Before(place, NewPlace)
        BY <1>1, <2>1
      <3>4. T = S \cup {NewPlace}
        BY <2>2, <2>4
      <3> HIDE DEF S, T
      <3>5. ListsOneMore(csv', T, csv, S, NewPlace, line)
        <4>1. Extends(csv', csv, line)
          BY <3>1 DEF Extends
        <4> QED
          BY <1>3, <2>1, <3>3, <3>4, <4>1, OneMoreListed
      <3>6. ASSUME NEW place \in T, Plain(AllArrived'[place[1]])
            PROVE  ShowsOrder(csv'[Number(T, place)],
                              AllArrived'[place[1]].datagram.messages[place[2]])
        <4>1. CASE place \in S
          <5>1. AllArrived'[place[1]] = AllArrived[place[1]]
            BY <1>1, <2>1, <4>1 DEF KeepsElements
          <5> QED
            BY <1>3, <3>5, <3>6, <4>1, <5>1 DEF ListsOneMore
        <4>2. CASE place = NewPlace
          BY <3>1, <3>2, <3>5, <3>6, <4>2 DEF ListsOneMore
        <4> QED
          BY <3>4, <4>1, <4>2
      <3>7. IsHistory(csv') /\ Len(csv') = Cardinality(T)
        BY <3>5 DEF ListsOneMore, Lists
      <3> QED
        BY <3>6, <3>7 DEF CsvIInv, T
    <2> QED
      BY <2>3, <2>4
  <1> QED
    BY <1>5, <1>6, FeedStep

\* Of plain packets the decoded messages are those sent, up to an unknown template.
LEMMA SentPlacesAreDecoded ==
  ASSUME PacketIInv, OnlyPlainOrNotUdp
  PROVE  /\ SentPlaces = PlacesOf(feeds)
         /\ \A place \in SentPlaces :
              /\ Plain(arrived[place[1]])
              /\ feeds[place[1]][place[2]]
                   = ItemOf(handlers, arrived[place[1]].datagram, place[2])
              /\ feeds[place[1]][place[2]].type = "OrderBookSnapshotType"
                   <=> MessageAt(place).template_id = 17
  <1>1. /\ DOMAIN feeds = 1 .. Len(feeds) /\ DOMAIN arrived = 1 .. Len(feeds)
        /\ Len(feeds) \in Nat
    BY AllAreHistories, HistoryGrows
  <1>2. ASSUME NEW i \in DOMAIN feeds, ~Plain(arrived[i])
        PROVE  feeds[i] = <<>>
    BY <1>1, <1>2 DEF PacketIInv, Histories, IsFeedOf, OnlyPlainOrNotUdp
  <1>3. ASSUME NEW i \in DOMAIN feeds, Plain(arrived[i]), NEW k
        PROVE  /\ k \in DOMAIN feeds[i]
                  <=> /\ k \in DOMAIN MessagesOf(i)
                      /\ \A j \in 1 .. k : Known(MessagesOf(i)[j])
               /\ k \in DOMAIN feeds[i] =>
                    /\ feeds[i][k] = ItemOf(handlers, arrived[i].datagram, k)
                    /\ feeds[i][k].type = "OrderBookSnapshotType"
                         <=> MessagesOf(i)[k].template_id = 17
    <2> DEFINE ms == MessagesOf(i)
               items == feeds[i]
               n == Len(ms)
               l == Len(items)
    <2>1. /\ l <= n
          /\ \A j \in 1 .. l : Known(ms[j]) /\ items[j] = ItemOf(handlers, arrived[i].datagram, j)
          /\ l = n \/ ~Known(ms[l + 1])
      BY <1>3 DEF PacketIInv, Histories, IsFeedOf, MessagesOf
    <2>2. n \in Nat /\ DOMAIN ms = 1 .. n
      BY <1>1, PacketProcessorAssumption, SIMBADecoderAssumption
        DEF PacketIInv, Histories, IsFrame, IsDatagram, MessagesOf
    <2>3. l \in Nat /\ DOMAIN items = 1 .. l
      BY HistoryGrows DEF PacketIInv, Histories
    <2>4. ASSUME NEW j \in 1 .. l
          PROVE  items[j].type = "OrderBookSnapshotType" <=> ms[j].template_id = 17
      <3>1. items[j] = ItemOf(handlers, arrived[i].datagram, j) /\ Known(ms[j])
        BY <2>1
      <3>2. ItemOf(handlers, arrived[i].datagram, j).type
              = Templates[arrived[i].datagram.messages[j].template_id]
        BY DEF ItemOf, Item
      <3>3. ms[j] = arrived[i].datagram.messages[j]
        BY DEF MessagesOf
      <3> HIDE DEF ms, items
      <3>4. items[j].type = Templates[ms[j].template_id] /\ ms[j].template_id \in DOMAIN Templates
        BY <3>1, <3>2, <3>3 DEF Known
      <3> QED
        BY <3>4, TemplateIds
    <2>5. \A j \in 1 .. l : Known(ms[j]) /\ items[j] = ItemOf(handlers, arrived[i].datagram, j)
      BY <2>1
    <2> HIDE DEF n, l
    <2>6. l <= n /\ (l = n \/ ~Known(ms[l + 1]))
      BY <2>1 DEF n, l
    <2> HIDE DEF ms, items
    <2>7. ASSUME NEW m \in 1 .. n, \A j \in 1 .. m : Known(ms[j])
          PROVE  m \in 1 .. l
      <3>1. l < m => l + 1 \in 1 .. m
        BY <2>2, <2>3
      <3> QED
        BY <2>2, <2>3, <2>6, <2>7, <3>1
    <2>8. ASSUME k \in DOMAIN items
          PROVE  k \in DOMAIN ms /\ \A j \in 1 .. k : Known(ms[j])
      <3>1. k \in 1 .. l /\ \A j \in 1 .. k : j \in 1 .. l
        BY <2>3, <2>8
      <3> QED
        BY <2>2, <2>3, <2>5, <2>6, <2>8, <3>1
    <2>9. ASSUME k \in DOMAIN ms, \A j \in 1 .. k : Known(ms[j])
          PROVE  k \in DOMAIN items
      BY <2>2, <2>3, <2>7, <2>9
    <2>10. k \in DOMAIN items =>
             /\ items[k] = ItemOf(handlers, arrived[i].datagram, k)
             /\ items[k].type = "OrderBookSnapshotType" <=> ms[k].template_id = 17
      BY <2>3, <2>4, <2>5
    <2> QED
      BY <2>8, <2>9, <2>10 DEF ms, items
  <1>4. ASSUME NEW place
        PROVE  place \in SentPlaces <=> place \in PlacesOf(feeds)
    <2>1. place \in SentPlaces
            <=> \E i \in DOMAIN feeds :
                  /\ Plain(arrived[i]) /\ place \in {i} \X DOMAIN MessagesOf(i)
                  /\ \A k \in 1 .. place[2] : Known(MessagesOf(place[1])[k])
      BY <1>1 DEF SentPlaces
    <2>2. place \in PlacesOf(feeds) <=> \E i \in DOMAIN feeds : place \in {i} \X DOMAIN feeds[i]
      BY DEF PlacesOf
    <2>3. ASSUME NEW i \in DOMAIN feeds
          PROVE  /\ Plain(arrived[i]) /\ place \in {i} \X DOMAIN MessagesOf(i)
                 /\ \A k \in 1 .. place[2] : Known(MessagesOf(place[1])[k])
                 <=> place \in {i} \X DOMAIN feeds[i]
      <3>1. CASE Plain(arrived[i])
        BY <1>3, <3>1
      <3>2. CASE ~Plain(arrived[i])
        BY <1>2, <3>2
      <3> QED
        BY <3>1, <3>2
    <2> QED
      BY <2>1, <2>2, <2>3
  <1>5. ASSUME NEW place \in SentPlaces
        PROVE  /\ Plain(arrived[place[1]])
               /\ feeds[place[1]][place[2]]
                    = ItemOf(handlers, arrived[place[1]].datagram, place[2])
               /\ feeds[place[1]][place[2]].type = "OrderBookSnapshotType"
                    <=> MessageAt(place).template_id = 17
    <2>1. Plain(arrived[place[1]])
      BY DEF SentPlaces
    <2>2. place[1] \in DOMAIN feeds /\ place[2] \in DOMAIN feeds[place[1]]
      BY <1>4 DEF PlacesOf
    <2> QED
      BY <1>3, <2>1, <2>2 DEF MessageAt
  <1> QED
    BY <1>4, <1>5

-----------------------------------------------------------------------------
(***************************************************************************)
(* Theorems.                                                               *)
(***************************************************************************)
\* process_packet() calls the decoder in no other way than SIMBADecoder allows: what is
\* proved of the decoder holds in the packet processor.
THEOREM UsesDecoder == PacketSpec => Spec
  <1>1. PacketInit => Init
    BY DEF PacketInit
  <1>2. [PacketNext]_packetVars => [Next]_vars
    BY StepsOfDecoder
  <1> QED
    BY <1>1, <1>2, PTL DEF PacketSpec, Spec

\* In every reachable state the datagram being decoded, its place and the history of
\* the feeds are those of the packets that arrived.
THEOREM PacketInvariance == PacketSpec => []PacketIInv
  <1>1. PacketInit => InHand /\ Histories /\ Counted /\ frame = NoFrame /\ udp_at = 0
    <2> SUFFICES ASSUME PacketInit
                 PROVE  InHand /\ Histories /\ Counted /\ frame = NoFrame /\ udp_at = 0
      OBVIOUS
    <2>1. InHand /\ Histories
      BY PacketProcessorAssumption DEF PacketInit, Init, InHand, Histories, IsHistory
    <2>2. MayCount(<<>>) = {} /\ MustCount(<<>>) = {}
      BY DEF MayCount, MustCount
    <2>3. Counted
      BY <2>2, FS_EmptySet DEF PacketInit, Counted
    <2> QED
      BY <2>1, <2>3 DEF PacketInit
  <1>2. PacketSpec => []DecoderIInv
    BY UsesDecoder, DecoderInvariance, PTL
  <1>3. PacketIInv /\ [PacketNext]_packetVars /\ DecoderIInv' => PacketIInv'
    BY InHandKept, HistoriesKept, CountedKept, FrameTypeKept DEF PacketIInv
  <1>4. DecoderIInv /\ InHand /\ Histories /\ Counted /\ frame = NoFrame /\ udp_at = 0
          => PacketIInv
    BY DEF PacketIInv
  <1> QED
    BY <1>1, <1>2, <1>3, <1>4, PTL DEF PacketSpec

\* The variables keep their types, the histories of packets and feeds have one length, and
\* packet_processed_ is at least one more than the plain packets and at most one more than
\* the packets that may be UDP, whatever packets arrived.
THEOREM PacketTypeCorrect == PacketSpec => []PacketTypeOK
  <1>1. PacketIInv => PacketTypeOK
    BY DEF PacketIInv, PacketTypeOK, DecoderIInv, TypeIInv, Histories, Counted, MayCount,
      MustCount
  <1> QED
    BY <1>1, PacketInvariance, PTL

\* Every packet contributes its own messages and nothing else, whatever packets of
\* other kinds came before it: the packet processor implements MessageFeed.
THEOREM FeedsAreOfPackets == PacketSpec => FeedsArePackets
  <1>1. PacketInit => Feed!FeedInit
    BY DEF PacketInit, Feed!FeedInit
  <1>2. PacketIInv /\ PacketIInv' /\ [PacketNext]_packetVars
          => [Feed!FeedNext]_(Feed!feedVars)
    <2> SUFFICES ASSUME PacketIInv, PacketIInv', [PacketNext]_packetVars
                 PROVE  [Feed!FeedNext]_(Feed!feedVars)
      OBVIOUS
    <2>1. handlers' = handlers
      BY HandlersKept
    <2>2. CASE UNCHANGED <<arrived, feeds, packet_processed_>>
      BY <2>1, <2>2 DEF Feed!feedVars
    <2>3. ASSUME NEW f \in Frames, NEW items, NEW n \in {0, 1}, Takes(f, items, n)
          PROVE  Feed!FeedNext
      <3>1. Len(feeds') = Len(feeds) + 1 /\ feeds'[Len(feeds) + 1] = items
        BY <2>3, HistoryGrows DEF PacketIInv, Histories, Takes
      <3> QED
        BY <2>1, <2>3, <3>1 DEF Feed!FeedNext, Feed!Take, Takes
    <2> QED
      BY <2>2, <2>3, TakesOrNot DEF PacketIInv
  <1> QED
    BY <1>1, <1>2, PacketInvariance, PTL DEF PacketSpec, FeedsArePackets, Feed!FeedSpec

\* Of a plain packet no byte beyond it is read, whatever its length and its messages, though
\* the code checks no length.
THEOREM PlainPacketsAreReadInside == PacketSpec => []ReadsInside
  <1>1. PacketIInv => ReadsInside
    <2> SUFFICES ASSUME PacketIInv, Plain(frame)
                 PROVE  ReadsInside
      BY DEF ReadsInside
    <2>1. decoding = "loop" /\ MoreMessages
            => udp_at + current_offset_ + SBE_HEADER <= frame.length
      BY HeaderInside
    <2>2. MessageInHand("OrderUpdateType") \/ MessageInHand("OrderExecutionType")
            => udp_at + current_offset_ + sbe_header_.block_length <= frame.length
      BY BlockInside
    <2>3. MessageInHand("OrderBookSnapshotType")
            => udp_at + current_offset_ + (sbe_header_.block_length + GROUP_SIZE) <= frame.length
      BY BlockInside
    <2>4. MoreEntries => udp_at + current_offset_ + group_size.block_size <= frame.length
      BY EntryInside
    <2> QED
      BY <2>1, <2>2, <2>3, <2>4 DEF ReadsInside
  <1> QED
    BY <1>1, PacketInvariance, PTL

\* With --out-book a book is printed for each snapshot of the plain packets, in their order:
\* its rows are the prices of that message in falling order with the first volume sent for
\* each, however many packets, messages and entries there are.
THEOREM BooksAreOfPackets == PacketSpec => []BooksFollowPackets
  <1>1. PacketInit => PlacesIInv /\ BooksIInv
    <2> SUFFICES ASSUME PacketInit
                 PROVE  PlacesIInv /\ BooksIInv
      OBVIOUS
    <2>1. AllFeeds = <<>> /\ books = <<>>
      BY DEF PacketInit, Init, AllFeeds
    <2>2. PlacesOf(<<>>) = {}
      BY DEF PlacesOf
    <2>3. SnapshotsOf(<<>>) = {}
      BY <2>2 DEF SnapshotsOf
    <2>4. IsHistory(<<>>)
      BY DEF IsHistory
    <2> QED
      BY <2>1, <2>2, <2>3, <2>4, FS_EmptySet DEF PlacesIInv, BooksIInv
  <1>2. PlacesIInv /\ BooksIInv /\ PacketIInv /\ PacketIInv' /\ [PacketNext]_packetVars
          => PlacesIInv' /\ BooksIInv'
    BY PlacesKept, BooksKept
  <1>3. PacketIInv /\ BooksIInv => BooksFollowPackets
    <2> SUFFICES ASSUME PacketIInv, BooksIInv, decoding = "idle", OnlyPlainOrNotUdp,
                        "book" \in handlers
                 PROVE  /\ Len(books) = Cardinality(BookPlaces)
                        /\ \A place \in BookPlaces :
                             ShowsSnapshot(books[Number(BookPlaces, place)], MessageAt(place))
      BY DEF BooksFollowPackets, BooksIInv
    <2>1. AllFeeds = feeds
      BY AllAreHistories
    <2>2. BookPlaces = SnapshotsOf(feeds)
      BY SentPlacesAreDecoded DEF BookPlaces, SnapshotsOf
    <2>3. ASSUME NEW place \in BookPlaces
          PROVE  ShowsSnapshot(books[Number(BookPlaces, place)], MessageAt(place))
      <3> DEFINE book == books[Number(BookPlaces, place)]
                 item == feeds[place[1]][place[2]]
      <3>1. ShowsBook(book, item)
        BY <2>1, <2>2 DEF BooksIInv
      <3>2. item = ItemOf(handlers, arrived[place[1]].datagram, place[2])
        BY SentPlacesAreDecoded DEF BookPlaces
      <3> HIDE DEF book, item
      <3>3. /\ item.asks = FirstEntries(MessageAt(place).entries, "Offer")
            /\ item.bids = FirstEntries(MessageAt(place).entries, "Bid")
        BY <3>2 DEF ItemOf, Item, MessageAt, MessagesOf
      <3>4. ShowsSnapshot(book, MessageAt(place))
        BY <3>1, <3>3 DEF ShowsBook, ShowsSnapshot
      <3> QED
        BY <3>4 DEF book
    <2> QED
      BY <2>1, <2>2, <2>3 DEF BooksIInv
  <1> QED
    BY <1>1, <1>2, <1>3, PacketInvariance, PTL DEF PacketSpec

\* The CSV file has a line for each update and execution of the plain packets, in their order
\* and with the nearest price of six digits, however many packets there are and whatever
\* their messages.
THEOREM CsvIsOfPackets == PacketSpec => []CsvFollowsPackets
  <1>1. PacketInit => PlacesIInv /\ CsvIInv
    <2> SUFFICES ASSUME PacketInit
                 PROVE  PlacesIInv /\ CsvIInv
      OBVIOUS
    <2>1. AllFeeds = <<>> /\ csv = <<>>
      BY DEF PacketInit, Init, AllFeeds
    <2>2. PlacesOf(<<>>) = {}
      BY DEF PlacesOf
    <2>3. OrdersOf(<<>>) = {}
      BY <2>2 DEF OrdersOf
    <2>4. IsHistory(<<>>)
      BY DEF IsHistory
    <2> QED
      BY <2>1, <2>2, <2>3, <2>4, FS_EmptySet DEF PlacesIInv, CsvIInv
  <1>2. PlacesIInv /\ CsvIInv /\ PacketIInv /\ PacketIInv' /\ [PacketNext]_packetVars
          => PlacesIInv' /\ CsvIInv'
    BY PlacesKept, CsvKept
  <1>3. PacketIInv /\ CsvIInv => CsvFollowsPackets
    <2> SUFFICES ASSUME PacketIInv, CsvIInv, decoding = "idle", "orders" \in handlers,
                        OnlyPlainOrNotUdp
                 PROVE  /\ Len(csv) = Cardinality(OrderPlaces)
                        /\ \A place \in OrderPlaces :
                             ShowsOrder(csv[Number(OrderPlaces, place)], MessageAt(place))
      BY DEF CsvFollowsPackets
    <2>1. AllFeeds = feeds /\ AllArrived = arrived
      BY AllAreHistories
    <2>2. /\ OrderPlaces = OrdersOf(feeds)
          /\ \A place \in OrderPlaces : Plain(arrived[place[1]])
      BY SentPlacesAreDecoded DEF OrderPlaces, OrdersOf
    <2> QED
      BY <2>1, <2>2 DEF CsvIInv, MessageAt, MessagesOf
  <1> QED
    BY <1>1, <1>2, <1>3, PacketInvariance, PTL DEF PacketSpec
==============================================================================
