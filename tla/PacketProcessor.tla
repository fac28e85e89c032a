--------------------------- MODULE PacketProcessor ---------------------------
(***************************************************************************)
(* class PacketProcessor in the consumer thread: the payload of each UDP   *)
(* packet is given to the decoder, whose handlers write the files of       *)
(* --out-orders-csv and --out-book.  None of the lengths is checked: what  *)
(* the headers and the decoder read of a packet that is too short, or is   *)
(* no IP packet, lies beyond it or means something else.                   *)
(***************************************************************************)
EXTENDS SIMBADecoder, FiniteSets

CONSTANTS
  Frames,            \* the packets considered
  GarbageHeads,      \* what bytes beyond a packet may read as in IPPacket
  GarbageDatagrams,  \* what bytes that are no market data may read as
  GarbageOrders,     \* what bytes that are no update or execution may read as
  MaxFrames          \* bound on the packets of one behaviour

ETH_PACKET_SIZE == 14
UDP_HEADER_SIZE == 8
UDP_PROTOCOL    == 17
PROTOCOL_BYTE   == 23   \* the last byte the header constructors read

IPPackets == [ihl : 0 .. 15, protocol : 0 .. 255]

(***************************************************************************)
(* A frame f is f.length bytes long; f.header is what is at the places of  *)
(* the header length and the protocol of an IP packet.  It is f.whole if   *)
(* it is an unfragmented IP packet that holds f.datagram after its UDP     *)
(* header; otherwise (another EtherType, a fragment, a packet cut short)   *)
(* what is there is unknown.  m.order is what the CSV line of an update or *)
(* execution m shows.                                                      *)
(***************************************************************************)
HeadersEnd(h) == ETH_PACKET_SIZE + 4 * h.ihl + UDP_HEADER_SIZE

DatagramEnd(d) == d.starts[Len(d.messages) + 1]

IsFrame(f) ==
  /\ f.length \in Nat /\ f.header \in IPPackets /\ f.whole \in BOOLEAN
  /\ f.datagram \in Datagrams
  /\ f.whole /\ f.header.protocol = UDP_PROTOCOL =>
       f.length >= HeadersEnd(f.header) + DatagramEnd(f.datagram)

IsOrder(o) == o.order_price \in Int /\ o.trade_price \in Int

ASSUME PacketProcessorAssumption ==
  /\ \A f \in Frames : IsFrame(f)
  /\ \A d \in Datagrams : \A k \in 1 .. Len(d.messages) : IsOrder(d.messages[k].order)
  /\ \A o \in GarbageOrders : IsOrder(o)
  /\ GarbageHeads \subseteq IPPackets
  /\ GarbageDatagrams \subseteq Datagrams
  /\ MaxFrames \in Nat

VARIABLES
  frame,              \* the packet being processed, or the last one
  udp_at,             \* where udp_span begins in it
  packet_processed_,
  csv, books,         \* the lines and books written to the files
  arrived,            \* history: the packets processed
  feeds               \* history: what was decoded of each; <<>> for a skipped one

fileVars   == <<csv, books>>
feedVars   == <<arrived, feeds>>
packetVars == <<vars, frame, udp_at, packet_processed_, fileVars, feedVars>>

NoFrame ==
  [length |-> 0, header |-> [ihl |-> 5, protocol |-> 0], whole |-> FALSE,
   datagram |-> NoDatagram]

PacketInit ==
  /\ Init
  /\ frame = NoFrame /\ udp_at = 0
  /\ packet_processed_ = 1
  /\ csv = <<>> /\ books = <<>>
  /\ arrived = <<>> /\ feeds = <<>>

-----------------------------------------------------------------------------
(***************************************************************************)
(* process_packet.                                                         *)
(***************************************************************************)
\* IPPacket: the fields as read; the EtherType is not looked at.
IPPacketsRead(f) == IF f.length > PROTOCOL_BYTE THEN {f.header} ELSE GarbageHeads

\* Mutant: the options of the IP header are not stepped over.
UdpSpanStartNoOptions(h) == ETH_PACKET_SIZE + 20 + UDP_HEADER_SIZE

UdpSpanStart(h) == ETH_PACKET_SIZE + 4 * h.ihl + UDP_HEADER_SIZE

\* What the decoder finds from there on.
PayloadsAt(f, o) ==
  IF f.whole /\ f.header.protocol = UDP_PROTOCOL /\ o = HeadersEnd(f.header)
  THEN {f.datagram} ELSE GarbageDatagrams

\* Mutant: a packet is counted before the filter.
SkipPacketCounted(f) ==
  /\ DecoderAt("idle")
  /\ \E h \in IPPacketsRead(f) : h.protocol # UDP_PROTOCOL
  /\ arrived' = Append(arrived, f) /\ feeds' = Append(feeds, <<>>)
  /\ packet_processed_' = packet_processed_ + 1
  /\ UNCHANGED <<vars, frame, udp_at, fileVars>>

\* The early return.
SkipPacket(f) ==
  /\ DecoderAt("idle")
  /\ \E h \in IPPacketsRead(f) : h.protocol # UDP_PROTOCOL
  /\ arrived' = Append(arrived, f) /\ feeds' = Append(feeds, <<>>)
  /\ UNCHANGED <<vars, frame, udp_at, packet_processed_, fileVars>>

HandOver(f) ==
  /\ \E h \in IPPacketsRead(f) :
       /\ h.protocol = UDP_PROTOCOL
       /\ udp_at' = UdpSpanStart(h)
       /\ \E d \in PayloadsAt(f, udp_at') : Receive(d)
  /\ frame' = f
  /\ UNCHANGED <<packet_processed_, fileVars, feedVars>>

-----------------------------------------------------------------------------
(***************************************************************************)
(* The handlers.                                                           *)
(***************************************************************************)
update_action_to_string == [New |-> "NEW", Update |-> "UPDATE", Delete |-> "DELETE"]

entry_side_to_string == [Bid |-> "BUY", Offer |-> "SELL", EmptyBook |-> "EMPTY_BOOK"]

AbsOf(p) == IF p < 0 THEN -p ELSE p

\* A stream shows a double with six significant digits: the unit of the last of them.
SixthDigit[n \in Nat] == IF n < 1000000 THEN 1 ELSE 10 * SixthDigit[n \div 10]

\* Mutant: the digits after the sixth are cut off.
PriceTextsCut(p) ==
  LET u == SixthDigit[AbsOf(p)] IN {<<IF p < 0 THEN -((-p \div u) * u) ELSE (p \div u) * u>>}

\* What a number may be shown as, in the unit of the price; half a unit may go either way.
PriceTexts(p) ==
  LET u == SixthDigit[AbsOf(p)]
      q == p \div u
  IN {<<s>> : s \in {t \in {q * u, (q + 1) * u} : 2 * AbsOf(p - t) <= u}}

\* Only order_price is tested for NULL_VALUE, and shown as nan, here <<>>.
OrderPriceTexts(p) == IF p = NULL_VALUE THEN {<<>>} ELSE PriceTexts(p)

\* to_csv_string(): the fields whose text is not that of the number.
CsvLines(type, o) ==
  IF type = "OrderUpdateType"
  THEN [label : {"ORDER_UPDATE"}, order_price : OrderPriceTexts(o.order_price),
        action : {update_action_to_string[o.action]}, side : {entry_side_to_string[o.side]}]
  ELSE [label : {"ORDER_EXECUTION"}, order_price : OrderPriceTexts(o.order_price),
        trade_price : PriceTexts(o.trade_price), side : {entry_side_to_string[o.side]}]

OrdersInHand ==
  IF MessagesInHand = {} THEN GarbageOrders
  ELSE {datagram.messages[k].order : k \in MessagesInHand}

\* to_string(): the rows of the book, the asks first.
Rows(es) == [i \in DOMAIN es |-> <<es[i].order_price, es[i].order_volume>>]
BookText == [asks |-> Rows(AskRows), bids |-> Rows(BidRows)]

Decodes == Len(decoded') = Len(decoded) + 1 /\ Last(decoded').given

WriteLine ==
  IF Decodes /\ Last(decoded').type # "OrderBookSnapshotType"
  THEN \E o \in OrdersInHand : \E line \in CsvLines(Last(decoded').type, o) :
         csv' = Append(csv, line)
  ELSE UNCHANGED csv

WriteBook ==
  IF Decodes /\ Last(decoded').type = "OrderBookSnapshotType"
  THEN books' = Append(books, BookText)
  ELSE UNCHANGED books

\* A step of udp_packet_handler_, with the call of a handler and the end of process_packet.
Decode ==
  /\ DecodeStep
  /\ WriteLine
  /\ WriteBook
  /\ IF decoding' = "idle"
     THEN /\ packet_processed_' = packet_processed_ + 1
          /\ arrived' = Append(arrived, frame) /\ feeds' = Append(feeds, decoded')
     ELSE UNCHANGED <<packet_processed_, feedVars>>
  /\ UNCHANGED <<frame, udp_at>>

Process(f) == Len(arrived) < MaxFrames /\ (SkipPacket(f) \/ HandOver(f))

PacketNext == (\E f \in Frames : Process(f)) \/ Decode

PacketSpec == PacketInit /\ [][PacketNext]_packetVars
-----------------------------------------------------------------------------
(***************************************************************************)
(* Properties.                                                             *)
(***************************************************************************)
\* A UDP packet with market data of the schema; a packet that is certainly not UDP.
Plain(f) == f.whole /\ f.header.protocol = UDP_PROTOCOL /\ FollowsSchema(f.datagram)
NotUdp(f) == f.length > PROTOCOL_BYTE /\ f.header.protocol # UDP_PROTOCOL

\* What decoding message k of d, alone and at its own place, gives to the handlers hs.
ItemOf(hs, d, k) ==
  LET m == d.messages[k] IN
  Item(Templates[m.template_id], d.starts[k] + SBE_HEADER, m.block_length,
       (IF m.template_id = 17 THEN "book" ELSE "orders") \in hs,
       FirstEntries(m.entries, "Bid"), FirstEntries(m.entries, "Offer"))

\* What may have been decoded of a packet: of a plain one exactly its messages up to the
\* first of an unknown template, each at its own place; of one that is not UDP nothing.
IsFeedOf(hs, f, items) ==
  /\ Plain(f) =>
       /\ Len(items) <= Len(f.datagram.messages)
       /\ \A i \in 1 .. Len(items) :
            Known(f.datagram.messages[i]) /\ items[i] = ItemOf(hs, f.datagram, i)
       /\ \/ Len(items) = Len(f.datagram.messages)
          \/ ~Known(f.datagram.messages[Len(items) + 1])
  /\ NotUdp(f) => items = <<>>

Feed == INSTANCE MessageFeed

\* Packets that are garbage, cut short, of other protocols or of another EtherType leave
\* no trace in what is decoded of the packets after them, though the decoder keeps its
\* offset, headers and mapping from one to the next.
FeedsArePackets == Feed!FeedSpec

\* The type of every variable, and the counter of the packets that were not skipped.
PacketTypeOK ==
  /\ DecoderTypeOK
  /\ frame \in Frames \cup {NoFrame}
  /\ udp_at \in Nat
  /\ Len(arrived) = Len(feeds) /\ Len(arrived) <= MaxFrames
  /\ packet_processed_ <= 1 + Cardinality({i \in DOMAIN arrived : ~NotUdp(arrived[i])})
  /\ packet_processed_ >= 1 + Cardinality({i \in DOMAIN arrived : Plain(arrived[i])})

\* Of a plain packet no byte beyond it is read, although no length is ever checked: not by
\* the next SBE header, nor by a block, nor by an entry of a snapshot.
ReadsInside ==
  Plain(frame) /\ status = "running" =>
    LET Inside(n) == udp_at + current_offset_ + n <= frame.length IN
    /\ decoding = "loop" /\ MoreMessages => Inside(SBE_HEADER)
    /\ MessageInHand("OrderUpdateType") \/ MessageInHand("OrderExecutionType")
         => Inside(sbe_header_.block_length)
    /\ MessageInHand("OrderBookSnapshotType")
         => Inside(sbe_header_.block_length + GROUP_SIZE)
    /\ MoreEntries => Inside(group_size.block_size)

\* A place <<i, k>> is that of element k of packet i.  The number of a place among those of
\* S, packet by packet and in each packet from its beginning.
Number(S, place) ==
  Cardinality({q \in S : q[1] < place[1] \/ (q[1] = place[1] /\ q[2] <= place[2])})

\* The reference for both files: of each plain packet the messages up to the first of an
\* unknown template.
MessagesOf(i) == arrived[i].datagram.messages

MessageAt(place) == MessagesOf(place[1])[place[2]]

SentPlaces ==
  {place \in UNION {{i} \X DOMAIN MessagesOf(i) : i \in {n \in DOMAIN arrived : Plain(arrived[n])}} :
     \A k \in 1 .. place[2] : Known(MessagesOf(place[1])[k])}

OrderPlaces == {place \in SentPlaces : MessageAt(place).template_id # 17}
BookPlaces  == {place \in SentPlaces : MessageAt(place).template_id = 17}

OnlyPlainOrNotUdp == \A i \in DOMAIN arrived : Plain(arrived[i]) \/ NotUdp(arrived[i])

\* A text has six significant digits and is the nearest such number to the price.
ShowsPrice(text, p) ==
  /\ Len(text) = 1 /\ text[1] % SixthDigit[AbsOf(p)] = 0
  /\ \A d \in {-1, 1} :
       AbsOf(p - text[1]) <= AbsOf(p - (text[1] + d * SixthDigit[AbsOf(p)]))

ShowsOrder(line, m) ==
  /\ line.label = IF m.template_id = 15 THEN "ORDER_UPDATE" ELSE "ORDER_EXECUTION"
  /\ IF m.order.order_price = NULL_VALUE THEN line.order_price = <<>>
                                         ELSE ShowsPrice(line.order_price, m.order.order_price)
  /\ m.template_id = 16 => ShowsPrice(line.trade_price, m.order.trade_price)

\* The CSV file has one line for each update and execution that was sent, in the order of
\* the packets and of their messages, with the price to six digits; a missing order price
\* is shown as nan, and a missing trade price, which is not tested for, as a number.
CsvFollowsPackets ==
  decoding = "idle" /\ "orders" \in handlers /\ OnlyPlainOrNotUdp
  => /\ Len(csv) = Cardinality(OrderPlaces)
     /\ \A place \in OrderPlaces :
          ShowsOrder(csv[Number(OrderPlaces, place)], MessageAt(place))

\* A side of a printed book: one row for each of the entries, from the highest price down.
ShowsSide(rows, entries) ==
  /\ \A i, j \in DOMAIN rows : i < j => rows[i][1] > rows[j][1]
  /\ {rows[i] : i \in DOMAIN rows} = {<<e.order_price, e.order_volume>> : e \in entries}

ShowsSnapshot(book, m) ==
  /\ ShowsSide(book.asks, FirstEntries(m.entries, "Offer"))
  /\ ShowsSide(book.bids, FirstEntries(m.entries, "Bid"))

\* With --out-book one book is printed for each snapshot that was sent, in the order of the
\* packets and of their messages, and its rows are those of that message: the prices of
\* each side in falling order, each with the first volume sent for it, and no row of
\* another message. Without --out-book none is printed.
BooksFollowPackets ==
  decoding = "idle" /\ OnlyPlainOrNotUdp =>
    IF "book" \in handlers
    THEN /\ Len(books) = Cardinality(BookPlaces)
         /\ \A place \in BookPlaces :
              ShowsSnapshot(books[Number(BookPlaces, place)], MessageAt(place))
    ELSE books = <<>>
==============================================================================
