-------------------------- MODULE MCPacketProcessor --------------------------
(***************************************************************************)
(* Model checking on packets that are plain, with IP options, padded, cut  *)
(* short, of another protocol or of another EtherType.                     *)
(***************************************************************************)
EXTENDS PacketProcessor

Entry(price, volume, side) ==
  [order_price |-> price, order_volume |-> volume, side |-> side]

MCEntries == {Entry(100000, 1, "Bid"), Entry(100000, 2, "Bid"), Entry(-100000, 3, "Bid"),
              Entry(200000, 1, "Offer"), Entry(300000, 2, "Offer")}

Order(price, trade, action, side) ==
  [order_price |-> price, trade_price |-> trade, action |-> action, side |-> side]

Message(template, block, entries, order) ==
  [template_id |-> template, block_length |-> block, printable |-> TRUE,
   block_size |-> 57, entries |-> entries, order |-> order]

NoOrder == Order(0, 0, "New", "Bid")

Update(price, action) == Message(15, 50, <<>>, Order(price, 0, action, "Bid"))
Execution(price, trade) == Message(16, 74, <<>>, Order(price, trade, "Update", "Offer"))
Snapshot(es) == Message(17, 16, es, NoOrder)
Unknown == Message(7, 20, <<>>, NoOrder)

StartsOf(first, ms) ==
  FoldLeft(LAMBDA s, m : Append(s, s[Len(s)] + 8 + BodyLength(m)), <<first>>, ms)

Datagram(ms, incremental) ==
  LET s == StartsOf(IF incremental THEN 28 ELSE 16, ms) IN
  [incremental |-> incremental, messages |-> ms, starts |-> s, message_size |-> s[Len(s)]]

\* Prices of six digits, of more (rounded up, down and at a half), null and negative.
Orders ==
  Datagram(<<Update(1234567, "New"), Execution(9999995, NULL_VALUE), Update(NULL_VALUE, "Delete")>>, TRUE)
Negative == Datagram(<<Execution(-1234564, 123456)>>, TRUE)
Mixed ==
  Datagram(<<Update(100000, "Update"), Snapshot(<<Entry(200000, 1, "Offer")>>), Unknown,
             Update(100001, "New"), Snapshot(<<Entry(100000, 1, "Bid")>>)>>, TRUE)
Book ==
  Datagram(<<Snapshot(<<Entry(300000, 2, "Offer"), Entry(-100000, 3, "Bid"), Entry(100000, 1, "Bid"),
                        Entry(100000, 2, "Bid"), Entry(200000, 1, "Offer")>>), Snapshot(<<>>)>>, FALSE)

\* Bytes without a message: the stated size is what counts.
Bytes(size, incremental) ==
  [incremental |-> incremental, messages |-> <<>>, starts |-> <<IF incremental THEN 28 ELSE 16>>,
   message_size |-> size]

\* What is left of two updates when the packet ends in the second.
CutShort ==
  [incremental |-> TRUE, messages |-> <<Update(1234567, "New")>>, starts |-> <<28, 86>>,
   message_size |-> 144]

MCGarbageDatagrams == {Bytes(0, FALSE), Bytes(37, TRUE), CutShort}
MCDatagrams == {Orders, Negative, Mixed, Book} \cup MCGarbageDatagrams

Frame(d, ihl, protocol, whole, length) ==
  [length |-> length, header |-> [ihl |-> ihl, protocol |-> protocol], whole |-> whole, datagram |-> d]

\* An IP packet with a UDP datagram, its options and its padding.
Udp(d, ihl, padding) == Frame(d, ihl, 17, TRUE, 22 + 4 * ihl + DatagramEnd(d) + padding)

MCFrames ==
  {Udp(Orders, 5, 0), Udp(Negative, 6, 0), Udp(Mixed, 15, 0), Udp(Book, 5, 4),
   Frame(Orders, 5, 6, TRUE, 200),       \* TCP
   Frame(Orders, 5, 17, FALSE, 150),     \* cut short
   Frame(Book, 0, 17, FALSE, 60),        \* of another EtherType, taken for UDP
   Frame(Book, 5, 1, FALSE, 10)}         \* too short for its headers

MCGarbageHeads == [ihl : {0, 5}, protocol : {1, 17}]

MCGarbageHeaders ==
  {[template_id |-> 15, block_length |-> 50], [template_id |-> 16, block_length |-> 90],
   [template_id |-> 17, block_length |-> 16], [template_id |-> 7, block_length |-> 0]}

MCGarbageGroups ==
  {[block_size |-> 57, num_in_group |-> 1], [block_size |-> 60, num_in_group |-> 1]}

MCGarbageOrders == {Order(7, 7, "New", "EmptyBook")}
==============================================================================
