---------------------------- MODULE SIMBADecoder ----------------------------
(***************************************************************************)
(* class SIMBADecoder: one datagram after the other is cut into messages,  *)
(* and each message of a known template is decoded and given to its        *)
(* handler.  The decoder finds the next message by adding up sizes, so     *)
(* what it reads depends on its offset: at the start of a message it is    *)
(* that message, anywhere else it is garbage.                              *)
(***************************************************************************)
EXTENDS OrderBookSnapshot

CONSTANTS
  Datagrams,       \* the datagrams considered
  GarbageHeaders,  \* what bytes that are no SBE header may read as
  GarbageGroups    \* what bytes that are no group header may read as

MARKET_HEADER        == 16   \* sizeof(MarketDataPacketHeader)
INCREMENTAL_HEADER   == 12   \* sizeof(IncrementalPacketHeader)
SBE_HEADER           == 8    \* sizeof(SBEHeader)
ORDER_UPDATE         == 50   \* sizeof(OrderUpdate)
ORDER_EXECUTION      == 74   \* sizeof(OrderExecution)
SNAPSHOT_HEADER      == 19   \* sizeof(OrderBookSnapshotHeader), GroupSize included
GROUP_SIZE           == 3    \* sizeof(GroupSize)
ORDER_BOOK_ENTRY     == 57   \* sizeof(OrderBookEntry)

\* mapping_, as the class initialises it.
Templates ==
  [id \in {15, 16, 17} |->
     CASE id = 15 -> "OrderUpdateType"
       [] id = 16 -> "OrderExecutionType"
       [] id = 17 -> "OrderBookSnapshotType"]

(***************************************************************************)
(* A datagram d has the messages d.messages, and message k begins, with    *)
(* its SBE header, at d.starts[k]; the last element of d.starts is where   *)
(* the last message ends.  d.message_size is the field of the market data  *)
(* header, d.incremental bit 3 of its message_flags.  Of an order update   *)
(* or execution, m.printable says whether its action and side are values   *)
(* of their enumerations that the CSV line can show.                       *)
(***************************************************************************)
IsHeader(h) == h.template_id \in Nat /\ h.block_length \in Nat

IsGroup(g) == g.block_size \in Nat /\ g.num_in_group \in Nat

IsMessage(m) ==
  /\ IsHeader(m)
  /\ m.printable \in BOOLEAN
  /\ m.block_size \in Nat
  /\ m.entries \in Seq(Entries)
  /\ m.template_id # 17 => m.entries = <<>>

BodyLength(m) ==
  IF m.template_id = 17
  THEN m.block_length + GROUP_SIZE + m.block_size * Len(m.entries)
  ELSE m.block_length

HeadersLength(d) == MARKET_HEADER + (IF d.incremental THEN INCREMENTAL_HEADER ELSE 0)

MessageEnd(d, k) == d.starts[k] + SBE_HEADER + BodyLength(d.messages[k])

IsDatagram(d) ==
  /\ d.incremental \in BOOLEAN
  /\ d.message_size \in Nat
  /\ DOMAIN d.messages = 1 .. Len(d.messages)
  /\ Len(d.messages) \in Nat
  /\ \A k \in 1 .. Len(d.messages) : IsMessage(d.messages[k])
  /\ d.starts \in [1 .. Len(d.messages) + 1 -> Nat]
  /\ d.starts[1] = HeadersLength(d)
  /\ \A k \in 1 .. Len(d.messages) : d.starts[k + 1] = MessageEnd(d, k)

ASSUME SIMBADecoderAssumption ==
  /\ \A d \in Datagrams : IsDatagram(d)
  /\ \A h \in GarbageHeaders : IsHeader(h)
  /\ \A g \in GarbageGroups : IsGroup(g)

VARIABLES
  datagram,         \* the datagram being decoded, or the last one
  handlers,         \* the handlers that main() installed
  current_offset_,
  to_be_skipped,
  sbe_header_,
  mapping_,
  group_size,       \* of the snapshot being decoded
  entry_nr,         \* entries of it decoded
  decoding,         \* program counter of decode_message
  status,           \* running, terminated by an exception, or undefined
  decoded           \* history: what was decoded of the datagram

offsetVars == <<current_offset_, to_be_skipped>>
groupVars  == <<group_size, entry_nr>>

vars == <<datagram, handlers, offsetVars, sbe_header_, mapping_, groupVars, bookVars,
          decoding, status, decoded>>

NoDatagram ==
  [incremental |-> FALSE, message_size |-> MARKET_HEADER, messages |-> <<>>,
   starts |-> <<MARKET_HEADER>>]

\* --out-orders-csv installs two handlers, --out-book one.
HandlerSets == SUBSET {"orders", "book"}

Init ==
  /\ datagram = NoDatagram
  /\ handlers \in HandlerSets
  /\ current_offset_ = 0
  /\ to_be_skipped = FALSE
  /\ sbe_header_ = [template_id |-> 0, block_length |-> 0]
  /\ mapping_ = Templates
  /\ group_size = [block_size |-> 0, num_in_group |-> 0]
  /\ entry_nr = 0
  /\ BookInit
  /\ decoding = "idle"
  /\ status = "running"
  /\ decoded = <<>>

DecoderAt(pc) == status = "running" /\ decoding = pc

-----------------------------------------------------------------------------
(***************************************************************************)
(* What the datagram has at an offset.                                     *)
(***************************************************************************)
MessagesAt(o) == {k \in 1 .. Len(datagram.messages) : datagram.starts[k] = o}

HeadersAt(o) ==
  IF MessagesAt(o) = {}
  THEN GarbageHeaders
  ELSE {[template_id |-> datagram.messages[k].template_id,
         block_length |-> datagram.messages[k].block_length] : k \in MessagesAt(o)}

\* The message whose body is at the current offset, after the SBE header just read.
MessagesInHand == MessagesAt(current_offset_ - SBE_HEADER)

\* Whether the CSV line of the update or execution just read can be written.  The side
\* is the last field: a shorter block leaves it at 0, which is no side.
Printable(size) ==
  IF sbe_header_.block_length < size THEN {FALSE}
  ELSE IF MessagesInHand = {} THEN BOOLEAN
  ELSE {datagram.messages[k].printable : k \in MessagesInHand}

\* The group header of the snapshot in hand.  It is read at its place in the struct,
\* which is its place in the message only if the block has the size of the struct.
GroupsInHand ==
  IF MessagesInHand = {} \/ sbe_header_.block_length + GROUP_SIZE # SNAPSHOT_HEADER
  THEN GarbageGroups
  ELSE {[block_size |-> datagram.messages[k].block_size,
         num_in_group |-> Len(datagram.messages[k].entries)] : k \in MessagesInHand}

\* Entry i of message k.
EntryPlaces ==
  UNION {{k} \X (1 .. Len(datagram.messages[k].entries)) :
           k \in {n \in 1 .. Len(datagram.messages) :
                    datagram.messages[n].block_size = ORDER_BOOK_ENTRY}}

EntryStart(k, i) ==
  datagram.starts[k] + SBE_HEADER + datagram.messages[k].block_length + GROUP_SIZE
    + (i - 1) * ORDER_BOOK_ENTRY

\* The entry at the current offset; a shorter one has no side.
EntriesInHand ==
  LET here == {ki \in EntryPlaces : EntryStart(ki[1], ki[2]) = current_offset_}
  IN  IF group_size.block_size < ORDER_BOOK_ENTRY THEN {e \in Entries : e.side = "other"}
      ELSE IF here = {} THEN Entries
      ELSE {datagram.messages[ki[1]].entries[ki[2]] : ki \in here}

-----------------------------------------------------------------------------
(***************************************************************************)
(* decode_message.                                                         *)
(***************************************************************************)
\* Mutant: the offset is not reset.
ReceiveNoReset(d) ==
  /\ DecoderAt("idle")
  /\ datagram' = d
  /\ current_offset_' = current_offset_ + HeadersLength(d)
  /\ to_be_skipped' = FALSE
  /\ decoding' = "loop"
  /\ decoded' = <<>>
  /\ UNCHANGED <<handlers, sbe_header_, mapping_, groupVars, bookVars, status>>

\* The call, up to the loop.
Receive(d) ==
  /\ DecoderAt("idle")
  /\ datagram' = d
  /\ current_offset_' = HeadersLength(d)
  /\ to_be_skipped' = FALSE
  /\ decoding' = "loop"
  /\ decoded' = <<>>
  /\ UNCHANGED <<handlers, sbe_header_, mapping_, groupVars, bookVars, status>>

\* Mutant: the last message is left out.
MoreThanAMessage ==
  current_offset_ + SBE_HEADER + ORDER_UPDATE < datagram.message_size /\ ~to_be_skipped

\* Mutant: a header is read at the end.
MoreMessagesOrAtEnd == current_offset_ <= datagram.message_size /\ ~to_be_skipped

MoreMessages == current_offset_ < datagram.message_size /\ ~to_be_skipped

TypeOfTemplate(id) == IF id \in DOMAIN mapping_ THEN mapping_[id] ELSE "MessageUnknown"

\* from_id_to_type() inserts an unknown template into the map it looks it up in.
ReadSBEHeader ==
  /\ DecoderAt("loop")
  /\ MoreMessages
  /\ \E h \in HeadersAt(current_offset_) :
       /\ sbe_header_' = h
       /\ mapping_' = [id \in DOMAIN mapping_ \cup {h.template_id} |-> TypeOfTemplate(id)]
  /\ current_offset_' = current_offset_ + SBE_HEADER
  /\ decoding' = "message"
  /\ UNCHANGED <<datagram, handlers, to_be_skipped, groupVars, bookVars, status, decoded>>

MessageInHand(type) ==
  DecoderAt("message") /\ TypeOfTemplate(sbe_header_.template_id) = type

\* What the history keeps of a message: where its body was, how much of it was read,
\* whether its handler was called, and the entries in the two maps of a snapshot.
Item(type, at, length, given, bids, asks) ==
  [type |-> type, at |-> at, length |-> length, given |-> given, bids |-> bids, asks |-> asks]

\* handle_order_update() and handle_order_execution().
Handle(type, size) ==
  /\ MessageInHand(type)
  /\ sbe_header_.block_length <= size
  /\ "orders" \in handlers => TRUE \in Printable(size)
  /\ decoded' = Append(decoded, Item(type, current_offset_, sbe_header_.block_length,
                                     "orders" \in handlers, {}, {}))
  /\ current_offset_' = current_offset_ + size
  /\ decoding' = "loop"
  /\ UNCHANGED <<datagram, handlers, to_be_skipped, sbe_header_, mapping_, groupVars,
                 bookVars, status>>

HandleOrderUpdate == Handle("OrderUpdateType", ORDER_UPDATE)

HandleOrderExecution == Handle("OrderExecutionType", ORDER_EXECUTION)

DecodingEnds(how) ==
  /\ status' = how
  /\ UNCHANGED <<datagram, handlers, offsetVars, sbe_header_, mapping_, groupVars, bookVars,
                 decoding, decoded>>

\* to_csv_string() is noexcept and throws: the process ends.
LineThrows ==
  /\ "orders" \in handlers
  /\ \/ /\ MessageInHand("OrderUpdateType")
        /\ sbe_header_.block_length <= ORDER_UPDATE
        /\ FALSE \in Printable(ORDER_UPDATE)
     \/ /\ MessageInHand("OrderExecutionType")
        /\ sbe_header_.block_length <= ORDER_EXECUTION
        /\ FALSE \in Printable(ORDER_EXECUTION)
  /\ DecodingEnds("terminated")

\* memcpy of more bytes than the struct has: what follows is undefined.
BlockTooLong ==
  /\ \/ MessageInHand("OrderUpdateType") /\ sbe_header_.block_length > ORDER_UPDATE
     \/ MessageInHand("OrderExecutionType") /\ sbe_header_.block_length > ORDER_EXECUTION
     \/ /\ MessageInHand("OrderBookSnapshotType")
        /\ sbe_header_.block_length + GROUP_SIZE > SNAPSHOT_HEADER
  /\ DecodingEnds("undefined")

\* Mutant: the book of the snapshot before is kept.
SnapshotHeaderKeepsBook ==
  /\ MessageInHand("OrderBookSnapshotType")
  /\ sbe_header_.block_length + GROUP_SIZE <= SNAPSHOT_HEADER
  /\ group_size' \in GroupsInHand
  /\ entry_nr' = 0
  /\ current_offset_' = current_offset_ + sbe_header_.block_length + GROUP_SIZE
  /\ decoding' = "entries"
  /\ UNCHANGED <<datagram, handlers, to_be_skipped, sbe_header_, mapping_, bookVars, status,
                 decoded>>

\* handle_order_book_snapshot(), up to its loop.
SnapshotHeader ==
  /\ MessageInHand("OrderBookSnapshotType")
  /\ sbe_header_.block_length + GROUP_SIZE <= SNAPSHOT_HEADER
  /\ group_size' \in GroupsInHand
  /\ entry_nr' = 0
  /\ NewSnapshot
  /\ current_offset_' = current_offset_ + sbe_header_.block_length + GROUP_SIZE
  /\ decoding' = "entries"
  /\ UNCHANGED <<datagram, handlers, to_be_skipped, sbe_header_, mapping_, status, decoded>>

\* Mutant: one entry too many.
MoreEntriesOrLast == DecoderAt("entries") /\ entry_nr <= group_size.num_in_group

MoreEntries == DecoderAt("entries") /\ entry_nr < group_size.num_in_group

SnapshotEntry ==
  /\ MoreEntries
  /\ group_size.block_size <= ORDER_BOOK_ENTRY
  /\ \E e \in EntriesInHand : Insert(e)
  /\ current_offset_' = current_offset_ + group_size.block_size
  /\ entry_nr' = entry_nr + 1
  /\ UNCHANGED <<datagram, handlers, to_be_skipped, sbe_header_, mapping_, group_size,
                 decoding, status, decoded>>

\* insert() throws, and the exception leaves decode_message().
EntryThrows ==
  /\ MoreEntries
  /\ group_size.block_size <= ORDER_BOOK_ENTRY
  /\ \E e \in EntriesInHand : Throws(e)
  /\ DecodingEnds("terminated")

EntryTooLong ==
  /\ MoreEntries
  /\ group_size.block_size > ORDER_BOOK_ENTRY
  /\ DecodingEnds("undefined")

\* The place where the body of the snapshot in hand began.
SnapshotStart ==
  current_offset_ - entry_nr * group_size.block_size - GROUP_SIZE - sbe_header_.block_length

\* Mutant: only a group with entries comes to its end.
SnapshotDoneNotEmpty ==
  /\ DecoderAt("entries")
  /\ entry_nr = group_size.num_in_group /\ entry_nr > 0
  /\ decoded' = Append(decoded, Item("OrderBookSnapshotType", SnapshotStart,
                                     sbe_header_.block_length, "book" \in handlers,
                                     ToSet(bid_book_), ToSet(ask_book_)))
  /\ decoding' = "loop"
  /\ UNCHANGED <<datagram, handlers, offsetVars, sbe_header_, mapping_, groupVars, bookVars,
                 status>>

SnapshotDone ==
  /\ DecoderAt("entries")
  /\ entry_nr = group_size.num_in_group
  /\ decoded' = Append(decoded, Item("OrderBookSnapshotType", SnapshotStart,
                                     sbe_header_.block_length, "book" \in handlers,
                                     ToSet(bid_book_), ToSet(ask_book_)))
  /\ decoding' = "loop"
  /\ UNCHANGED <<datagram, handlers, offsetVars, sbe_header_, mapping_, groupVars, bookVars,
                 status>>

SkipMessage ==
  /\ MessageInHand("MessageUnknown")
  /\ to_be_skipped' = TRUE
  /\ decoding' = "loop"
  /\ UNCHANGED <<datagram, handlers, current_offset_, sbe_header_, mapping_, groupVars,
                 bookVars, status, decoded>>

\* decode_message() returns.
DatagramDone ==
  /\ DecoderAt("loop")
  /\ ~MoreMessages
  /\ decoding' = "idle"
  /\ UNCHANGED <<datagram, handlers, offsetVars, sbe_header_, mapping_, groupVars, bookVars,
                 status, decoded>>

DecodeStep ==
  \/ ReadSBEHeader \/ HandleOrderUpdate \/ HandleOrderExecution \/ LineThrows \/ BlockTooLong
  \/ SnapshotHeader \/ SnapshotEntry \/ EntryThrows \/ EntryTooLong \/ SnapshotDone
  \/ SkipMessage \/ DatagramDone

Next ==
  \/ \E d \in Datagrams : Receive(d)
  \/ DecodeStep

Spec == Init /\ [][Next]_vars

\* The thread that called decode_message() keeps running.
FairSpec == Spec /\ WF_vars(DecodeStep)
-----------------------------------------------------------------------------
(***************************************************************************)
(* Safety.                                                                 *)
(***************************************************************************)
MessageTypes == {Templates[id] : id \in DOMAIN Templates}

\* The type of every variable.
DecoderTypeOK ==
  /\ IsDatagram(datagram)
  /\ handlers \in HandlerSets
  /\ current_offset_ \in Nat
  /\ to_be_skipped \in BOOLEAN
  /\ IsHeader(sbe_header_)
  /\ DOMAIN mapping_ \subseteq Nat
  /\ \A id \in DOMAIN mapping_ : mapping_[id] \in MessageTypes \cup {"MessageUnknown"}
  /\ IsGroup(group_size)
  /\ entry_nr \in 0 .. group_size.num_in_group
  /\ BookTypeOK
  /\ decoding \in {"idle", "loop", "message", "entries"}
  /\ status \in {"running", "terminated", "undefined"}
  /\ \A i \in DOMAIN decoded : decoded[i].type \in MessageTypes /\ decoded[i].at \in Nat

\* The sizes on the wire are those of the structs.
FollowsSchema(d) ==
  /\ d.message_size = d.starts[Len(d.messages) + 1]
  /\ \A k \in 1 .. Len(d.messages) :
       LET m == d.messages[k] IN
       CASE m.template_id = 15 -> m.block_length = ORDER_UPDATE
         [] m.template_id = 16 -> m.block_length = ORDER_EXECUTION
         [] m.template_id = 17 -> /\ m.block_length + GROUP_SIZE = SNAPSHOT_HEADER
                                  /\ m.block_size = ORDER_BOOK_ENTRY
         [] OTHER -> TRUE

Known(m) == m.template_id \in DOMAIN Templates

\* What decoding message k, alone and at its own place, gives.
Expected(d, k) ==
  LET m == d.messages[k] IN
  Item(Templates[m.template_id], d.starts[k] + SBE_HEADER, m.block_length,
       (IF m.template_id = 17 THEN "book" ELSE "orders") \in handlers,
       FirstEntries(m.entries, "Bid"), FirstEntries(m.entries, "Offer"))

\* Whatever was decoded before, and however many messages and entries a datagram has:
\* what is given to the handlers is the messages of the datagram, each at its own
\* place, in their order, without a gap, and each snapshot with its own book.
DecodedInStep ==
  FollowsSchema(datagram) =>
    \A i \in DOMAIN decoded :
      /\ i \in 1 .. Len(datagram.messages)
      /\ Known(datagram.messages[i])
      /\ decoded[i] = Expected(datagram, i)

\* The decoder stops at the end of the datagram or at the first message of an unknown
\* template, and never before.
DecodedUpToUnknown ==
  decoding = "idle" /\ FollowsSchema(datagram) =>
    \/ Len(decoded) = Len(datagram.messages)
    \/ ~Known(datagram.messages[Len(decoded) + 1])

\* A datagram that follows the schema and whose enumerations are known does not end the
\* process, whatever was decoded before it.
Sound(d) ==
  /\ FollowsSchema(d)
  /\ \A k \in 1 .. Len(d.messages) :
       /\ d.messages[k].printable
       /\ \A i \in DOMAIN d.messages[k].entries : ~Throws(d.messages[k].entries[i])

SoundDatagramsAreSafe == Sound(datagram) => status = "running"

(***************************************************************************)
(* Liveness, under FairSpec.                                               *)
(***************************************************************************)
\* decode_message() returns, or ends the process, whatever sizes the datagram states.
DecodingReturns == decoding # "idle" ~> decoding = "idle" \/ status # "running"

(***************************************************************************)
(* A statement of the source that the code does not meet.                  *)
(***************************************************************************)
\* simba_decoder.cpp: "We skip the messages that are not of our interest": the others
\* are decoded.
MessagesOfInterestDecoded ==
  decoding = "idle" /\ FollowsSchema(datagram) =>
    \A k \in 1 .. Len(datagram.messages) :
      Known(datagram.messages[k]) =>
        \E i \in DOMAIN decoded : decoded[i].at = datagram.starts[k] + SBE_HEADER
=============================================================================
