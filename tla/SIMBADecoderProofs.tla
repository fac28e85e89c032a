-------------------------- MODULE SIMBADecoderProofs --------------------------
(***************************************************************************)
(* Proof that the decoder stays in step with every datagram that follows   *)
(* the schema, whatever datagrams it decoded before.                       *)
(***************************************************************************)
EXTENDS SIMBADecoder, OrderBookSnapshotProofs, WellFoundedInduction

\* from_id_to_type() has added nothing but unknown templates to the map.
MappingExtendsTemplates ==
  /\ DOMAIN Templates \subseteq DOMAIN mapping_
  /\ \A id \in DOMAIN mapping_ :
       mapping_[id] = IF id \in DOMAIN Templates THEN Templates[id] ELSE "MessageUnknown"

TypeIInv ==
  /\ DecoderTypeOK
  /\ BookIInv
  /\ MappingExtendsTemplates
  /\ decoded \in Seq({decoded[i] : i \in DOMAIN decoded})
  /\ decoding = "entries" => SnapshotStart \in Nat

(***************************************************************************)
(* Where the decoder is in a datagram that follows the schema: before      *)
(* message Len(decoded) + 1, in it, or done.                               *)
(***************************************************************************)
Current == Len(decoded) + 1

MessageLeft == Current \in 1 .. Len(datagram.messages)

BeforeMessage ==
  decoding = "loop" /\ ~to_be_skipped =>
    /\ Current \in 1 .. Len(datagram.messages) + 1
    /\ current_offset_ = datagram.starts[Current]

AfterUnknown ==
  decoding = "loop" /\ to_be_skipped =>
    MessageLeft /\ ~Known(datagram.messages[Current])

InMessage ==
  decoding = "message" =>
    /\ MessageLeft /\ ~to_be_skipped
    /\ current_offset_ = datagram.starts[Current] + SBE_HEADER
    /\ sbe_header_ = [template_id |-> datagram.messages[Current].template_id,
                      block_length |-> datagram.messages[Current].block_length]

InEntries ==
  decoding = "entries" =>
    /\ MessageLeft /\ ~to_be_skipped
    /\ datagram.messages[Current].template_id = 17
    /\ sbe_header_.block_length = datagram.messages[Current].block_length
    /\ group_size = [block_size |-> ORDER_BOOK_ENTRY,
                     num_in_group |-> Len(datagram.messages[Current].entries)]
    /\ current_offset_ = EntryStart(Current, entry_nr + 1)
    /\ inserted = SubSeq(datagram.messages[Current].entries, 1, entry_nr)

InStep ==
  FollowsSchema(datagram) =>
    /\ BeforeMessage
    /\ AfterUnknown
    /\ InMessage
    /\ InEntries

Aligned ==
  /\ InStep
  /\ DecodedInStep
  /\ DecodedUpToUnknown
  /\ SoundDatagramsAreSafe

DecoderIInv == TypeIInv /\ Aligned

-----------------------------------------------------------------------------
(***************************************************************************)
(* Lemmas about the operators of the decoder.                              *)
(***************************************************************************)
LEMMA TemplateIds ==
  /\ DOMAIN Templates = {15, 16, 17}
  /\ Templates[15] = "OrderUpdateType"
  /\ Templates[16] = "OrderExecutionType"
  /\ Templates[17] = "OrderBookSnapshotType"
  /\ MessageTypes = {"OrderUpdateType", "OrderExecutionType", "OrderBookSnapshotType"}
  <1>1. /\ DOMAIN Templates = {15, 16, 17}
        /\ Templates[15] = "OrderUpdateType"
        /\ Templates[16] = "OrderExecutionType"
        /\ Templates[17] = "OrderBookSnapshotType"
    BY DEF Templates
  <1> QED
    BY <1>1 DEF MessageTypes

\* A template has its type, whatever the map has been asked for before.
LEMMA TypeOfTemplateIs ==
  ASSUME MappingExtendsTemplates, NEW id
  PROVE  TypeOfTemplate(id) = IF id \in DOMAIN Templates THEN Templates[id]
                              ELSE "MessageUnknown"
  BY DEF MappingExtendsTemplates, TypeOfTemplate

LEMMA TypeInHand ==
  ASSUME MappingExtendsTemplates, NEW type, MessageInHand(type)
  PROVE  /\ type = "OrderUpdateType" => sbe_header_.template_id = 15
         /\ type = "OrderExecutionType" => sbe_header_.template_id = 16
         /\ type = "OrderBookSnapshotType" => sbe_header_.template_id = 17
         /\ type = "MessageUnknown" => sbe_header_.template_id \notin DOMAIN Templates
  <1>1. TypeOfTemplate(sbe_header_.template_id) = type
    BY DEF MessageInHand
  <1> QED
    BY <1>1, TypeOfTemplateIs, TemplateIds

LEMMA AppendToAny ==
  ASSUME NEW s, s \in Seq({s[i] : i \in DOMAIN s}), NEW x
  PROVE  LET t == Append(s, x) IN
         /\ t \in Seq({t[i] : i \in DOMAIN t})
         /\ Len(s) \in Nat
         /\ DOMAIN s = 1 .. Len(s)
         /\ Len(t) = Len(s) + 1
         /\ DOMAIN t = 1 .. Len(s) + 1
         /\ \A i \in 1 .. Len(s) : t[i] = s[i]
         /\ t[Len(s) + 1] = x
  <1> DEFINE S == {s[i] : i \in DOMAIN s} \cup {x}
             t == Append(s, x)
  <1>1. s \in Seq(S)
    <2>1. {s[i] : i \in DOMAIN s} \subseteq S
      OBVIOUS
    <2> HIDE DEF S
    <2> QED
      BY <2>1
  <1>2. x \in S
    OBVIOUS
  <1> HIDE DEF S
  <1>3. /\ Len(s) \in Nat
        /\ DOMAIN s = 1 .. Len(s)
        /\ Len(t) = Len(s) + 1
        /\ DOMAIN t = 1 .. Len(s) + 1
        /\ \A i \in 1 .. Len(s) : t[i] = s[i]
        /\ t[Len(s) + 1] = x
        /\ t \in Seq(S)
    BY <1>1, <1>2
  <1> HIDE DEF t
  <1>4. t \in Seq({t[i] : i \in DOMAIN t})
    BY <1>3
  <1> QED
    BY <1>3, <1>4 DEF t

LEMMA NoDatagramIsDatagram == IsDatagram(NoDatagram) /\ Len(NoDatagram.messages) = 0
  BY DEF NoDatagram, IsDatagram, HeadersLength, MARKET_HEADER

\* What rises from each place to the next rises from every place to every later one.
LEMMA StartsAscend ==
  ASSUME NEW n \in Nat, NEW s \in [1 .. n -> Nat], \A i \in 1 .. n - 1 : s[i] <= s[i + 1],
         NEW i \in 1 .. n, NEW j \in 1 .. n, i <= j
  PROVE  s[i] <= s[j]
  <1> DEFINE R == {ss \in Nat \X Nat : ss[1] < ss[2]}
             T == {k \in i .. n : ~(s[i] <= s[k])}
  <1>1. SUFFICES ASSUME ~(s[i] <= s[j])
                 PROVE  FALSE
    BY <1>1
  <1>2. T # {}
    <2>1. j \in i .. n
      OBVIOUS
    <2> QED
      BY <1>1, <2>1
  <1>3. IsWellFoundedOn(R, Nat)
    BY NatLessThanWellFounded DEF OpToRel
  <1>4. \A k, m \in Nat : k < m => <<k, m>> \in R
    OBVIOUS
  <1>5. T \subseteq Nat
    OBVIOUS
  <1> HIDE DEF R, T
  <1>6. PICK m \in T : \A k \in T : <<k, m>> \notin R
    BY <1>2, <1>3, <1>5, WFMin
  <1>7. m \in i .. n /\ ~(s[i] <= s[m])
    BY <1>6 DEF T
  <1>8. m # i /\ m - 1 \in i .. n /\ m - 1 \in 1 .. n - 1 /\ m - 1 \in Nat /\ m \in Nat /\ m - 1 < m
    BY <1>7
  <1>9. m - 1 \notin T
    BY <1>4, <1>6, <1>8
  <1>10. s[i] <= s[m - 1] /\ s[m - 1] <= s[(m - 1) + 1] /\ (m - 1) + 1 = m
    BY <1>8, <1>9 DEF T
  <1>11. s[i] \in Nat /\ s[m - 1] \in Nat /\ s[m] \in Nat
    BY <1>7, <1>8
  <1> QED
    BY <1>7, <1>10, <1>11

LEMMA BodyLengthIsNatural ==
  ASSUME NEW m, IsMessage(m)
  PROVE  BodyLength(m) \in Nat
  <1>1. m.block_length \in Nat /\ m.block_size \in Nat /\ Len(m.entries) \in Nat
    BY DEF IsMessage, IsHeader
  <1>2. m.block_size * Len(m.entries) \in Nat
    BY <1>1
  <1> QED
    BY <1>1, <1>2 DEF BodyLength, GROUP_SIZE

\* No message begins before the end of an earlier one.
LEMMA MessagesFollow ==
  ASSUME NEW d, IsDatagram(d), NEW k \in 1 .. Len(d.messages), NEW j \in k + 1 .. Len(d.messages) + 1
  PROVE  d.starts[j] >= MessageEnd(d, k)
  <1> DEFINE n == Len(d.messages) + 1
             s == d.starts
  <1>1. /\ n \in Nat /\ n - 1 = Len(d.messages) /\ s \in [1 .. n -> Nat]
        /\ k + 1 \in 1 .. n /\ j \in 1 .. n /\ k + 1 <= j /\ k \in 1 .. n - 1
    BY DEF IsDatagram
  <1>2. ASSUME NEW i \in 1 .. n - 1
        PROVE  s[i] <= s[i + 1]
    <2>1. s[i + 1] = s[i] + SBE_HEADER + BodyLength(d.messages[i])
      BY <1>1 DEF IsDatagram, MessageEnd
    <2>2. BodyLength(d.messages[i]) \in Nat
      BY <1>1, BodyLengthIsNatural DEF IsDatagram
    <2>3. s[i] \in Nat
      BY <1>1
    <2> HIDE DEF s
    <2> QED
      BY <2>1, <2>2, <2>3 DEF SBE_HEADER
  <1>3. s[k + 1] = MessageEnd(d, k)
    BY DEF IsDatagram
  <1> HIDE DEF s, n
  <1>4. s[k + 1] <= s[j] /\ s[k + 1] \in Nat /\ s[j] \in Nat
    BY <1>1, <1>2, StartsAscend
  <1> QED
    BY <1>3, <1>4 DEF s

LEMMA HeadersAreHeaders ==
  ASSUME IsDatagram(datagram), NEW o
  PROVE  \A h \in HeadersAt(o) : IsHeader(h)
  <1>1. \A k \in MessagesAt(o) : IsHeader(datagram.messages[k])
    BY DEF MessagesAt, IsDatagram, IsMessage
  <1>2. CASE MessagesAt(o) = {}
    BY <1>2, SIMBADecoderAssumption DEF HeadersAt
  <1>3. CASE MessagesAt(o) # {}
    BY <1>1, <1>3 DEF HeadersAt, IsHeader
  <1> QED
    BY <1>2, <1>3

LEMMA GroupsAreGroups ==
  ASSUME IsDatagram(datagram)
  PROVE  \A g \in GroupsInHand : IsGroup(g)
  <1>1. \A k \in MessagesInHand :
          datagram.messages[k].block_size \in Nat /\ Len(datagram.messages[k].entries) \in Nat
    BY DEF MessagesInHand, MessagesAt, IsDatagram, IsMessage
  <1> QED
    BY <1>1, SIMBADecoderAssumption DEF GroupsInHand, IsGroup

LEMMA EntriesAreEntries ==
  ASSUME IsDatagram(datagram)
  PROVE  EntriesInHand \subseteq Entries
  <1>1. \A ki \in EntryPlaces : datagram.messages[ki[1]].entries[ki[2]] \in Entries
    <2>1. \A k \in 1 .. Len(datagram.messages) : datagram.messages[k].entries \in Seq(Entries)
      BY DEF IsDatagram, IsMessage
    <2> QED
      BY <2>1 DEF EntryPlaces
  <1> QED
    BY <1>1 DEF EntriesInHand

-----------------------------------------------------------------------------
(***************************************************************************)
(* Types.                                                                  *)
(***************************************************************************)
LEMMA ReceiveKeepsTypes ==
  ASSUME TypeIInv, NEW d \in Datagrams, Receive(d)
  PROVE  TypeIInv'
  <1>1. IsDatagram(d)
    BY SIMBADecoderAssumption
  <1>2. HeadersLength(d) \in Nat
    BY DEF HeadersLength, MARKET_HEADER, INCREMENTAL_HEADER
  <1>3. BookIInv' /\ BookTypeOK'
    BY BookStep DEF TypeIInv, Receive, BookIInv
  <1>4. MappingExtendsTemplates'
    BY DEF TypeIInv, MappingExtendsTemplates, Receive
  <1>5. DecoderTypeOK'
    <2>1. DOMAIN decoded' = {} /\ datagram' = d
      BY DEF Receive
    <2>2. UNCHANGED <<handlers, sbe_header_, mapping_, group_size, entry_nr, status>>
      BY DEF Receive, groupVars
    <2>3. current_offset_' \in Nat /\ to_be_skipped' = FALSE /\ decoding' = "loop"
      BY <1>2 DEF Receive
    <2> QED
      BY <1>1, <1>3, <2>1, <2>2, <2>3 DEF TypeIInv, DecoderTypeOK
  <1> QED
    BY <1>3, <1>4, <1>5 DEF TypeIInv, Receive

LEMMA ReadSBEHeaderKeepsTypes ==
  ASSUME TypeIInv, ReadSBEHeader
  PROVE  TypeIInv'
  <1>1. PICK h \in HeadersAt(current_offset_) :
          /\ sbe_header_' = h
          /\ mapping_' = [id \in DOMAIN mapping_ \cup {h.template_id} |-> TypeOfTemplate(id)]
    BY DEF ReadSBEHeader
  <1>2. IsHeader(h)
    BY HeadersAreHeaders DEF TypeIInv, DecoderTypeOK
  <1>3. BookIInv' /\ BookTypeOK'
    BY BookStep DEF TypeIInv, ReadSBEHeader, BookIInv
  <1>4. MappingExtendsTemplates'
    BY <1>1, TypeOfTemplateIs DEF TypeIInv, MappingExtendsTemplates
  <1>5. /\ DOMAIN mapping_' \subseteq Nat
        /\ \A id \in DOMAIN mapping_' : mapping_'[id] \in MessageTypes \cup {"MessageUnknown"}
    BY <1>1, <1>2, <1>4 DEF TypeIInv, DecoderTypeOK, IsHeader, MappingExtendsTemplates,
      MessageTypes
  <1>6. DecoderTypeOK'
    <2>1. UNCHANGED <<datagram, handlers, to_be_skipped, group_size, entry_nr, status, decoded>>
      BY DEF ReadSBEHeader, groupVars
    <2>2. current_offset_' \in Nat /\ decoding' = "message" /\ IsHeader(sbe_header_')
      BY <1>1, <1>2 DEF ReadSBEHeader, SBE_HEADER, TypeIInv, DecoderTypeOK
    <2> QED
      BY <1>3, <1>5, <2>1, <2>2 DEF TypeIInv, DecoderTypeOK
  <1> QED
    BY <1>3, <1>4, <1>6 DEF TypeIInv, ReadSBEHeader

LEMMA HandleKeepsTypes ==
  ASSUME TypeIInv, NEW type \in MessageTypes, NEW size \in Nat, Handle(type, size)
  PROVE  TypeIInv'
  <1> DEFINE item == Item(type, current_offset_, sbe_header_.block_length,
                          "orders" \in handlers, {}, {})
  <1>1. item.type = type /\ item.at = current_offset_
    BY DEF Item
  <1> HIDE DEF item
  <1>2. decoded' = Append(decoded, item)
    BY DEF Handle, item
  <1>3. /\ decoded' \in Seq({decoded'[i] : i \in DOMAIN decoded'})
        /\ DOMAIN decoded = 1 .. Len(decoded) /\ Len(decoded) \in Nat
        /\ DOMAIN decoded' = 1 .. Len(decoded) + 1
        /\ \A i \in 1 .. Len(decoded) : decoded'[i] = decoded[i]
        /\ decoded'[Len(decoded) + 1] = item
    BY <1>2, AppendToAny DEF TypeIInv
  <1>4. BookIInv' /\ BookTypeOK'
    BY BookStep DEF TypeIInv, Handle, BookIInv
  <1>5. MappingExtendsTemplates'
    BY DEF TypeIInv, MappingExtendsTemplates, Handle
  <1>6. \A i \in DOMAIN decoded' : decoded'[i].type \in MessageTypes /\ decoded'[i].at \in Nat
    <2>1. item.type \in MessageTypes /\ item.at \in Nat
      BY <1>1 DEF TypeIInv, DecoderTypeOK
    <2>2. \A i \in DOMAIN decoded : decoded[i].type \in MessageTypes /\ decoded[i].at \in Nat
      BY DEF TypeIInv, DecoderTypeOK
    <2>3. \A i \in DOMAIN decoded' : i \in DOMAIN decoded \/ i = Len(decoded) + 1
      BY <1>3
    <2> QED
      BY <1>3, <2>1, <2>2, <2>3
  <1>7. DecoderTypeOK'
    BY <1>4, <1>6 DEF TypeIInv, DecoderTypeOK, Handle, groupVars
  <1> QED
    BY <1>3, <1>4, <1>5, <1>7 DEF TypeIInv, Handle

LEMMA DecodingEndsKeepsTypes ==
  ASSUME TypeIInv, NEW how \in {"terminated", "undefined"}, DecodingEnds(how)
  PROVE  TypeIInv'
  <1>1. BookIInv' /\ BookTypeOK'
    BY BookStep DEF TypeIInv, DecodingEnds, BookIInv
  <1>2. MappingExtendsTemplates'
    BY DEF TypeIInv, MappingExtendsTemplates, DecodingEnds
  <1>3. DecoderTypeOK'
    BY <1>1 DEF TypeIInv, DecoderTypeOK, DecodingEnds, groupVars, offsetVars
  <1> QED
    BY <1>1, <1>2, <1>3
      DEF TypeIInv, DecodingEnds, groupVars, offsetVars, SnapshotStart

LEMMA SnapshotHeaderKeepsTypes ==
  ASSUME TypeIInv, SnapshotHeader
  PROVE  TypeIInv'
  <1>1. IsGroup(group_size')
    BY GroupsAreGroups DEF TypeIInv, DecoderTypeOK, SnapshotHeader
  <1>2. BookIInv' /\ BookTypeOK'
    BY BookStep DEF TypeIInv, SnapshotHeader, BookIInv
  <1>3. MappingExtendsTemplates'
    BY DEF TypeIInv, MappingExtendsTemplates, SnapshotHeader
  <1>4. DecoderTypeOK'
    BY <1>1, <1>2 DEF TypeIInv, DecoderTypeOK, SnapshotHeader, IsGroup, IsHeader, GROUP_SIZE
  <1>5. SnapshotStart' = current_offset_
    BY <1>1 DEF TypeIInv, DecoderTypeOK, SnapshotHeader, SnapshotStart, IsGroup, IsHeader,
      GROUP_SIZE
  <1> QED
    BY <1>2, <1>3, <1>4, <1>5 DEF TypeIInv, DecoderTypeOK, SnapshotHeader

LEMMA SnapshotEntryKeepsTypes ==
  ASSUME TypeIInv, SnapshotEntry
  PROVE  TypeIInv'
  <1> DEFINE bs == group_size.block_size
  <1>1. /\ entry_nr \in Nat /\ bs \in Nat /\ group_size.num_in_group \in Nat
        /\ entry_nr < group_size.num_in_group
    BY DEF TypeIInv, DecoderTypeOK, IsGroup, SnapshotEntry, MoreEntries
  <1>2. BookIInv' /\ BookTypeOK'
    <2>1. \E e \in Entries : Insert(e)
      BY EntriesAreEntries DEF SnapshotEntry, TypeIInv, DecoderTypeOK
    <2> QED
      BY <2>1, BookStep DEF TypeIInv, BookIInv
  <1>3. MappingExtendsTemplates'
    BY DEF TypeIInv, MappingExtendsTemplates, SnapshotEntry
  <1>4. DecoderTypeOK'
    BY <1>1, <1>2 DEF TypeIInv, DecoderTypeOK, SnapshotEntry
  <1>5. SnapshotStart' = SnapshotStart
    <2>1. /\ current_offset_' = current_offset_ + bs
          /\ entry_nr' = entry_nr + 1
          /\ group_size' = group_size /\ sbe_header_' = sbe_header_
      BY DEF SnapshotEntry
    <2>2. current_offset_ \in Nat /\ sbe_header_.block_length \in Nat
      BY DEF TypeIInv, DecoderTypeOK, IsHeader
    <2> DEFINE read == entry_nr * bs
    <2>3. entry_nr' * bs = read + bs /\ read \in Nat
      BY <1>1, <2>1
    <2>4. /\ SnapshotStart = current_offset_ - read - 3 - sbe_header_.block_length
          /\ SnapshotStart' = (current_offset_ + bs) - (read + bs) - 3 - sbe_header_.block_length
      <3> HIDE DEF read
      <3>1. SnapshotStart = current_offset_ - read - 3 - sbe_header_.block_length
        BY DEF SnapshotStart, GROUP_SIZE, read
      <3>2. SnapshotStart' = current_offset_' - entry_nr' * bs - 3 - sbe_header_.block_length
        <4>1. SnapshotStart' = current_offset_' - entry_nr' * group_size'.block_size - 3
                                 - sbe_header_'.block_length
          BY DEF SnapshotStart, GROUP_SIZE
        <4>2. group_size'.block_size = bs /\ sbe_header_'.block_length = sbe_header_.block_length
          BY <2>1
        <4>3. entry_nr' * group_size'.block_size = entry_nr' * bs
          BY <4>2, Zenon
        <4> HIDE DEF bs
        <4> QED
          BY <4>1, <4>2, <4>3, Zenon
      <3> QED
        BY <2>1, <2>3, <3>1, <3>2
    <2> HIDE DEF read, bs
    <2> QED
      BY <1>1, <2>2, <2>3, <2>4
  <1> QED
    BY <1>2, <1>3, <1>4, <1>5 DEF TypeIInv, SnapshotEntry, MoreEntries, DecoderAt

LEMMA SnapshotDoneKeepsTypes ==
  ASSUME TypeIInv, SnapshotDone
  PROVE  TypeIInv'
  <1> DEFINE item == Item("OrderBookSnapshotType", SnapshotStart, sbe_header_.block_length,
                          "book" \in handlers, ToSet(bid_book_), ToSet(ask_book_))
  <1>1. item.type = "OrderBookSnapshotType" /\ item.at = SnapshotStart
    BY DEF Item
  <1> HIDE DEF item
  <1>2. decoded' = Append(decoded, item) /\ SnapshotStart \in Nat
    BY DEF SnapshotDone, DecoderAt, TypeIInv, item
  <1>3. /\ decoded' \in Seq({decoded'[i] : i \in DOMAIN decoded'})
        /\ DOMAIN decoded = 1 .. Len(decoded) /\ Len(decoded) \in Nat
        /\ DOMAIN decoded' = 1 .. Len(decoded) + 1
        /\ \A i \in 1 .. Len(decoded) : decoded'[i] = decoded[i]
        /\ decoded'[Len(decoded) + 1] = item
    BY <1>2, AppendToAny DEF TypeIInv
  <1>4. BookIInv' /\ BookTypeOK'
    BY BookStep DEF TypeIInv, SnapshotDone, BookIInv
  <1>5. MappingExtendsTemplates'
    BY DEF TypeIInv, MappingExtendsTemplates, SnapshotDone
  <1>6. \A i \in DOMAIN decoded' : decoded'[i].type \in MessageTypes /\ decoded'[i].at \in Nat
    <2>1. \A i \in DOMAIN decoded : decoded[i].type \in MessageTypes /\ decoded[i].at \in Nat
      BY DEF TypeIInv, DecoderTypeOK
    <2>2. item.type \in MessageTypes /\ item.at \in Nat
      BY <1>1, <1>2, TemplateIds
    <2>3. \A i \in DOMAIN decoded' : i \in DOMAIN decoded \/ i = Len(decoded) + 1
      BY <1>3
    <2> QED
      BY <1>3, <2>1, <2>2, <2>3
  <1>7. DecoderTypeOK'
    BY <1>4, <1>6 DEF TypeIInv, DecoderTypeOK, SnapshotDone, groupVars, offsetVars
  <1> QED
    BY <1>3, <1>4, <1>5, <1>7 DEF TypeIInv, SnapshotDone

LEMMA QuietStepKeepsTypes ==
  ASSUME TypeIInv, SkipMessage \/ DatagramDone \/ UNCHANGED vars
  PROVE  TypeIInv'
  <1>1. BookIInv' /\ BookTypeOK'
    BY BookStep DEF TypeIInv, SkipMessage, DatagramDone, vars, BookIInv
  <1>2. MappingExtendsTemplates'
    BY DEF TypeIInv, MappingExtendsTemplates, SkipMessage, DatagramDone, vars
  <1>3. DecoderTypeOK'
    BY <1>1 DEF TypeIInv, DecoderTypeOK, SkipMessage, DatagramDone, vars, groupVars, offsetVars
  <1>4. (decoding = "entries" => SnapshotStart \in Nat)'
    BY DEF TypeIInv, SnapshotStart, SkipMessage, DatagramDone, vars, groupVars, offsetVars
  <1>5. decoded' = decoded
    BY DEF SkipMessage, DatagramDone, vars
  <1> QED
    BY <1>1, <1>2, <1>3, <1>4, <1>5 DEF TypeIInv

LEMMA TypesKept ==
  ASSUME TypeIInv, [Next]_vars
  PROVE  TypeIInv'
  <1>1. CASE \E d \in Datagrams : Receive(d)
    BY <1>1, ReceiveKeepsTypes
  <1>2. CASE ReadSBEHeader
    BY <1>2, ReadSBEHeaderKeepsTypes
  <1>3. CASE HandleOrderUpdate \/ HandleOrderExecution
    <2>1. ORDER_UPDATE \in Nat /\ ORDER_EXECUTION \in Nat
      BY DEF ORDER_UPDATE, ORDER_EXECUTION
    <2> QED
      BY <1>3, <2>1, TemplateIds, HandleKeepsTypes DEF HandleOrderUpdate, HandleOrderExecution
  <1>4. CASE LineThrows \/ BlockTooLong \/ EntryThrows \/ EntryTooLong
    BY <1>4, DecodingEndsKeepsTypes DEF LineThrows, BlockTooLong, EntryThrows, EntryTooLong
  <1>5. CASE SnapshotHeader
    BY <1>5, SnapshotHeaderKeepsTypes
  <1>6. CASE SnapshotEntry
    BY <1>6, SnapshotEntryKeepsTypes
  <1>7. CASE SnapshotDone
    BY <1>7, SnapshotDoneKeepsTypes
  <1>8. CASE SkipMessage \/ DatagramDone \/ UNCHANGED vars
    BY <1>8, QuietStepKeepsTypes
  <1> QED
    BY <1>1, <1>2, <1>3, <1>4, <1>5, <1>6, <1>7, <1>8 DEF Next, DecodeStep

-----------------------------------------------------------------------------
(***************************************************************************)
(* What a datagram that follows the schema has at an offset.               *)
(***************************************************************************)
InSchema == IsDatagram(datagram) /\ FollowsSchema(datagram)

LEMMA SchemaLengths ==
  ASSUME InSchema, NEW k \in 1 .. Len(datagram.messages)
  PROVE  LET m == datagram.messages[k] IN
         /\ m.template_id \in Nat /\ m.block_length \in Nat
         /\ m.entries \in Seq(Entries)
         /\ m.template_id # 17 => m.entries = <<>>
         /\ m.template_id = 15 => m.block_length = 50
         /\ m.template_id = 16 => m.block_length = 74
         /\ m.template_id = 17 => m.block_length = 16 /\ m.block_size = 57
         /\ m.template_id # 17 => BodyLength(m) = m.block_length
         /\ m.template_id = 17 => BodyLength(m) = 19 + 57 * Len(m.entries)
         /\ BodyLength(m) \in Nat
  <1> DEFINE m == datagram.messages[k]
  <1>1. /\ m.template_id \in Nat /\ m.block_length \in Nat
        /\ m.entries \in Seq(Entries) /\ Len(m.entries) \in Nat
        /\ m.template_id # 17 => m.entries = <<>>
    BY DEF InSchema, IsDatagram, IsMessage, IsHeader
  <1>2. (CASE m.template_id = 15 -> m.block_length = 50
           [] m.template_id = 16 -> m.block_length = 74
           [] m.template_id = 17 -> m.block_length + 3 = 19 /\ m.block_size = 57
           [] OTHER -> TRUE)
    BY DEF InSchema, FollowsSchema, ORDER_UPDATE, ORDER_EXECUTION, SNAPSHOT_HEADER, GROUP_SIZE,
      ORDER_BOOK_ENTRY
  <1> HIDE DEF m
  <1>3. /\ m.template_id = 15 => m.block_length = 50
        /\ m.template_id = 16 => m.block_length = 74
        /\ m.template_id = 17 => m.block_length = 16 /\ m.block_size = 57
    BY <1>1, <1>2
  <1>4. /\ m.template_id # 17 => BodyLength(m) = m.block_length
        /\ m.template_id = 17 => BodyLength(m) = 19 + 57 * Len(m.entries)
    BY <1>1, <1>3 DEF BodyLength, GROUP_SIZE
  <1>5. BodyLength(m) \in Nat
    BY <1>1, <1>4
  <1> QED
    BY <1>1, <1>3, <1>4, <1>5 DEF m

LEMMA StartsOfMessages ==
  ASSUME InSchema, NEW k \in 1 .. Len(datagram.messages)
  PROVE  /\ Len(datagram.messages) \in Nat
         /\ datagram.starts[k] \in Nat
         /\ datagram.starts[k + 1] = MessageEnd(datagram, k)
         /\ \A j \in k + 1 .. Len(datagram.messages) + 1 :
              datagram.starts[j] \in Nat /\ datagram.starts[j] >= MessageEnd(datagram, k)
         /\ MessageEnd(datagram, k) = datagram.starts[k] + 8 + BodyLength(datagram.messages[k])
         /\ MessageEnd(datagram, k) \in Nat
         /\ MessageEnd(datagram, k) > datagram.starts[k]
  <1>1. /\ Len(datagram.messages) \in Nat
        /\ datagram.starts \in [1 .. Len(datagram.messages) + 1 -> Nat]
        /\ datagram.starts[k + 1] = MessageEnd(datagram, k)
        /\ \A j \in k + 1 .. Len(datagram.messages) + 1 :
             datagram.starts[j] >= MessageEnd(datagram, k)
    BY MessagesFollow DEF InSchema, IsDatagram
  <1>2. MessageEnd(datagram, k) = datagram.starts[k] + 8 + BodyLength(datagram.messages[k])
    BY DEF MessageEnd, SBE_HEADER
  <1>3. BodyLength(datagram.messages[k]) \in Nat
    BY SchemaLengths
  <1>4. datagram.starts[k] \in Nat
    BY <1>1
  <1>5. MessageEnd(datagram, k) \in Nat /\ MessageEnd(datagram, k) > datagram.starts[k]
    BY <1>2, <1>3, <1>4
  <1>6. \A j \in k + 1 .. Len(datagram.messages) + 1 : datagram.starts[j] \in Nat
    BY <1>1
  <1> QED
    BY <1>1, <1>2, <1>4, <1>5, <1>6

LEMMA MessageAtItsStart ==
  ASSUME InSchema, NEW k \in 1 .. Len(datagram.messages)
  PROVE  MessagesAt(datagram.starts[k]) = {k}
  <1>1. ASSUME NEW i \in 1 .. Len(datagram.messages), NEW j \in 1 .. Len(datagram.messages),
               i < j
        PROVE  datagram.starts[i] # datagram.starts[j]
    <2>1. /\ datagram.starts[j] >= MessageEnd(datagram, i)
          /\ MessageEnd(datagram, i) > datagram.starts[i]
          /\ MessageEnd(datagram, i) \in Nat
          /\ datagram.starts[j] \in Nat /\ datagram.starts[i] \in Nat
      <3>1. Len(datagram.messages) \in Nat
        BY StartsOfMessages
      <3>2. j \in i + 1 .. Len(datagram.messages) + 1
        BY <1>1, <3>1
      <3> QED
        BY <3>2, StartsOfMessages
    <2> QED
      BY <2>1
  <1>2. Len(datagram.messages) \in Nat
    BY StartsOfMessages
  <1>3. \A j \in 1 .. Len(datagram.messages) : j # k => j < k \/ k < j
    BY <1>2
  <1> QED
    BY <1>1, <1>3 DEF MessagesAt

LEMMA PlacesOfEntries ==
  ASSUME InSchema, NEW k \in 1 .. Len(datagram.messages),
         datagram.messages[k].template_id = 17,
         NEW i \in 1 .. Len(datagram.messages[k].entries)
  PROVE  /\ EntryStart(k, i) \in Nat
         /\ EntryStart(k, i) > datagram.starts[k]
         /\ EntryStart(k, i) < MessageEnd(datagram, k)
         /\ \A j \in 1 .. Len(datagram.messages[k].entries) :
              EntryStart(k, j) = EntryStart(k, i) => j = i
  <1> DEFINE n == Len(datagram.messages[k].entries)
  <1>1. /\ datagram.messages[k].block_length = 16
        /\ BodyLength(datagram.messages[k]) = 19 + 57 * n
        /\ n \in Nat
    BY SchemaLengths
  <1>2. /\ datagram.starts[k] \in Nat
        /\ MessageEnd(datagram, k) = datagram.starts[k] + 8 + BodyLength(datagram.messages[k])
    BY StartsOfMessages
  <1> HIDE DEF n
  <1>3. ASSUME NEW j \in 1 .. n
        PROVE  EntryStart(k, j) = datagram.starts[k] + 27 + (j - 1) * 57
    <2>1. EntryStart(k, j)
            = datagram.starts[k] + 8 + datagram.messages[k].block_length + 3 + (j - 1) * 57
      BY DEF EntryStart, SBE_HEADER, GROUP_SIZE, ORDER_BOOK_ENTRY
    <2> QED
      BY <1>1, <1>2, <2>1
  <1>4. i \in 1 .. n
    BY DEF n
  <1>5. /\ EntryStart(k, i) \in Nat
        /\ EntryStart(k, i) > datagram.starts[k]
        /\ EntryStart(k, i) < MessageEnd(datagram, k)
    <2> DEFINE at == datagram.starts[k]
    <2>1. at \in Nat /\ MessageEnd(datagram, k) = at + 8 + 19 + 57 * n
      BY <1>1, <1>2
    <2>2. EntryStart(k, i) = at + 27 + (i - 1) * 57
      BY <1>3, <1>4
    <2>3. i \in Nat /\ 1 <= i /\ i <= n
      BY <1>1, <1>4
    <2> HIDE DEF at
    <2>4. EntryStart(k, i) \in Nat /\ EntryStart(k, i) > at
      BY <2>1, <2>2, <2>3
    <2>5. EntryStart(k, i) < MessageEnd(datagram, k)
      BY <1>1, <2>1, <2>2, <2>3
    <2> QED
      BY <2>4, <2>5 DEF at
  <1>6. \A j \in 1 .. n : EntryStart(k, j) = EntryStart(k, i) => j = i
    BY <1>1, <1>2, <1>3, <1>4
  <1> QED
    BY <1>5, <1>6 DEF n

\* No other message has an entry at the place of an entry of this one.
LEMMA EntryAtItsPlace ==
  ASSUME InSchema, NEW k \in 1 .. Len(datagram.messages),
         datagram.messages[k].template_id = 17,
         NEW i \in 1 .. Len(datagram.messages[k].entries),
         current_offset_ = EntryStart(k, i), group_size.block_size = 57
  PROVE  EntriesInHand = {datagram.messages[k].entries[i]}
  <1> DEFINE here == {ki \in EntryPlaces : EntryStart(ki[1], ki[2]) = current_offset_}
  <1>1. <<k, i>> \in here
    BY SchemaLengths DEF EntryPlaces, ORDER_BOOK_ENTRY
  <1>2. ASSUME NEW ki \in here
        PROVE  ki = <<k, i>>
    <2>0. PICK l \in 1 .. Len(datagram.messages) :
            \E j \in 1 .. Len(datagram.messages[l].entries) :
              ki = <<l, j>> /\ EntryStart(l, j) = current_offset_
      BY DEF EntryPlaces
    <2>1. PICK j \in 1 .. Len(datagram.messages[l].entries) :
            ki = <<l, j>> /\ EntryStart(l, j) = current_offset_
      BY <2>0
    <2>2. datagram.messages[l].template_id = 17
      <3>1. datagram.messages[l].template_id # 17 => Len(datagram.messages[l].entries) = 0
        BY SchemaLengths
      <3> QED
        BY <2>1, <3>1
    <2>3. /\ EntryStart(k, i) \in Nat
          /\ datagram.starts[k] < EntryStart(k, i) /\ EntryStart(k, i) < MessageEnd(datagram, k)
          /\ datagram.starts[l] < EntryStart(l, j) /\ EntryStart(l, j) < MessageEnd(datagram, l)
      BY <2>1, <2>2, PlacesOfEntries
    <2>4. /\ datagram.starts[k] \in Nat /\ MessageEnd(datagram, k) \in Nat
          /\ datagram.starts[l] \in Nat /\ MessageEnd(datagram, l) \in Nat
          /\ Len(datagram.messages) \in Nat
      BY <2>1, StartsOfMessages
    <2>5. ASSUME k < l PROVE FALSE
      <3>1. l \in k + 1 .. Len(datagram.messages) + 1
        BY <2>1, <2>4, <2>5
      <3>2. datagram.starts[l] >= MessageEnd(datagram, k)
        BY <3>1, StartsOfMessages
      <3> QED
        BY <2>1, <2>3, <2>4, <3>2
    <2>6. ASSUME l < k PROVE FALSE
      <3>1. k \in l + 1 .. Len(datagram.messages) + 1
        BY <2>1, <2>4, <2>6
      <3>2. datagram.starts[k] >= MessageEnd(datagram, l)
        BY <2>1, <3>1, StartsOfMessages
      <3> QED
        BY <2>1, <2>3, <2>4, <3>2
    <2>7. l = k
      BY <2>1, <2>4, <2>5, <2>6
    <2>8. j = i
      BY <2>1, <2>7, PlacesOfEntries
    <2> QED
      BY <2>1, <2>7, <2>8
  <1>3. here = {<<k, i>>}
    BY <1>1, <1>2
  <1>4. ~(group_size.block_size < ORDER_BOOK_ENTRY)
    BY DEF ORDER_BOOK_ENTRY
  <1>5. EntriesInHand = {datagram.messages[ki[1]].entries[ki[2]] : ki \in here}
    BY <1>3, <1>4 DEF EntriesInHand
  <1> HIDE DEF here
  <1> QED
    BY <1>3, <1>5

LEMMA HeaderAtItsStart ==
  ASSUME InSchema, NEW k \in 1 .. Len(datagram.messages)
  PROVE  HeadersAt(datagram.starts[k])
           = {[template_id |-> datagram.messages[k].template_id,
               block_length |-> datagram.messages[k].block_length]}
  BY MessageAtItsStart DEF HeadersAt

LEMMA OneMessageInHand ==
  ASSUME InSchema, MessageLeft, current_offset_ = datagram.starts[Current] + SBE_HEADER
  PROVE  MessagesInHand = {Current}
  <1>1. datagram.starts[Current] \in Nat
    BY StartsOfMessages DEF MessageLeft
  <1>2. current_offset_ - SBE_HEADER = datagram.starts[Current]
    BY <1>1 DEF SBE_HEADER
  <1> QED
    BY <1>2, MessageAtItsStart DEF MessagesInHand, MessageLeft

LEMMA NoEntriesNoBook ==
  ASSUME NEW side
  PROVE  FirstEntries(<<>>, side) = {}
  BY DEF FirstEntries, OnSide

LEMMA OneMoreOfSequence ==
  ASSUME NEW S, NEW s \in Seq(S), NEW n \in Nat, n < Len(s)
  PROVE  Append(SubSeq(s, 1, n), s[n + 1]) = SubSeq(s, 1, n + 1)
  <1>1. /\ n + 1 \in 1 .. Len(s) /\ s[n + 1] \in S
        /\ SubSeq(s, 1, n) \in Seq(S) /\ Len(SubSeq(s, 1, n)) = n
        /\ SubSeq(s, 1, n + 1) \in Seq(S) /\ Len(SubSeq(s, 1, n + 1)) = n + 1
        /\ \A i \in 1 .. n : SubSeq(s, 1, n)[i] = s[i]
        /\ \A i \in 1 .. n + 1 : SubSeq(s, 1, n + 1)[i] = s[i]
    OBVIOUS
  <1> DEFINE t == Append(SubSeq(s, 1, n), s[n + 1])
             u == SubSeq(s, 1, n + 1)
  <1>2. /\ t \in Seq(S) /\ Len(t) = n + 1
        /\ \A i \in 1 .. n : t[i] = s[i]
        /\ t[n + 1] = s[n + 1]
    BY <1>1
  <1>3. u \in Seq(S) /\ Len(u) = n + 1 /\ \A i \in 1 .. n + 1 : u[i] = s[i]
    BY <1>1
  <1> HIDE DEF t, u
  <1>4. \A i \in 1 .. n + 1 : t[i] = u[i]
    BY <1>2, <1>3
  <1>5. t = u
    BY <1>2, <1>3, <1>4
  <1> QED
    BY <1>5 DEF t, u

LEMMA WholeSequence ==
  ASSUME NEW S, NEW s \in Seq(S)
  PROVE  SubSeq(s, 1, Len(s)) = s
  OBVIOUS

-----------------------------------------------------------------------------
(***************************************************************************)
(* Every step keeps the decoder aligned.                                   *)
(***************************************************************************)
\* Nothing is claimed of a datagram that does not follow the schema.
LEMMA OutsideSchema ==
  ASSUME datagram' = datagram, ~FollowsSchema(datagram)
  PROVE  Aligned'
  BY DEF Aligned, InStep, DecodedInStep, DecodedUpToUnknown, SoundDatagramsAreSafe, Sound

LEMMA ReceiveAligns ==
  ASSUME NEW d \in Datagrams, Receive(d)
  PROVE  Aligned'
  <1>1. /\ datagram' = d /\ decoded' = <<>> /\ current_offset_' = HeadersLength(d)
        /\ decoding' = "loop" /\ to_be_skipped' = FALSE /\ status' = "running"
    BY DEF Receive, DecoderAt
  <1>2. IsDatagram(d) /\ Len(d.messages) \in Nat /\ d.starts[1] = HeadersLength(d)
    BY SIMBADecoderAssumption DEF IsDatagram
  <1>3. Current' = 1
    BY <1>1 DEF Current
  <1>4. BeforeMessage'
    BY <1>1, <1>2, <1>3 DEF BeforeMessage
  <1>5. AfterUnknown' /\ InMessage' /\ InEntries'
    BY <1>1 DEF AfterUnknown, InMessage, InEntries
  <1>6. DecodedInStep'
    <2>1. DOMAIN decoded' = {}
      BY <1>1
    <2> QED
      BY <2>1 DEF DecodedInStep
  <1>7. DecodedUpToUnknown' /\ SoundDatagramsAreSafe'
    BY <1>1 DEF DecodedUpToUnknown, SoundDatagramsAreSafe
  <1> QED
    BY <1>4, <1>5, <1>6, <1>7 DEF Aligned, InStep

\* What every step but Receive has in common in a datagram that follows the schema.
LEMMA InStepFacts ==
  ASSUME TypeIInv, Aligned, FollowsSchema(datagram)
  PROVE  /\ InSchema
         /\ BeforeMessage /\ AfterUnknown /\ InMessage /\ InEntries
         /\ \A i \in DOMAIN decoded :
              /\ i \in 1 .. Len(datagram.messages)
              /\ Known(datagram.messages[i])
              /\ decoded[i] = Expected(datagram, i)
         /\ Len(datagram.messages) \in Nat
         /\ Len(decoded) \in Nat
         /\ Current \in Nat
  BY DEF TypeIInv, DecoderTypeOK, Aligned, InStep, DecodedInStep, InSchema, IsDatagram, Current

\* A step that adds nothing to what was decoded, and does not return or end the process.
LEMMA HistoryKept ==
  ASSUME TypeIInv, Aligned, FollowsSchema(datagram),
         UNCHANGED <<datagram, handlers, decoded, status>>, decoding' # "idle",
         BeforeMessage', AfterUnknown', InMessage', InEntries'
  PROVE  Aligned'
  <1>1. DecodedInStep'
    BY DEF Aligned, DecodedInStep, Expected
  <1>2. SoundDatagramsAreSafe'
    BY DEF Aligned, SoundDatagramsAreSafe
  <1> QED
    BY <1>1, <1>2 DEF Aligned, InStep, DecodedUpToUnknown

LEMMA ReadSBEHeaderAligned ==
  ASSUME TypeIInv, Aligned, ReadSBEHeader
  PROVE  Aligned'
  <1> SUFFICES ASSUME FollowsSchema(datagram)
               PROVE  Aligned'
    BY OutsideSchema DEF ReadSBEHeader
  <1>1. /\ InSchema /\ BeforeMessage /\ Len(datagram.messages) \in Nat /\ Current \in Nat
    BY InStepFacts
  <1>2. /\ decoding = "loop" /\ ~to_be_skipped /\ current_offset_ < datagram.message_size
    BY DEF ReadSBEHeader, DecoderAt, MoreMessages
  <1>3. MessageLeft /\ current_offset_ = datagram.starts[Current]
    <2>1. /\ Current \in 1 .. Len(datagram.messages) + 1
          /\ current_offset_ = datagram.starts[Current]
      BY <1>1, <1>2 DEF BeforeMessage
    <2>2. /\ datagram.message_size = datagram.starts[Len(datagram.messages) + 1]
          /\ datagram.message_size \in Nat
      BY <1>1 DEF InSchema, FollowsSchema, IsDatagram
    <2>3. Current # Len(datagram.messages) + 1
      BY <1>2, <2>1, <2>2
    <2> QED
      BY <1>1, <2>1, <2>3 DEF MessageLeft
  <1>4. /\ sbe_header_' = [template_id |-> datagram.messages[Current].template_id,
                           block_length |-> datagram.messages[Current].block_length]
        /\ current_offset_' = datagram.starts[Current] + SBE_HEADER
        /\ decoding' = "message"
        /\ UNCHANGED <<datagram, handlers, to_be_skipped, decoded, status>>
    BY <1>1, <1>3, HeaderAtItsStart DEF ReadSBEHeader, MessageLeft
  <1>5. Current' = Current
    BY <1>4 DEF Current
  <1>6. InMessage'
    BY <1>2, <1>3, <1>4, <1>5 DEF InMessage, MessageLeft
  <1>7. BeforeMessage' /\ AfterUnknown' /\ InEntries'
    BY <1>4 DEF BeforeMessage, AfterUnknown, InEntries
  <1> QED
    BY <1>4, <1>6, <1>7, HistoryKept

\* A step that adds the message it should, and ends where the next one begins.
LEMMA MessageAdded ==
  ASSUME TypeIInv, Aligned, FollowsSchema(datagram), MessageLeft,
         Known(datagram.messages[Current]),
         decoded' = Append(decoded, Expected(datagram, Current)),
         UNCHANGED <<datagram, handlers, status>>,
         decoding' = "loop", ~to_be_skipped',
         current_offset_' = datagram.starts[Current + 1]
  PROVE  Aligned'
  <1>1. /\ Len(decoded) \in Nat
        /\ DOMAIN decoded = 1 .. Len(decoded)
        /\ Len(decoded') = Len(decoded) + 1
        /\ DOMAIN decoded' = 1 .. Len(decoded) + 1
        /\ \A i \in 1 .. Len(decoded) : decoded'[i] = decoded[i]
        /\ decoded'[Len(decoded) + 1] = Expected(datagram, Current)
    BY AppendToAny DEF TypeIInv
  <1>2. /\ Current \in 1 .. Len(datagram.messages)
        /\ Current = Len(decoded) + 1
        /\ Len(datagram.messages) \in Nat
    BY InStepFacts DEF MessageLeft, Current
  <1>3. \A i \in DOMAIN decoded' :
          /\ i \in 1 .. Len(datagram.messages)
          /\ Known(datagram.messages[i])
          /\ decoded'[i] = Expected(datagram, i)
    <2> SUFFICES ASSUME NEW i \in DOMAIN decoded'
                 PROVE  /\ i \in 1 .. Len(datagram.messages)
                        /\ Known(datagram.messages[i])
                        /\ decoded'[i] = Expected(datagram, i)
      OBVIOUS
    <2>1. CASE i = Current
      BY <1>1, <1>2, <2>1
    <2>2. CASE i # Current
      <3>1. i \in DOMAIN decoded
        BY <1>1, <1>2, <2>2
      <3> QED
        BY <1>1, <3>1, InStepFacts
    <2> QED
      BY <2>1, <2>2
  <1>4. DecodedInStep'
    BY <1>3 DEF DecodedInStep, Expected
  <1>5. Current' = Current + 1
    BY <1>1, <1>2 DEF Current
  <1>6. BeforeMessage'
    BY <1>2, <1>5 DEF BeforeMessage
  <1>7. AfterUnknown' /\ InMessage' /\ InEntries' /\ DecodedUpToUnknown'
    BY DEF AfterUnknown, InMessage, InEntries, DecodedUpToUnknown
  <1>8. SoundDatagramsAreSafe'
    BY DEF Aligned, SoundDatagramsAreSafe
  <1> QED
    BY <1>4, <1>6, <1>7, <1>8 DEF Aligned, InStep

\* In a datagram that follows the schema, the message in hand is the current one.
LEMMA InHandIsCurrent ==
  ASSUME TypeIInv, Aligned, FollowsSchema(datagram), NEW type, MessageInHand(type)
  PROVE  LET m == datagram.messages[Current] IN
         /\ MessageLeft /\ ~to_be_skipped
         /\ current_offset_ = datagram.starts[Current] + SBE_HEADER
         /\ MessagesInHand = {Current}
         /\ sbe_header_.template_id = m.template_id
         /\ sbe_header_.block_length = m.block_length
         /\ type = "OrderUpdateType" => m.template_id = 15
         /\ type = "OrderExecutionType" => m.template_id = 16
         /\ type = "OrderBookSnapshotType" => m.template_id = 17
         /\ type = "MessageUnknown" => ~Known(m)
  <1>1. decoding = "message" /\ InSchema /\ InMessage
    BY InStepFacts DEF MessageInHand, DecoderAt
  <1>2. /\ MessageLeft /\ ~to_be_skipped
        /\ current_offset_ = datagram.starts[Current] + SBE_HEADER
        /\ sbe_header_ = [template_id |-> datagram.messages[Current].template_id,
                          block_length |-> datagram.messages[Current].block_length]
    BY <1>1 DEF InMessage
  <1>3. MessagesInHand = {Current}
    BY <1>1, <1>2, OneMessageInHand
  <1>4. /\ type = "OrderUpdateType" => sbe_header_.template_id = 15
        /\ type = "OrderExecutionType" => sbe_header_.template_id = 16
        /\ type = "OrderBookSnapshotType" => sbe_header_.template_id = 17
        /\ type = "MessageUnknown" => sbe_header_.template_id \notin DOMAIN Templates
    BY TypeInHand DEF TypeIInv
  <1> QED
    BY <1>2, <1>3, <1>4 DEF Known

LEMMA HandleAligned ==
  ASSUME TypeIInv, Aligned, HandleOrderUpdate \/ HandleOrderExecution
  PROVE  Aligned'
  <1> SUFFICES ASSUME FollowsSchema(datagram)
               PROVE  Aligned'
    BY OutsideSchema DEF HandleOrderUpdate, HandleOrderExecution, Handle
  <1> DEFINE m == datagram.messages[Current]
  <1>1. PICK type, size :
          /\ Handle(type, size)
          /\ \/ type = "OrderUpdateType" /\ size = 50
             \/ type = "OrderExecutionType" /\ size = 74
    BY DEF HandleOrderUpdate, HandleOrderExecution, ORDER_UPDATE, ORDER_EXECUTION
  <1>2. MessageInHand(type)
    BY <1>1 DEF Handle
  <1>3. /\ MessageLeft /\ ~to_be_skipped
        /\ current_offset_ = datagram.starts[Current] + SBE_HEADER
        /\ sbe_header_.block_length = m.block_length
        /\ type = "OrderUpdateType" => m.template_id = 15
        /\ type = "OrderExecutionType" => m.template_id = 16
    BY <1>2, InHandIsCurrent
  <1>4. InSchema /\ Current \in 1 .. Len(datagram.messages)
    BY <1>3, InStepFacts DEF MessageLeft
  <1>5. /\ m.entries = <<>> /\ m.block_length = size /\ BodyLength(m) = size
        /\ m.template_id # 17 /\ m.template_id \in {15, 16}
        /\ Templates[m.template_id] = type
    BY <1>1, <1>3, <1>4, SchemaLengths, TemplateIds
  <1>6. Expected(datagram, Current)
          = Item(type, current_offset_, sbe_header_.block_length, "orders" \in handlers,
                 {}, {})
    BY <1>3, <1>5, NoEntriesNoBook DEF Expected
  <1>7. Known(m)
    BY <1>5, TemplateIds DEF Known
  <1>8. current_offset_' = datagram.starts[Current + 1]
    <2>1. current_offset_' = current_offset_ + size
      BY <1>1 DEF Handle
    <2>2. datagram.starts[Current + 1] = datagram.starts[Current] + 8 + size
      BY <1>4, <1>5, StartsOfMessages
    <2>3. datagram.starts[Current] \in Nat
      BY <1>4, StartsOfMessages
    <2> QED
      BY <1>1, <1>3, <2>1, <2>2, <2>3 DEF SBE_HEADER
  <1>9. /\ decoded' = Append(decoded, Expected(datagram, Current))
        /\ UNCHANGED <<datagram, handlers, status>>
        /\ decoding' = "loop" /\ ~to_be_skipped'
    BY <1>1, <1>3, <1>6 DEF Handle
  <1> QED
    BY <1>3, <1>7, <1>8, <1>9, MessageAdded

LEMMA EndingAligned ==
  ASSUME TypeIInv, Aligned, LineThrows \/ BlockTooLong \/ EntryThrows \/ EntryTooLong
  PROVE  Aligned'
  <1>1. \E how : DecodingEnds(how)
    BY DEF LineThrows, BlockTooLong, EntryThrows, EntryTooLong
  <1>2. UNCHANGED <<datagram, handlers, current_offset_, to_be_skipped, sbe_header_, group_size,
                    entry_nr, inserted, decoding, decoded>>
    BY <1>1 DEF DecodingEnds, offsetVars, groupVars, bookVars
  <1> SUFFICES ASSUME FollowsSchema(datagram)
               PROVE  Aligned'
    BY <1>2, OutsideSchema
  <1> DEFINE m == datagram.messages[Current]
  <1>3. ~Sound(datagram)
    <2> SUFFICES ASSUME Sound(datagram)
                 PROVE  FALSE
      OBVIOUS
    <2>1. CASE LineThrows \/ BlockTooLong
      <3>1. PICK type \in MessageTypes :
              /\ MessageInHand(type)
              /\ \/ type = "OrderUpdateType" /\ sbe_header_.block_length > 50
                 \/ type = "OrderExecutionType" /\ sbe_header_.block_length > 74
                 \/ type = "OrderBookSnapshotType" /\ sbe_header_.block_length + 3 > 19
                 \/ type = "OrderUpdateType" /\ FALSE \in Printable(50)
                 \/ type = "OrderExecutionType" /\ FALSE \in Printable(74)
        BY <2>1, TemplateIds DEF LineThrows, BlockTooLong, ORDER_UPDATE, ORDER_EXECUTION,
          SNAPSHOT_HEADER, GROUP_SIZE
      <3>2. /\ MessageLeft /\ MessagesInHand = {Current}
            /\ sbe_header_.block_length = m.block_length
            /\ type = "OrderUpdateType" => m.template_id = 15
            /\ type = "OrderExecutionType" => m.template_id = 16
            /\ type = "OrderBookSnapshotType" => m.template_id = 17
        BY <3>1, InHandIsCurrent
      <3>3. /\ type = "OrderUpdateType" => m.block_length = 50
            /\ type = "OrderExecutionType" => m.block_length = 74
            /\ type = "OrderBookSnapshotType" => m.block_length = 16
        BY <3>2, SchemaLengths, InStepFacts DEF MessageLeft
      <3>4. m.printable = TRUE
        <4>1. m.printable /\ m.printable \in BOOLEAN
          BY <3>2, InStepFacts DEF Sound, MessageLeft, InSchema, IsDatagram, IsMessage
        <4> QED
          BY <4>1
      <3>5. {datagram.messages[k].printable : k \in MessagesInHand} = {TRUE}
        BY <3>2, <3>4
      <3>6. ASSUME NEW size, ~(sbe_header_.block_length < size)
            PROVE  FALSE \notin Printable(size)
        <4>1. MessagesInHand # {}
          BY <3>2
        <4>2. Printable(size) = {datagram.messages[k].printable : k \in MessagesInHand}
          BY <3>6, <4>1, Zenon DEF Printable
        <4>3. Printable(size) = {TRUE}
          BY <3>5, <4>2, Zenon
        <4> QED
          BY <4>3, Zenon
      <3>7. CASE type = "OrderUpdateType"
        <4>1. sbe_header_.block_length = 50
          BY <3>2, <3>3, <3>7
        <4>2. ~(sbe_header_.block_length < 50) /\ ~(sbe_header_.block_length > 50)
          BY <4>1
        <4> QED
          BY <3>1, <3>6, <3>7, <4>2, Zenon
      <3>8. CASE type = "OrderExecutionType"
        <4>1. sbe_header_.block_length = 74
          BY <3>2, <3>3, <3>8
        <4>2. ~(sbe_header_.block_length < 74) /\ ~(sbe_header_.block_length > 74)
          BY <4>1
        <4> QED
          BY <3>1, <3>6, <3>8, <4>2, Zenon
      <3>9. CASE type = "OrderBookSnapshotType"
        <4>1. sbe_header_.block_length = 16
          BY <3>2, <3>3, <3>9
        <4>2. ~(sbe_header_.block_length + 3 > 19)
          BY <4>1
        <4> QED
          BY <3>1, <3>9, <4>2, Zenon
      <3> QED
        BY <3>1, <3>7, <3>8, <3>9
    <2>2. CASE EntryThrows \/ EntryTooLong
      <3>1. /\ decoding = "entries" /\ entry_nr < group_size.num_in_group
            /\ \/ group_size.block_size > 57
               \/ \E e \in EntriesInHand : Throws(e)
        BY <2>2 DEF EntryThrows, EntryTooLong, MoreEntries, DecoderAt, ORDER_BOOK_ENTRY
      <3>2. /\ InSchema /\ MessageLeft /\ m.template_id = 17
            /\ group_size.block_size = 57 /\ group_size.num_in_group = Len(m.entries)
            /\ current_offset_ = EntryStart(Current, entry_nr + 1)
        BY <3>1, InStepFacts DEF InEntries, ORDER_BOOK_ENTRY
      <3>3. entry_nr + 1 \in 1 .. Len(m.entries) /\ DOMAIN m.entries = 1 .. Len(m.entries)
        <4>1. m.entries \in Seq(Entries)
          BY <3>2, SchemaLengths DEF MessageLeft
        <4>2. entry_nr \in Nat
          BY DEF TypeIInv, DecoderTypeOK
        <4> QED
          BY <3>1, <3>2, <4>1, <4>2
      <3>4. EntriesInHand = {m.entries[entry_nr + 1]}
        BY <3>2, <3>3, EntryAtItsPlace DEF MessageLeft
      <3>5. ~Throws(m.entries[entry_nr + 1])
        BY <3>2, <3>3 DEF Sound, MessageLeft
      <3> QED
        BY <3>1, <3>2, <3>4, <3>5
    <2> QED
      BY <2>1, <2>2
  <1>4. InStep'
    <2>1. Current' = Current /\ MessageLeft' = MessageLeft
      BY <1>2 DEF Current, MessageLeft
    <2>2. BeforeMessage' /\ AfterUnknown' /\ InMessage'
      BY <1>2, <2>1, InStepFacts DEF BeforeMessage, AfterUnknown, InMessage
    <2>3. InEntries'
      BY <1>2, <2>1, InStepFacts DEF InEntries, EntryStart
    <2> QED
      BY <2>2, <2>3 DEF InStep
  <1>5. DecodedInStep' /\ DecodedUpToUnknown'
    BY <1>2 DEF Aligned, DecodedInStep, DecodedUpToUnknown, Expected
  <1>6. SoundDatagramsAreSafe'
    BY <1>2, <1>3 DEF SoundDatagramsAreSafe
  <1> QED
    BY <1>4, <1>5, <1>6 DEF Aligned

LEMMA SnapshotHeaderAligned ==
  ASSUME TypeIInv, Aligned, SnapshotHeader
  PROVE  Aligned'
  <1> SUFFICES ASSUME FollowsSchema(datagram)
               PROVE  Aligned'
    BY OutsideSchema DEF SnapshotHeader
  <1> DEFINE m == datagram.messages[Current]
  <1>1. /\ MessageLeft /\ ~to_be_skipped
        /\ current_offset_ = datagram.starts[Current] + SBE_HEADER
        /\ MessagesInHand = {Current}
        /\ sbe_header_.block_length = m.block_length
        /\ m.template_id = 17
    BY InHandIsCurrent DEF SnapshotHeader
  <1>2. InSchema /\ Current \in 1 .. Len(datagram.messages)
    BY <1>1, InStepFacts DEF MessageLeft
  <1>3. m.block_length = 16 /\ m.block_size = 57 /\ m.entries \in Seq(Entries)
    BY <1>1, <1>2, SchemaLengths
  <1>4. /\ UNCHANGED <<datagram, handlers, to_be_skipped, sbe_header_, status, decoded>>
        /\ entry_nr' = 0 /\ inserted' = <<>> /\ decoding' = "entries"
        /\ current_offset_' = current_offset_ + sbe_header_.block_length + GROUP_SIZE
    BY DEF SnapshotHeader, NewSnapshot
  <1>5. group_size' = [block_size |-> ORDER_BOOK_ENTRY, num_in_group |-> Len(m.entries)]
    <2>1. GroupsInHand = {[block_size |-> m.block_size, num_in_group |-> Len(m.entries)]}
      BY <1>1, <1>3 DEF GroupsInHand, GROUP_SIZE, SNAPSHOT_HEADER
    <2> QED
      BY <1>3, <2>1 DEF SnapshotHeader, ORDER_BOOK_ENTRY
  <1>6. Current' = Current /\ MessageLeft'
    BY <1>1, <1>4 DEF Current, MessageLeft
  <1>7. current_offset_' = EntryStart(Current, 1)
    <2>1. datagram.starts[Current] \in Nat
      BY <1>2, StartsOfMessages
    <2>2. EntryStart(Current, 1) = datagram.starts[Current] + 8 + m.block_length + 3 + (1 - 1) * 57
      BY DEF EntryStart, SBE_HEADER, GROUP_SIZE, ORDER_BOOK_ENTRY
    <2>3. current_offset_' = datagram.starts[Current] + 8 + m.block_length + 3
      BY <1>1, <1>4 DEF SBE_HEADER, GROUP_SIZE
    <2> QED
      BY <1>3, <2>1, <2>2, <2>3
  <1>8. SubSeq(m.entries, 1, 0) = <<>>
    BY <1>3
  <1>9. InEntries'
    <2>1. entry_nr' + 1 = 1
      BY <1>4
    <2>2. EntryStart(Current, entry_nr + 1)' = EntryStart(Current, 1)
      BY <1>4, <1>6, <2>1 DEF EntryStart
    <2>3. current_offset_' = EntryStart(Current, entry_nr + 1)'
      BY <1>7, <2>2
    <2> QED
      BY <1>1, <1>4, <1>5, <1>6, <1>8, <2>3 DEF InEntries
  <1>10. BeforeMessage' /\ AfterUnknown' /\ InMessage'
    BY <1>4 DEF BeforeMessage, AfterUnknown, InMessage
  <1> QED
    BY <1>4, <1>9, <1>10, HistoryKept

LEMMA SnapshotEntryAligned ==
  ASSUME TypeIInv, Aligned, SnapshotEntry
  PROVE  Aligned'
  <1> SUFFICES ASSUME FollowsSchema(datagram)
               PROVE  Aligned'
    BY OutsideSchema DEF SnapshotEntry
  <1> DEFINE m == datagram.messages[Current]
  <1>1. decoding = "entries" /\ entry_nr < group_size.num_in_group
    BY DEF SnapshotEntry, MoreEntries, DecoderAt
  <1>2. /\ MessageLeft /\ ~to_be_skipped /\ m.template_id = 17
        /\ sbe_header_.block_length = m.block_length
        /\ group_size = [block_size |-> ORDER_BOOK_ENTRY, num_in_group |-> Len(m.entries)]
        /\ current_offset_ = EntryStart(Current, entry_nr + 1)
        /\ inserted = SubSeq(m.entries, 1, entry_nr)
    BY <1>1, InStepFacts DEF InEntries
  <1>3. InSchema /\ Current \in 1 .. Len(datagram.messages)
    BY <1>2, InStepFacts DEF MessageLeft
  <1>4. /\ m.block_length = 16 /\ m.entries \in Seq(Entries)
        /\ entry_nr \in Nat /\ entry_nr < Len(m.entries)
    BY <1>1, <1>2, <1>3, SchemaLengths DEF TypeIInv, DecoderTypeOK
  <1>5. entry_nr + 1 \in 1 .. Len(m.entries)
    BY <1>4
  <1>6. EntriesInHand = {m.entries[entry_nr + 1]}
    BY <1>2, <1>3, <1>5, EntryAtItsPlace DEF ORDER_BOOK_ENTRY
  <1>7. /\ UNCHANGED <<datagram, handlers, to_be_skipped, sbe_header_, group_size, status,
                       decoded, decoding>>
        /\ entry_nr' = entry_nr + 1
        /\ current_offset_' = current_offset_ + 57
        /\ inserted' = Append(inserted, m.entries[entry_nr + 1])
    BY <1>2, <1>6 DEF SnapshotEntry, Insert, ORDER_BOOK_ENTRY
  <1>8. Current' = Current /\ MessageLeft'
    BY <1>2, <1>7 DEF Current, MessageLeft
  <1>9. inserted' = SubSeq(m.entries, 1, entry_nr + 1)
    BY <1>2, <1>4, <1>7, OneMoreOfSequence
  <1>10. current_offset_' = EntryStart(Current, entry_nr + 1)'
    <2> DEFINE at == datagram.starts[Current]
    <2>1. at \in Nat
      BY <1>3, StartsOfMessages
    <2>2. EntryStart(Current, entry_nr + 1)
            = at + 8 + m.block_length + 3 + ((entry_nr + 1) - 1) * 57
      BY DEF EntryStart, SBE_HEADER, GROUP_SIZE, ORDER_BOOK_ENTRY
    <2>3. EntryStart(Current, entry_nr + 1)'
            = at + 8 + m.block_length + 3 + ((entry_nr' + 1) - 1) * 57
      BY <1>7, <1>8 DEF EntryStart, SBE_HEADER, GROUP_SIZE, ORDER_BOOK_ENTRY
    <2> HIDE DEF at
    <2>4. EntryStart(Current, entry_nr + 1) = at + 27 + entry_nr * 57
      BY <1>4, <2>1, <2>2
    <2>5. EntryStart(Current, entry_nr + 1)' = at + 27 + (entry_nr + 1) * 57
      BY <1>4, <1>7, <2>1, <2>3
    <2> QED
      BY <1>2, <1>4, <1>7, <2>1, <2>4, <2>5
  <1>11. InEntries'
    BY <1>2, <1>7, <1>8, <1>9, <1>10 DEF InEntries
  <1>12. BeforeMessage' /\ AfterUnknown' /\ InMessage'
    BY <1>1, <1>7 DEF BeforeMessage, AfterUnknown, InMessage
  <1> QED
    BY <1>1, <1>7, <1>11, <1>12, HistoryKept

LEMMA SnapshotDoneAligned ==
  ASSUME TypeIInv, Aligned, SnapshotDone
  PROVE  Aligned'
  <1> SUFFICES ASSUME FollowsSchema(datagram)
               PROVE  Aligned'
    BY OutsideSchema DEF SnapshotDone
  <1> DEFINE m == datagram.messages[Current]
             at == datagram.starts[Current]
             n == Len(m.entries)
  <1>1. decoding = "entries" /\ entry_nr = group_size.num_in_group
    BY DEF SnapshotDone, DecoderAt
  <1>2. /\ MessageLeft /\ ~to_be_skipped /\ m.template_id = 17
        /\ sbe_header_.block_length = m.block_length
        /\ group_size = [block_size |-> ORDER_BOOK_ENTRY, num_in_group |-> n]
        /\ current_offset_ = EntryStart(Current, entry_nr + 1)
        /\ inserted = SubSeq(m.entries, 1, entry_nr)
    BY <1>1, InStepFacts DEF InEntries
  <1>3. InSchema /\ Current \in 1 .. Len(datagram.messages)
    BY <1>2, InStepFacts DEF MessageLeft
  <1>4. /\ m.block_length = 16 /\ m.entries \in Seq(Entries) /\ n \in Nat
        /\ BodyLength(m) = 19 + 57 * n
        /\ entry_nr = n /\ group_size.block_size = 57
    <2>1. m.block_length = 16 /\ m.entries \in Seq(Entries) /\ BodyLength(m) = 19 + 57 * n
      BY <1>2, <1>3, SchemaLengths
    <2>2. entry_nr = n /\ group_size.block_size = 57
      BY <1>1, <1>2 DEF ORDER_BOOK_ENTRY
    <2>3. n \in Nat
      BY <2>1
    <2> QED
      BY <2>1, <2>2, <2>3
  <1>5. at \in Nat /\ datagram.starts[Current + 1] = at + 8 + (19 + 57 * n)
    <2>1. at \in Nat /\ datagram.starts[Current + 1] = at + 8 + BodyLength(m)
      BY <1>3, StartsOfMessages
    <2> HIDE DEF at
    <2> QED
      BY <1>4, <2>1
  <1>6. current_offset_ = at + 27 + n * 57
    <2>1. EntryStart(Current, entry_nr + 1)
            = at + 8 + m.block_length + 3 + ((entry_nr + 1) - 1) * 57
      BY DEF EntryStart, SBE_HEADER, GROUP_SIZE, ORDER_BOOK_ENTRY
    <2> HIDE DEF at, n
    <2> QED
      BY <1>2, <1>4, <1>5, <2>1
  <1>7. current_offset_ = datagram.starts[Current + 1]
    <2> HIDE DEF at, n
    <2> QED
      BY <1>4, <1>5, <1>6
  <1>8. SnapshotStart = at + 8
    <2>1. SnapshotStart = current_offset_ - n * 57 - 3 - 16
      BY <1>2, <1>4 DEF SnapshotStart, GROUP_SIZE
    <2> HIDE DEF at, n
    <2> QED
      BY <1>4, <1>5, <1>6, <2>1
  <1>9. /\ ToSet(bid_book_) = FirstEntries(m.entries, "Bid")
        /\ ToSet(ask_book_) = FirstEntries(m.entries, "Offer")
    <2>1. inserted = m.entries
      BY <1>2, <1>4, WholeSequence
    <2>2. BookOfFirstEntries
      BY BookIInvIsFirst DEF TypeIInv
    <2> QED
      BY <2>1, <2>2 DEF BookOfFirstEntries
  <1>10. Expected(datagram, Current)
           = Item("OrderBookSnapshotType", SnapshotStart, sbe_header_.block_length,
                  "book" \in handlers, ToSet(bid_book_), ToSet(ask_book_))
    BY <1>2, <1>8, <1>9, TemplateIds DEF Expected, SBE_HEADER
  <1>11. Known(m)
    BY <1>2, TemplateIds DEF Known
  <1>12. /\ decoded' = Append(decoded, Expected(datagram, Current))
         /\ UNCHANGED <<datagram, handlers, status>>
         /\ decoding' = "loop" /\ ~to_be_skipped'
         /\ current_offset_' = datagram.starts[Current + 1]
    BY <1>2, <1>7, <1>10 DEF SnapshotDone, offsetVars
  <1> QED
    BY <1>2, <1>11, <1>12, MessageAdded

LEMMA SkipMessageAligned ==
  ASSUME TypeIInv, Aligned, SkipMessage
  PROVE  Aligned'
  <1> SUFFICES ASSUME FollowsSchema(datagram)
               PROVE  Aligned'
    BY OutsideSchema DEF SkipMessage
  <1>1. MessageLeft /\ ~Known(datagram.messages[Current])
    BY InHandIsCurrent DEF SkipMessage
  <1>2. /\ UNCHANGED <<datagram, handlers, status, decoded>>
        /\ to_be_skipped' = TRUE /\ decoding' = "loop"
    BY DEF SkipMessage
  <1>3. Current' = Current /\ MessageLeft'
    BY <1>1, <1>2 DEF Current, MessageLeft
  <1>4. AfterUnknown' /\ BeforeMessage' /\ InMessage' /\ InEntries'
    BY <1>1, <1>2, <1>3 DEF AfterUnknown, BeforeMessage, InMessage, InEntries
  <1> QED
    BY <1>2, <1>4, HistoryKept

LEMMA DatagramDoneAligned ==
  ASSUME TypeIInv, Aligned, DatagramDone
  PROVE  Aligned'
  <1> SUFFICES ASSUME FollowsSchema(datagram)
               PROVE  Aligned'
    BY OutsideSchema DEF DatagramDone
  <1>1. /\ UNCHANGED <<datagram, handlers, current_offset_, to_be_skipped, status, decoded>>
        /\ decoding = "loop" /\ decoding' = "idle"
        /\ ~(current_offset_ < datagram.message_size) \/ to_be_skipped
    BY DEF DatagramDone, DecoderAt, MoreMessages, offsetVars
  <1>2. /\ InSchema /\ BeforeMessage /\ AfterUnknown /\ Len(datagram.messages) \in Nat
        /\ Current \in Nat /\ Len(decoded) \in Nat
    BY InStepFacts
  <1>3. \/ Len(decoded) = Len(datagram.messages)
        \/ ~Known(datagram.messages[Len(decoded) + 1])
    <2>1. CASE to_be_skipped
      BY <1>1, <1>2, <2>1 DEF AfterUnknown, Current
    <2>2. CASE ~to_be_skipped
      <3>1. /\ Current \in 1 .. Len(datagram.messages) + 1
            /\ current_offset_ = datagram.starts[Current]
            /\ ~(current_offset_ < datagram.message_size)
        BY <1>1, <1>2, <2>2 DEF BeforeMessage
      <3>2. datagram.message_size = datagram.starts[Len(datagram.messages) + 1]
        BY DEF FollowsSchema
      <3>3. ASSUME Current \in 1 .. Len(datagram.messages)
            PROVE  FALSE
        <4>1. Len(datagram.messages) + 1 \in Current + 1 .. Len(datagram.messages) + 1
          BY <1>2, <3>3
        <4>2. /\ datagram.starts[Len(datagram.messages) + 1] \in Nat
              /\ datagram.starts[Len(datagram.messages) + 1] >= MessageEnd(datagram, Current)
              /\ MessageEnd(datagram, Current) \in Nat /\ datagram.starts[Current] \in Nat
              /\ MessageEnd(datagram, Current) > datagram.starts[Current]
          BY <1>2, <3>3, <4>1, StartsOfMessages
        <4> QED
          BY <3>1, <3>2, <4>2
      <3>4. Current = Len(datagram.messages) + 1
        BY <1>2, <3>1, <3>3
      <3> QED
        BY <1>2, <3>4 DEF Current
    <2> QED
      BY <2>1, <2>2
  <1>4. DecodedUpToUnknown'
    BY <1>1, <1>3 DEF DecodedUpToUnknown
  <1>5. InStep'
    BY <1>1 DEF InStep, BeforeMessage, AfterUnknown, InMessage, InEntries
  <1>6. DecodedInStep' /\ SoundDatagramsAreSafe'
    BY <1>1 DEF Aligned, DecodedInStep, SoundDatagramsAreSafe, Expected
  <1> QED
    BY <1>4, <1>5, <1>6 DEF Aligned

LEMMA StutterAligned ==
  ASSUME Aligned, UNCHANGED vars
  PROVE  Aligned'
  <1>1. UNCHANGED <<datagram, handlers, current_offset_, to_be_skipped, sbe_header_, group_size,
                    entry_nr, inserted, decoding, status, decoded>>
    BY DEF vars, offsetVars, groupVars, bookVars
  <1>2. InStep'
    BY <1>1 DEF Aligned, InStep, BeforeMessage, AfterUnknown, InMessage, InEntries, Current,
      MessageLeft, EntryStart
  <1>3. DecodedInStep' /\ DecodedUpToUnknown' /\ SoundDatagramsAreSafe'
    BY <1>1 DEF Aligned, DecodedInStep, DecodedUpToUnknown, SoundDatagramsAreSafe, Expected
  <1> QED
    BY <1>2, <1>3 DEF Aligned

-----------------------------------------------------------------------------
LEMMA DecoderInit ==
  ASSUME Init
  PROVE  DecoderIInv
  <1>1. IsDatagram(datagram) /\ Len(datagram.messages) = 0 /\ decoded = <<>>
    BY NoDatagramIsDatagram DEF Init
  <1>2. BookIInv /\ BookTypeOK
    BY EmptyBookIInv DEF Init, BookInit, BookIInv
  <1>3. MappingExtendsTemplates
    BY DEF Init, MappingExtendsTemplates
  <1>4. \A id \in DOMAIN mapping_ : id \in Nat /\ mapping_[id] \in MessageTypes
    BY TemplateIds DEF Init, MessageTypes
  <1>5. DecoderTypeOK
    <2>1. IsHeader(sbe_header_) /\ IsGroup(group_size) /\ entry_nr \in 0 .. group_size.num_in_group
      BY DEF Init, IsHeader, IsGroup
    <2>2. DOMAIN decoded = {} /\ DOMAIN mapping_ \subseteq Nat
      BY <1>1, <1>4
    <2>3. \A id \in DOMAIN mapping_ : mapping_[id] \in MessageTypes \cup {"MessageUnknown"}
      BY <1>4
    <2>4. /\ handlers \in HandlerSets /\ current_offset_ \in Nat /\ to_be_skipped \in BOOLEAN
          /\ decoding = "idle" /\ status = "running"
      BY DEF Init
    <2> QED
      BY <1>1, <1>2, <2>1, <2>2, <2>3, <2>4 DEF DecoderTypeOK
  <1>6. TypeIInv
    BY <1>1, <1>2, <1>3, <1>5 DEF TypeIInv, Init
  <1>7. InStep
    BY DEF Init, InStep, BeforeMessage, AfterUnknown, InMessage, InEntries
  <1>8. DecodedInStep /\ DecodedUpToUnknown /\ SoundDatagramsAreSafe
    BY <1>1 DEF Init, DecodedInStep, DecodedUpToUnknown, SoundDatagramsAreSafe
  <1> QED
    BY <1>6, <1>7, <1>8 DEF DecoderIInv, Aligned

\* In every reachable state of the decoder its offset, its SBE header, its place in a group
\* and the book in hand are those of one message of the datagram, if it follows the schema.
THEOREM DecoderInvariance == Spec => []DecoderIInv
  <1>1. Init => DecoderIInv
    BY DecoderInit
  <1>2. DecoderIInv /\ [Next]_vars => DecoderIInv'
    <2> SUFFICES ASSUME DecoderIInv, [Next]_vars
                 PROVE  DecoderIInv'
      OBVIOUS
    <2>1. TypeIInv /\ Aligned
      BY DEF DecoderIInv
    <2>2. TypeIInv'
      BY <2>1, TypesKept
    <2>3. CASE \E d \in Datagrams : Receive(d)
      BY <2>2, <2>3, ReceiveAligns DEF DecoderIInv
    <2>4. CASE ReadSBEHeader
      BY <2>1, <2>2, <2>4, ReadSBEHeaderAligned DEF DecoderIInv
    <2>5. CASE HandleOrderUpdate \/ HandleOrderExecution
      BY <2>1, <2>2, <2>5, HandleAligned DEF DecoderIInv
    <2>6. CASE LineThrows \/ BlockTooLong \/ EntryThrows \/ EntryTooLong
      BY <2>1, <2>2, <2>6, EndingAligned DEF DecoderIInv
    <2>7. CASE SnapshotHeader
      BY <2>1, <2>2, <2>7, SnapshotHeaderAligned DEF DecoderIInv
    <2>8. CASE SnapshotEntry
      BY <2>1, <2>2, <2>8, SnapshotEntryAligned DEF DecoderIInv
    <2>9. CASE SnapshotDone
      BY <2>1, <2>2, <2>9, SnapshotDoneAligned DEF DecoderIInv
    <2>10. CASE SkipMessage
      BY <2>1, <2>2, <2>10, SkipMessageAligned DEF DecoderIInv
    <2>11. CASE DatagramDone
      BY <2>1, <2>2, <2>11, DatagramDoneAligned DEF DecoderIInv
    <2>12. CASE UNCHANGED vars
      BY <2>1, <2>2, <2>12, StutterAligned DEF DecoderIInv
    <2> QED
      BY <2>3, <2>4, <2>5, <2>6, <2>7, <2>8, <2>9, <2>10, <2>11, <2>12 DEF Next, DecodeStep
  <1> QED
    BY <1>1, <1>2, PTL DEF Spec

\* The decoder makes snapshots and inserts entries into them, whatever bytes it reads, and
\* does nothing else to a book: what is true of every book is true of those it decodes.
THEOREM DecoderUsesBook == Spec => BookSpec
  <1>1. Init => BookInit
    BY DEF Init
  <1>2. DecoderIInv /\ [Next]_vars => [BookNext]_bookVars
    <2> SUFFICES ASSUME DecoderIInv, [Next]_vars
                 PROVE  [BookNext]_bookVars
      OBVIOUS
    <2>1. CASE SnapshotHeader
      BY <2>1 DEF SnapshotHeader, BookNext
    <2>2. CASE SnapshotEntry
      <3>1. EntriesInHand \subseteq Entries
        BY EntriesAreEntries DEF DecoderIInv, TypeIInv, DecoderTypeOK
      <3> QED
        BY <2>2, <3>1 DEF SnapshotEntry, BookNext
    <2>3. CASE ~SnapshotHeader /\ ~SnapshotEntry
      <3>1. CASE \E d \in Datagrams : Receive(d)
        BY <3>1 DEF Receive
      <3>2. CASE ReadSBEHeader \/ SkipMessage \/ DatagramDone \/ SnapshotDone
        BY <3>2 DEF ReadSBEHeader, SkipMessage, DatagramDone, SnapshotDone
      <3>3. CASE HandleOrderUpdate \/ HandleOrderExecution
        BY <3>3 DEF HandleOrderUpdate, HandleOrderExecution, Handle
      <3>4. CASE LineThrows \/ BlockTooLong \/ EntryThrows \/ EntryTooLong
        BY <3>4 DEF LineThrows, BlockTooLong, EntryThrows, EntryTooLong, DecodingEnds
      <3>5. CASE UNCHANGED vars
        BY <3>5 DEF vars
      <3> QED
        BY <2>3, <3>1, <3>2, <3>3, <3>4, <3>5 DEF Next, DecodeStep
    <2> QED
      BY <2>1, <2>2, <2>3
  <1> QED
    BY <1>1, <1>2, DecoderInvariance, PTL DEF Spec, BookSpec

\* The variables of the decoder keep their types, after an exception too.
THEOREM DecoderTypeCorrectness == Spec => []DecoderTypeOK
  <1>1. DecoderIInv => DecoderTypeOK
    BY DEF DecoderIInv, TypeIInv
  <1> QED
    BY <1>1, DecoderInvariance, PTL

\* Of every datagram that follows the schema, with any number of messages and entries and
\* after any other datagrams, what is decoded is its messages, in order and without a gap,
\* each at its own place, and each snapshot with the book of its own entries.
THEOREM DecodingIsInStep == Spec => []DecodedInStep
  <1>1. DecoderIInv => DecodedInStep
    BY DEF DecoderIInv, Aligned
  <1> QED
    BY <1>1, DecoderInvariance, PTL

\* decode_message() returns from such a datagram at its end or after the header of the
\* first message of an unknown template.
THEOREM DecodingStopsAtUnknown == Spec => []DecodedUpToUnknown
  <1>1. DecoderIInv => DecodedUpToUnknown
    BY DEF DecoderIInv, Aligned
  <1> QED
    BY <1>1, DecoderInvariance, PTL

\* Such a datagram with known enumerations never throws, nor is copied beyond a struct.
THEOREM SoundDatagramsDecode == Spec => []SoundDatagramsAreSafe
  <1>1. DecoderIInv => SoundDatagramsAreSafe
    BY DEF DecoderIInv, Aligned
  <1> QED
    BY <1>1, DecoderInvariance, PTL
=============================================================================
