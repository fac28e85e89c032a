---------------------------- MODULE MCSIMBADecoder ----------------------------
(***************************************************************************)
(* Model checking the decoder on datagrams of up to three messages.        *)
(***************************************************************************)
EXTENDS SIMBADecoder

Entry(price, volume, side) ==
  [order_price |-> price, order_volume |-> volume, side |-> side]

Bid1 == Entry(1, 1, "Bid")
Ask2 == Entry(2, 1, "Offer")
Bid1Again == Entry(1, 2, "Bid")
NoPrice == Entry(NULL_VALUE, 1, "Bid")
NoSide == Entry(1, 1, "other")
NoPriceNoSide == Entry(NULL_VALUE, 0, "other")

Bid(p) == Entry(p, 1, "Bid")
Ask(p) == Entry(p, 1, "Offer")
Bid3Again == Entry(3, 2, "Bid")
Ask3Again == Entry(3, 2, "Offer")

\* The entry of a side that has no price.
EmptyBook == Entry(0, 0, "EmptyBook")

MCEntries ==
  {Bid1, Ask2, Bid1Again, NoPrice, NoSide, NoPriceNoSide, EmptyBook, Bid3Again, Ask3Again}
    \cup {Bid(p) : p \in 1 .. 3} \cup {Ask(p) : p \in 1 .. 3}

Message(template, block, printable, block_size, entries) ==
  [template_id |-> template, block_length |-> block, printable |-> printable,
   block_size |-> block_size, entries |-> entries]

Update == Message(15, 50, TRUE, 0, <<>>)
Execution == Message(16, 74, TRUE, 0, <<>>)
Snapshot(es) == Message(17, 16, TRUE, 57, es)
Unknown == Message(7, 20, TRUE, 0, <<>>)

\* Messages of the schema.
Usual ==
  {Update, Execution, Unknown, Snapshot(<<>>), Snapshot(<<Ask2>>),
   Snapshot(<<Bid1, Ask2, Bid1Again>>), Snapshot(<<NoPrice, Bid1>>)}

\* Both sides with three prices, in every order, and one price of each a second time.
Orders == {f \in [1 .. 3 -> 1 .. 3] : \A i, j \in 1 .. 3 : i # j => f[i] # f[j]}

Books ==
  {Snapshot(<<Ask(o[1]), Bid(o[1]), Ask(o[2]), Bid(o[2]), Ask3Again, Bid3Again, Ask(o[3]),
              Bid(o[3])>>) : o \in Orders}

\* Enumerations without a name.
Unnamed ==
  {Message(15, 50, FALSE, 0, <<>>), Message(16, 74, FALSE, 0, <<>>),
   Snapshot(<<Bid1, NoSide>>), Snapshot(<<NoPriceNoSide>>)}

\* Blocks of another version of the schema.
Resized ==
  {Message(15, 48, TRUE, 0, <<>>), Message(15, 58, TRUE, 0, <<>>),
   Message(16, 70, TRUE, 0, <<>>), Message(16, 80, TRUE, 0, <<>>),
   Message(17, 12, TRUE, 57, <<Bid1>>), Message(17, 20, TRUE, 57, <<Bid1>>),
   Message(17, 16, TRUE, 50, <<Bid1>>), Message(17, 16, TRUE, 60, <<Bid1>>)}

StartsOf(first, ms) ==
  FoldLeft(LAMBDA s, m : Append(s, s[Len(s)] + 8 + BodyLength(m)), <<first>>, ms)

\* size_error is what the message_size of the header is short of.
Datagram(ms, incremental, size_error) ==
  LET s == StartsOf(IF incremental THEN 28 ELSE 16, ms) IN
  [incremental |-> incremental, messages |-> ms, starts |-> s,
   message_size |-> s[Len(s)] - size_error]

\* Every sequence of at most n messages from S.
UpTo(S, n) == UNION {[1 .. k -> S] : k \in 0 .. n}

MCDatagrams ==
  {Datagram(ms, TRUE, 0) : ms \in UpTo(Usual, 2)} \cup
  {Datagram(<<m>>, FALSE, 0) : m \in Books \cup {Snapshot(<<EmptyBook, Ask2>>)}} \cup
  {Datagram(ms, FALSE, 0) : ms \in UpTo({Update, Unknown, Snapshot(<<Bid1, Ask2>>)}, 3)} \cup
  {Datagram(<<m, Update>>, TRUE, 0) : m \in Unnamed \cup Resized} \cup
  {Datagram(<<Update, Update>>, TRUE, e) : e \in {-8, 8, 58}}

MCGarbageHeaders ==
  {[template_id |-> t, block_length |-> b] : t \in {15, 17, 7}, b \in {16}} \cup
  {[template_id |-> 16, block_length |-> 74]}

MCGarbageGroups ==
  {[block_size |-> 57, num_in_group |-> 1], [block_size |-> 0, num_in_group |-> 2],
   [block_size |-> 0, num_in_group |-> 0]}
===============================================================================
