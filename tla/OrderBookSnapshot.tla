-------------------------- MODULE OrderBookSnapshot --------------------------
(***************************************************************************)
(* class OrderBookSnapshot: the entries of one snapshot message, placed by *)
(* side and price.  A std::map is the sequence of its entries in the order *)
(* its comparator keeps them, which is the one begin() to end() visits.    *)
(***************************************************************************)
EXTENDS Integers, Sequences, SequencesExt

CONSTANTS
  NULL_VALUE,   \* the price of an entry without one
  Entries       \* the entries considered

MDEntryType == {"Bid", "Offer", "EmptyBook"}

\* "other" stands for every byte that is no MDEntryType.
IsEntry(e) ==
  /\ e.order_price \in Int
  /\ e.order_volume \in Int
  /\ e.side \in MDEntryType \cup {"other"}

ASSUME OrderBookSnapshotAssumption ==
  /\ NULL_VALUE \in Int
  /\ \A e \in Entries : IsEntry(e)

VARIABLES
  bid_book_,   \* the entries of the map of bids, from its begin()
  ask_book_,   \* the entries of the map of asks, from its begin()
  inserted     \* history: the entries insert() was called with and returned for

bookVars == <<bid_book_, ask_book_, inserted>>

BookInit ==
  /\ bid_book_ = <<>>
  /\ ask_book_ = <<>>
  /\ inserted = <<>>

-----------------------------------------------------------------------------
\* The constructor.
NewSnapshot ==
  /\ bid_book_' = <<>>
  /\ ask_book_' = <<>>
  /\ inserted' = <<>>

\* to_index() throws for an unknown side, but is not reached without a price.
Throws(e) == e.order_price # NULL_VALUE /\ e.side \notin MDEntryType

Ignored(e) == e.order_price = NULL_VALUE \/ e.side = "EmptyBook"

\* Mutant: both maps are declared without std::greater.
PrecedesAscending(side, p, q) == p < q

\* The comparators: std::greater for the bids, std::less for the asks.
Precedes(side, p, q) == IF side = "Bid" THEN p > q ELSE p < q

\* lower_bound(): the place of the first entry that does not come before the price of e.
LowerBound(book, e) ==
  CHOOSE i \in 1 .. Len(book) + 1 :
    /\ \A j \in 1 .. i - 1 : Precedes(e.side, book[j].order_price, e.order_price)
    /\ i <= Len(book) => ~Precedes(e.side, book[i].order_price, e.order_price)

\* The entry of the map whose price neither comes before nor after that of e, if any.
IsEquivalent(book, i, e) ==
  i <= Len(book) /\ ~Precedes(e.side, e.order_price, book[i].order_price)

\* Mutant: operator[] instead of emplace().
Assign(book, e) ==
  LET at == LowerBound(book, e) IN
  IF IsEquivalent(book, at, e) THEN ReplaceAt(book, at, e) ELSE InsertAt(book, at, e)

\* std::map::emplace(): an equivalent entry that is already there stays.
Emplace(book, e) ==
  LET at == LowerBound(book, e) IN
  IF IsEquivalent(book, at, e) THEN book ELSE InsertAt(book, at, e)

Insert(e) ==
  /\ ~Throws(e)
  /\ inserted' = Append(inserted, e)
  /\ bid_book_' = IF ~Ignored(e) /\ e.side = "Bid" THEN Emplace(bid_book_, e) ELSE bid_book_
  /\ ask_book_' = IF ~Ignored(e) /\ e.side # "Bid" THEN Emplace(ask_book_, e) ELSE ask_book_

\* to_string() prints the asks by rbegin() to rend(), and below them the bids by begin()
\* to end().
AskRows == Reverse(ask_book_)
BidRows == bid_book_

BookNext == NewSnapshot \/ \E e \in Entries : Insert(e)

BookSpec == BookInit /\ [][BookNext]_bookVars
-----------------------------------------------------------------------------
(***************************************************************************)
(* What the book of a list of entries is.                                  *)
(***************************************************************************)
OnSide(es, side) ==
  {i \in DOMAIN es : es[i].side = side /\ es[i].order_price # NULL_VALUE}

\* The first entry of every price on one side.
FirstEntries(es, side) ==
  {es[i] : i \in {k \in OnSide(es, side) :
                   \A j \in OnSide(es, side) : es[j].order_price = es[k].order_price => k <= j}}

(***************************************************************************)
(* Properties.                                                             *)
(***************************************************************************)
\* What may be in the map of a side.
PlacedOn(side) == {e \in Entries : e.side = side /\ e.order_price # NULL_VALUE}

\* The type of every variable.
BookTypeOK ==
  /\ bid_book_ \in Seq(PlacedOn("Bid"))
  /\ ask_book_ \in Seq(PlacedOn("Offer"))
  /\ inserted \in Seq({e \in Entries : ~Throws(e)})

\* In whatever order insert() was given the entries of both sides, each side of the
\* book holds exactly the prices given for it, and for each of them the entry that
\* came first: no entry crosses over, and none of an earlier message is left.
BookOfFirstEntries ==
  /\ ToSet(bid_book_) = FirstEntries(inserted, "Bid")
  /\ ToSet(ask_book_) = FirstEntries(inserted, "Offer")

Descends(rows) ==
  \A i, j \in DOMAIN rows : i < j => rows[i].order_price > rows[j].order_price

\* Whatever order the entries came in, the two comparators and the two directions of
\* iteration together print each side from its highest price down, no price twice: the
\* lowest ask and the highest bid are the rows that meet in the middle.
BestPricesMeet == Descends(AskRows) /\ Descends(BidRows)
=============================================================================
