----------------------- MODULE OrderBookSnapshotProofs -----------------------
(***************************************************************************)
(* Proof that the book holds the first entry of each price, and is printed *)
(* from the highest price down, for every sequence of entries.             *)
(***************************************************************************)
EXTENDS OrderBookSnapshot, FiniteSetTheorems, WellFoundedInduction, TLAPS

(***************************************************************************)
(* What a call of emplace() preserves of a map: its entries are in the     *)
(* order of the comparator, each is the first of its price on its side,    *)
(* and every price given for the side has one.                             *)
(***************************************************************************)
Ordered(book, side) ==
  \A i, j \in DOMAIN book :
    i < j => Precedes(side, book[i].order_price, book[j].order_price)

IsFirst(es, side, k) ==
  \A j \in OnSide(es, side) : es[j].order_price = es[k].order_price => k <= j

PlacedFirst(book, es, side) ==
  /\ book \in Seq(PlacedOn(side))
  /\ Ordered(book, side)
  /\ \A i \in DOMAIN book : \E k \in OnSide(es, side) : book[i] = es[k] /\ IsFirst(es, side, k)
  /\ \A k \in OnSide(es, side) :
       \E i \in DOMAIN book : book[i].order_price = es[k].order_price

BookIInv ==
  /\ BookTypeOK
  /\ PlacedFirst(bid_book_, inserted, "Bid")
  /\ PlacedFirst(ask_book_, inserted, "Offer")

-----------------------------------------------------------------------------
\* A set of natural numbers that is not empty has a least one.
LEMMA LeastOne ==
  ASSUME NEW T, T \subseteq Nat, T # {}
  PROVE  \E n \in T : \A m \in Nat : m < n => m \notin T
  <1> DEFINE R == {ss \in Nat \X Nat : ss[1] < ss[2]}
  <1>1. IsWellFoundedOn(R, Nat)
    BY NatLessThanWellFounded DEF OpToRel
  <1>2. \A m, n \in Nat : m < n => <<m, n>> \in R
    OBVIOUS
  <1> HIDE DEF R
  <1>3. \E n \in T : \A m \in T : <<m, n>> \notin R
    BY <1>1, WFMin
  <1> QED
    BY <1>2, <1>3

LEMMA PlacedFirstIsFirst ==
  ASSUME NEW S, NEW es \in Seq(S), NEW side, NEW book, PlacedFirst(book, es, side)
  PROVE  ToSet(book) = FirstEntries(es, side)
  <1>1. OnSide(es, side) \subseteq Nat
    BY DEF OnSide
  <1>2. FirstEntries(es, side) = {es[k] : k \in {n \in OnSide(es, side) : IsFirst(es, side, n)}}
    BY DEF FirstEntries, IsFirst
  <1>3. ToSet(book) \subseteq FirstEntries(es, side)
    BY <1>2 DEF ToSet, PlacedFirst
  <1>4. ASSUME NEW k \in OnSide(es, side), IsFirst(es, side, k)
        PROVE  es[k] \in ToSet(book)
    <2>1. PICK i \in DOMAIN book : book[i].order_price = es[k].order_price
      BY DEF PlacedFirst
    <2>2. PICK n \in OnSide(es, side) : book[i] = es[n] /\ IsFirst(es, side, n)
      BY DEF PlacedFirst
    <2>3. n <= k /\ k <= n
      BY <1>4, <2>1, <2>2 DEF IsFirst
    <2>4. n = k
      <3>1. n \in Nat /\ k \in Nat
        BY <1>1, <1>4, <2>2
      <3> QED
        BY <2>3, <3>1
    <2> QED
      BY <2>2, <2>4 DEF ToSet
  <1> QED
    BY <1>2, <1>3, <1>4

\* An entry that does not belong to the side leaves its places alone.
LEMMA OnSideOfOther ==
  ASSUME NEW S, NEW es \in Seq(S), NEW e \in S, NEW side,
         ~(e.side = side /\ e.order_price # NULL_VALUE)
  PROVE  /\ \A i \in OnSide(es, side) : Append(es, e)[i] = es[i]
         /\ OnSide(Append(es, e), side) = OnSide(es, side)
  <1> DEFINE fs == Append(es, e)
             n == Len(es)
  <1>1. /\ n \in Nat /\ DOMAIN es = 1 .. n
        /\ DOMAIN fs = 1 .. n + 1
        /\ fs[n + 1] = e
        /\ \A i \in 1 .. n : fs[i] = es[i]
    OBVIOUS
  <1>2. 1 .. n + 1 = (1 .. n) \cup {n + 1} /\ n + 1 \notin 1 .. n
    BY <1>1
  <1> HIDE DEF fs, n
  <1>3. \A i \in OnSide(es, side) : fs[i] = es[i]
    BY <1>1 DEF OnSide
  <1>4. OnSide(fs, side) = OnSide(es, side)
    BY <1>1, <1>2 DEF OnSide
  <1> QED
    BY <1>3, <1>4 DEF fs

\* The place of an entry that belongs to the side is added to those of the side.
LEMMA OnSideOfEntry ==
  ASSUME NEW S, NEW es \in Seq(S), NEW e \in S, NEW side,
         e.side = side, e.order_price # NULL_VALUE
  PROVE  /\ Len(es) \in Nat
         /\ \A i \in OnSide(es, side) :
              i \in 1 .. Len(es) /\ Append(es, e)[i] = es[i]
         /\ Append(es, e)[Len(es) + 1] = e
         /\ OnSide(Append(es, e), side) = OnSide(es, side) \cup {Len(es) + 1}
  <1> DEFINE fs == Append(es, e)
             n == Len(es)
  <1>1. /\ n \in Nat /\ DOMAIN es = 1 .. n
        /\ DOMAIN fs = 1 .. n + 1
        /\ fs[n + 1] = e
        /\ \A i \in 1 .. n : fs[i] = es[i]
    OBVIOUS
  <1>2. 1 .. n + 1 = (1 .. n) \cup {n + 1} /\ n + 1 \notin 1 .. n
    BY <1>1
  <1> HIDE DEF fs, n
  <1>3. \A i \in OnSide(es, side) : i \in 1 .. n /\ fs[i] = es[i]
    BY <1>1 DEF OnSide
  <1>4. OnSide(fs, side) = OnSide(es, side) \cup {n + 1}
    BY <1>1, <1>2 DEF OnSide
  <1> QED
    BY <1>1, <1>3, <1>4 DEF fs, n

-----------------------------------------------------------------------------
(***************************************************************************)
(* emplace().                                                              *)
(***************************************************************************)
LEMMA PlacedEntry ==
  ASSUME NEW side, NEW e \in PlacedOn(side)
  PROVE  e \in Entries /\ e.side = side /\ e.order_price \in Int /\ e.order_price # NULL_VALUE
  BY OrderBookSnapshotAssumption DEF PlacedOn, IsEntry

\* lower_bound() finds a place, before which all entries come before e.
LEMMA LowerBoundIs ==
  ASSUME NEW side, NEW book \in Seq(PlacedOn(side)), NEW e \in PlacedOn(side)
  PROVE  LET at == LowerBound(book, e) IN
         /\ at \in 1 .. Len(book) + 1
         /\ \A j \in 1 .. at - 1 : Precedes(side, book[j].order_price, e.order_price)
         /\ at <= Len(book) => ~Precedes(side, book[at].order_price, e.order_price)
  <1> DEFINE n == Len(book)
             Before(i) == Precedes(side, book[i].order_price, e.order_price)
             T == {i \in 1 .. n + 1 : i <= n => ~Before(i)}
             IsBound(i) == (\A j \in 1 .. i - 1 : Before(j)) /\ (i <= n => ~Before(i))
  <1>1. n \in Nat
    OBVIOUS
  <1>2. e.side = side
    BY PlacedEntry
  <1> HIDE DEF n, Before
  <1>3. n + 1 \in T /\ T \subseteq Nat
    BY <1>1
  <1>4. PICK i \in T : \A m \in Nat : m < i => m \notin T
    <2> HIDE DEF T
    <2> QED
      BY <1>3, LeastOne
  <1>5. i \in 1 .. n + 1 /\ IsBound(i)
    BY <1>1, <1>4
  <1>6. LowerBound(book, e) = CHOOSE k \in 1 .. n + 1 : IsBound(k)
    BY <1>2 DEF LowerBound, n, Before
  <1>7. LowerBound(book, e) \in 1 .. n + 1 /\ IsBound(LowerBound(book, e))
    <2> HIDE DEF IsBound
    <2> QED
      BY <1>5, <1>6
  <1> QED
    BY <1>7 DEF n, Before

\* The elements of a sequence with one put in.
LEMMA InsertedAt ==
  ASSUME NEW S, NEW s \in Seq(S), NEW e \in S, NEW at \in 1 .. Len(s) + 1
  PROVE  /\ InsertAt(s, at, e) \in Seq(S)
         /\ Len(InsertAt(s, at, e)) = Len(s) + 1
         /\ \A i \in 1 .. at - 1 : InsertAt(s, at, e)[i] = s[i]
         /\ InsertAt(s, at, e)[at] = e
         /\ \A i \in at + 1 .. Len(s) + 1 : InsertAt(s, at, e)[i] = s[i - 1]
  <1> DEFINE front == SubSeq(s, 1, at - 1)
             back == SubSeq(s, at, Len(s))
  <1>1. /\ front \in Seq(S) /\ Len(front) = at - 1
        /\ \A i \in 1 .. at - 1 : front[i] = s[i]
    OBVIOUS
  <1>2. /\ back \in Seq(S) /\ Len(back) = Len(s) + 1 - at
        /\ \A i \in 1 .. Len(s) + 1 - at : back[i] = s[at + i - 1]
    OBVIOUS
  <1>3. InsertAt(s, at, e) = front \o <<e>> \o back
    BY DEF InsertAt
  <1> HIDE DEF front, back
  <1> DEFINE head == front \o <<e>>
  <1>4. /\ head \in Seq(S) /\ Len(head) = at
        /\ \A i \in 1 .. at - 1 : head[i] = s[i]
        /\ head[at] = e
    BY <1>1
  <1> HIDE DEF head
  <1>5. \A i \in at + 1 .. Len(s) + 1 : i - at \in 1 .. Len(s) + 1 - at
    OBVIOUS
  <1>6. /\ head \o back \in Seq(S) /\ Len(head \o back) = Len(s) + 1
        /\ \A i \in 1 .. at : (head \o back)[i] = head[i]
        /\ \A i \in at + 1 .. Len(s) + 1 : (head \o back)[i] = back[i - at]
    BY <1>2, <1>4
  <1>7. \A i \in at + 1 .. Len(s) + 1 : back[i - at] = s[i - 1]
    BY <1>2, <1>5
  <1> QED
    BY <1>3, <1>4, <1>6, <1>7 DEF head

\* What emplace() makes of a map: either the price is there and nothing changes, or it is
\* not there and the entry is put in its place.
EmplacedIn(new, book, e, side) ==
  /\ new \in Seq(PlacedOn(side))
  /\ Ordered(new, side)
  /\ \A i \in DOMAIN new : new[i] = e \/ \E j \in DOMAIN book : new[i] = book[j]
  /\ \E i \in DOMAIN new : new[i] = e
  /\ \A j \in DOMAIN book : \E i \in DOMAIN new : new[i] = book[j]
  /\ \A j \in DOMAIN book : book[j].order_price # e.order_price

LEMMA EmplaceIs ==
  ASSUME NEW side, NEW book \in Seq(PlacedOn(side)), Ordered(book, side),
         NEW e \in PlacedOn(side)
  PROVE  \/ /\ Emplace(book, e) = book
            /\ \E i \in DOMAIN book : book[i].order_price = e.order_price
         \/ EmplacedIn(Emplace(book, e), book, e, side)
  <1> DEFINE n == Len(book)
             at == LowerBound(book, e)
             new == InsertAt(book, at, e)
             px(i) == book[i].order_price
             pe == e.order_price
  <1>1. n \in Nat /\ DOMAIN book = 1 .. n /\ \A i \in 1 .. n : book[i] \in PlacedOn(side)
    OBVIOUS
  <1>2. pe \in Int /\ e.side = side /\ \A i \in 1 .. n : px(i) \in Int
    BY <1>1, PlacedEntry
  <1>3. /\ at \in 1 .. n + 1
        /\ \A j \in 1 .. at - 1 : Precedes(side, px(j), pe)
        /\ at <= n => ~Precedes(side, px(at), pe)
    BY LowerBoundIs
  <1>4. \A i, j \in 1 .. n : i < j => Precedes(side, px(i), px(j))
    BY <1>1 DEF Ordered
  <1>5. Emplace(book, e) = IF at <= n /\ ~Precedes(side, pe, px(at)) THEN book ELSE new
    BY <1>2 DEF Emplace, IsEquivalent
  <1> HIDE DEF n, at, new, px, pe
  <1>6. CASE at <= n /\ ~Precedes(side, pe, px(at))
    <2>1. at \in 1 .. n
      BY <1>1, <1>3, <1>6
    <2>2. px(at) = pe
      BY <1>2, <1>3, <1>6, <2>1 DEF Precedes
    <2> QED
      BY <1>1, <1>5, <1>6, <2>1, <2>2 DEF px, pe
  <1>7. CASE ~(at <= n /\ ~Precedes(side, pe, px(at)))
    <2>1. /\ new \in Seq(PlacedOn(side)) /\ Len(new) = n + 1
          /\ \A i \in 1 .. at - 1 : new[i] = book[i]
          /\ new[at] = e
          /\ \A i \in at + 1 .. n + 1 : new[i] = book[i - 1]
      BY <1>3, InsertedAt DEF new, n
    <2>2. DOMAIN new = 1 .. n + 1
      BY <2>1
    <2>3. \A j \in at .. n : Precedes(side, pe, px(j))
      <3>1. at <= n => at \in 1 .. n /\ Precedes(side, pe, px(at))
        BY <1>1, <1>3, <1>7
      <3>2. ASSUME NEW j \in at .. n
            PROVE  Precedes(side, pe, px(j))
        <4>1. at \in 1 .. n /\ j \in 1 .. n /\ (j = at \/ at < j)
          BY <1>1, <1>3
        <4>2. CASE j = at
          BY <3>1, <4>1, <4>2
        <4>3. CASE at < j
          <5>1. Precedes(side, px(at), px(j)) /\ Precedes(side, pe, px(at))
            BY <1>4, <3>1, <4>1, <4>3
          <5>2. px(at) \in Int /\ px(j) \in Int
            BY <1>2, <4>1
          <5> QED
            BY <1>2, <5>1, <5>2 DEF Precedes
        <4> QED
          BY <4>1, <4>2, <4>3
      <3> QED
        BY <3>2
    <2>4. \A j \in 1 .. n : j \in 1 .. at - 1 \/ j \in at .. n
      BY <1>1, <1>3
    <2>5. \A j \in 1 .. n : px(j) # pe
      BY <1>2, <1>3, <2>3, <2>4 DEF Precedes
    <2>6. \A i \in 1 .. n + 1 : i \in 1 .. at - 1 \/ i = at \/ i \in at + 1 .. n + 1
      BY <1>1, <1>3
    <2>7. \A i \in at + 1 .. n + 1 : i - 1 \in 1 .. n /\ i - 1 \in at .. n
      BY <1>1, <1>3
    <2>8. \A i \in 1 .. at - 1 : i \in 1 .. n
      BY <1>1, <1>3
    <2>9. Ordered(new, side)
      <3>1. ASSUME NEW i \in 1 .. n + 1, NEW j \in 1 .. n + 1, i < j
            PROVE  Precedes(side, new[i].order_price, new[j].order_price)
        <4>1. CASE i \in 1 .. at - 1 /\ j \in 1 .. at - 1
          BY <1>4, <2>1, <2>8, <3>1, <4>1 DEF px
        <4>2. CASE i \in 1 .. at - 1 /\ j = at
          BY <1>3, <2>1, <4>2 DEF px, pe
        <4>3. CASE i \in 1 .. at - 1 /\ j \in at + 1 .. n + 1
          <5>1. i \in 1 .. n /\ j - 1 \in 1 .. n /\ i < j - 1
            BY <1>1, <1>3, <4>3, <2>7, <2>8
          <5>2. Precedes(side, px(i), px(j - 1))
            BY <1>4, <5>1
          <5> QED
            BY <2>1, <4>3, <5>2 DEF px
        <4>4. CASE i = at /\ j \in at + 1 .. n + 1
          <5>1. Precedes(side, pe, px(j - 1))
            BY <2>3, <2>7, <4>4
          <5> QED
            BY <2>1, <4>4, <5>1 DEF px, pe
        <4>5. CASE i \in at + 1 .. n + 1 /\ j \in at + 1 .. n + 1
          <5>1. i - 1 \in 1 .. n /\ j - 1 \in 1 .. n /\ i - 1 < j - 1
            BY <1>1, <1>3, <2>7, <3>1, <4>5
          <5>2. Precedes(side, px(i - 1), px(j - 1))
            BY <1>4, <5>1
          <5> QED
            BY <2>1, <4>5, <5>2 DEF px
        <4>6. \/ i \in 1 .. at - 1 /\ j \in 1 .. at - 1
              \/ i \in 1 .. at - 1 /\ j = at
              \/ i \in 1 .. at - 1 /\ j \in at + 1 .. n + 1
              \/ i = at /\ j \in at + 1 .. n + 1
              \/ i \in at + 1 .. n + 1 /\ j \in at + 1 .. n + 1
          BY <1>1, <1>3, <3>1
        <4> QED
          BY <4>1, <4>2, <4>3, <4>4, <4>5, <4>6
      <3> QED
        BY <2>2, <3>1 DEF Ordered
    <2>10. \A i \in DOMAIN new : new[i] = e \/ \E j \in DOMAIN book : new[i] = book[j]
      BY <1>1, <2>1, <2>2, <2>6, <2>7, <2>8
    <2>11. \E i \in DOMAIN new : new[i] = e
      BY <1>3, <2>1, <2>2
    <2>12. \A j \in DOMAIN book : \E i \in DOMAIN new : new[i] = book[j]
      <3>1. ASSUME NEW j \in 1 .. n
            PROVE  \E i \in 1 .. n + 1 : new[i] = book[j]
        <4>1. CASE j \in 1 .. at - 1
          <5>1. j \in 1 .. n + 1
            BY <1>1
          <5> QED
            BY <2>1, <4>1, <5>1
        <4>2. CASE j \in at .. n
          <5>1. j + 1 \in at + 1 .. n + 1 /\ j + 1 \in 1 .. n + 1 /\ (j + 1) - 1 = j
            BY <1>1, <1>3, <4>2
          <5>2. new[j + 1] = book[j]
            BY <2>1, <5>1
          <5> QED
            BY <5>1, <5>2
        <4> QED
          BY <2>4, <4>1, <4>2
      <3> QED
        BY <1>1, <2>2, <3>1
    <2>13. EmplacedIn(new, book, e, side)
      BY <1>1, <2>1, <2>5, <2>9, <2>10, <2>11, <2>12 DEF EmplacedIn, px, pe
    <2> QED
      BY <1>5, <1>7, <2>13
  <1> QED
    BY <1>6, <1>7

LEMMA EmplaceKeepsFirst ==
  ASSUME NEW S, NEW es \in Seq(S), NEW e \in S, NEW side, NEW book,
         PlacedFirst(book, es, side), e \in PlacedOn(side)
  PROVE  PlacedFirst(Emplace(book, e), Append(es, e), side)
  <1> DEFINE fs == Append(es, e)
             n == Len(es)
             new == Emplace(book, e)
  <1>1. /\ n \in Nat
        /\ \A i \in OnSide(es, side) : i \in 1 .. n /\ fs[i] = es[i]
        /\ fs[n + 1] = e
        /\ OnSide(fs, side) = OnSide(es, side) \cup {n + 1}
    BY PlacedEntry, OnSideOfEntry
  <1>2. /\ book \in Seq(PlacedOn(side)) /\ Ordered(book, side)
        /\ \A i \in DOMAIN book :
             \E k \in OnSide(es, side) : book[i] = es[k] /\ IsFirst(es, side, k)
        /\ \A k \in OnSide(es, side) :
             \E i \in DOMAIN book : book[i].order_price = es[k].order_price
    BY DEF PlacedFirst
  <1>3. \/ new = book /\ \E i \in DOMAIN book : book[i].order_price = e.order_price
        \/ EmplacedIn(new, book, e, side)
    BY <1>2, EmplaceIs
  <1> HIDE DEF fs, n, new
  <1>4. \A k \in OnSide(es, side) : IsFirst(es, side, k) => IsFirst(fs, side, k)
    <2>1. \A k \in OnSide(es, side) : k <= n + 1
      BY <1>1
    <2> QED
      BY <1>1, <2>1 DEF IsFirst
  <1>5. \A i \in DOMAIN book :
          \E k \in OnSide(fs, side) : book[i] = fs[k] /\ IsFirst(fs, side, k)
    BY <1>1, <1>2, <1>4
  <1>6. CASE new = book /\ \E i \in DOMAIN book : book[i].order_price = e.order_price
    <2>1. \A k \in OnSide(fs, side) :
            \E i \in DOMAIN book : book[i].order_price = fs[k].order_price
      <3>1. \A k \in OnSide(es, side) : fs[k] = es[k]
        BY <1>1
      <3>2. \A k \in OnSide(es, side) :
              \E i \in DOMAIN book : book[i].order_price = fs[k].order_price
        BY <1>2, <3>1
      <3>3. \E i \in DOMAIN book : book[i].order_price = fs[n + 1].order_price
        BY <1>1, <1>6
      <3> QED
        BY <1>1, <3>2, <3>3
    <2>2. PlacedFirst(new, fs, side)
      BY <1>2, <1>5, <1>6, <2>1 DEF PlacedFirst
    <2> QED
      BY <2>2 DEF new, fs
  <1>7. CASE EmplacedIn(new, book, e, side)
    <2>1. IsFirst(fs, side, n + 1)
      <3>1. \A k \in OnSide(es, side) : es[k].order_price # e.order_price
        BY <1>2, <1>7 DEF EmplacedIn
      <3>2. n + 1 <= n + 1
        BY <1>1
      <3> QED
        BY <1>1, <3>1, <3>2 DEF IsFirst
    <2>2. \A i \in DOMAIN new :
            \E k \in OnSide(fs, side) : new[i] = fs[k] /\ IsFirst(fs, side, k)
      BY <1>1, <1>5, <1>7, <2>1 DEF EmplacedIn
    <2>3. \A k \in OnSide(fs, side) :
            \E i \in DOMAIN new : new[i].order_price = fs[k].order_price
      <3>1. ASSUME NEW k \in OnSide(es, side)
            PROVE  \E i \in DOMAIN new : new[i].order_price = fs[k].order_price
        <4>1. PICK j \in DOMAIN book : book[j].order_price = es[k].order_price
          BY <1>2
        <4>2. PICK i \in DOMAIN new : new[i] = book[j]
          BY <1>7 DEF EmplacedIn
        <4> QED
          BY <1>1, <4>1, <4>2
      <3>2. \E i \in DOMAIN new : new[i].order_price = fs[n + 1].order_price
        BY <1>1, <1>7 DEF EmplacedIn
      <3> QED
        BY <1>1, <3>1, <3>2
    <2>4. PlacedFirst(new, fs, side)
      BY <1>7, <2>2, <2>3 DEF PlacedFirst, EmplacedIn
    <2> QED
      BY <2>4 DEF new, fs
  <1> QED
    BY <1>3, <1>6, <1>7

LEMMA OtherEntryKeepsFirst ==
  ASSUME NEW S, NEW es \in Seq(S), NEW e \in S, NEW side, NEW book,
         PlacedFirst(book, es, side),
         ~(e.side = side /\ e.order_price # NULL_VALUE)
  PROVE  PlacedFirst(book, Append(es, e), side)
  <1> DEFINE fs == Append(es, e)
  <1>1. /\ \A i \in OnSide(es, side) : fs[i] = es[i]
        /\ OnSide(fs, side) = OnSide(es, side)
    BY OnSideOfOther
  <1> HIDE DEF fs
  <1>2. \A k \in OnSide(es, side) : IsFirst(es, side, k) => IsFirst(fs, side, k)
    BY <1>1 DEF IsFirst
  <1>3. PlacedFirst(book, fs, side)
    BY <1>1, <1>2 DEF PlacedFirst
  <1> QED
    BY <1>3 DEF fs

-----------------------------------------------------------------------------
LEMMA EmptyBookIInv ==
  ASSUME bid_book_ = <<>>, ask_book_ = <<>>, inserted = <<>>
  PROVE  BookIInv
  <1>1. \A side : OnSide(<<>>, side) = {}
    BY DEF OnSide
  <1>2. \A side : PlacedFirst(<<>>, <<>>, side)
    BY <1>1 DEF PlacedFirst, Ordered
  <1> QED
    BY <1>2 DEF BookIInv, BookTypeOK

LEMMA InsertKeepsBookIInv ==
  ASSUME BookIInv, NEW e \in Entries, Insert(e)
  PROVE  BookIInv'
  <1> DEFINE Placeable == {x \in Entries : ~Throws(x)}
  <1>1. /\ ~Throws(e)
        /\ inserted' = Append(inserted, e)
        /\ bid_book_' = IF ~Ignored(e) /\ e.side = "Bid" THEN Emplace(bid_book_, e)
                        ELSE bid_book_
        /\ ask_book_' = IF ~Ignored(e) /\ e.side # "Bid" THEN Emplace(ask_book_, e)
                        ELSE ask_book_
    BY DEF Insert
  <1>2. inserted \in Seq(Placeable) /\ e \in Placeable
    BY <1>1 DEF BookIInv, BookTypeOK
  <1>3. inserted' \in Seq(Placeable)
    BY <1>1, <1>2
  <1>4. PlacedFirst(bid_book_', inserted', "Bid")
    <2>1. PlacedFirst(bid_book_, inserted, "Bid")
      BY DEF BookIInv
    <2>2. CASE e.side = "Bid" /\ e.order_price # NULL_VALUE
      <3>1. bid_book_' = Emplace(bid_book_, e) /\ e \in PlacedOn("Bid")
        BY <1>1, <2>2 DEF Ignored, PlacedOn
      <3> QED
        BY <1>1, <1>2, <2>1, <3>1, EmplaceKeepsFirst
    <2>3. CASE ~(e.side = "Bid" /\ e.order_price # NULL_VALUE)
      <3>1. bid_book_' = bid_book_
        BY <1>1, <2>3 DEF Ignored
      <3> QED
        BY <1>1, <1>2, <2>1, <2>3, <3>1, OtherEntryKeepsFirst
    <2> QED
      BY <2>2, <2>3
  <1>5. PlacedFirst(ask_book_', inserted', "Offer")
    <2>1. PlacedFirst(ask_book_, inserted, "Offer")
      BY DEF BookIInv
    <2>2. CASE e.side = "Offer" /\ e.order_price # NULL_VALUE
      <3>1. ask_book_' = Emplace(ask_book_, e) /\ e \in PlacedOn("Offer")
        BY <1>1, <2>2 DEF Ignored, PlacedOn
      <3> QED
        BY <1>1, <1>2, <2>1, <3>1, EmplaceKeepsFirst
    <2>3. CASE ~(e.side = "Offer" /\ e.order_price # NULL_VALUE)
      <3>1. ask_book_' = ask_book_
        BY <1>1, <2>3 DEF Ignored, Throws, MDEntryType
      <3> QED
        BY <1>1, <1>2, <2>1, <2>3, <3>1, OtherEntryKeepsFirst
    <2> QED
      BY <2>2, <2>3
  <1> QED
    BY <1>3, <1>4, <1>5 DEF BookIInv, BookTypeOK, PlacedFirst

LEMMA BookStep ==
  ASSUME BookIInv, NewSnapshot \/ (\E e \in Entries : Insert(e)) \/ UNCHANGED bookVars
  PROVE  BookIInv'
  <1>1. CASE NewSnapshot
    <2>1. bid_book_' = <<>> /\ ask_book_' = <<>> /\ inserted' = <<>>
      BY <1>1 DEF NewSnapshot
    <2>2. \A side : OnSide(<<>>, side) = {}
      BY DEF OnSide
    <2>3. \A side : PlacedFirst(<<>>, <<>>, side)
      BY <2>2 DEF PlacedFirst, Ordered
    <2> QED
      BY <2>1, <2>3 DEF BookIInv, BookTypeOK
  <1>2. CASE \E e \in Entries : Insert(e)
    BY <1>2, InsertKeepsBookIInv
  <1>3. CASE UNCHANGED bookVars
    BY <1>3 DEF bookVars, BookIInv, BookTypeOK
  <1> QED
    BY <1>1, <1>2, <1>3

LEMMA BookIInvIsFirst ==
  ASSUME BookIInv
  PROVE  BookOfFirstEntries
  <1>1. inserted \in Seq({e \in Entries : ~Throws(e)})
    BY DEF BookIInv, BookTypeOK
  <1> QED
    BY <1>1, PlacedFirstIsFirst DEF BookIInv, BookOfFirstEntries

\* Both sides are printed from the highest price down.
LEMMA BookIInvDescends ==
  ASSUME BookIInv
  PROVE  BestPricesMeet
  <1>1. Descends(BidRows)
    <2>1. bid_book_ \in Seq(PlacedOn("Bid")) /\ Ordered(bid_book_, "Bid")
      BY DEF BookIInv, PlacedFirst
    <2> QED
      BY <2>1 DEF Descends, BidRows, Ordered, Precedes
  <1>2. Descends(AskRows)
    <2> DEFINE n == Len(ask_book_)
    <2>1. ask_book_ \in Seq(PlacedOn("Offer")) /\ Ordered(ask_book_, "Offer")
      BY DEF BookIInv, PlacedFirst
    <2>2. n \in Nat /\ DOMAIN ask_book_ = 1 .. n
      BY <2>1
    <2>3. DOMAIN AskRows = 1 .. n /\ \A i \in 1 .. n : AskRows[i] = ask_book_[n - i + 1]
      BY <2>2 DEF AskRows, Reverse
    <2> HIDE DEF n
    <2>4. ASSUME NEW i \in 1 .. n, NEW j \in 1 .. n, i < j
          PROVE  AskRows[i].order_price > AskRows[j].order_price
      <3>1. n - i + 1 \in 1 .. n /\ n - j + 1 \in 1 .. n /\ n - j + 1 < n - i + 1
        BY <2>2, <2>4
      <3>2. ask_book_[n - j + 1].order_price < ask_book_[n - i + 1].order_price
        BY <2>1, <2>2, <3>1 DEF Ordered, Precedes
      <3>3. /\ ask_book_[n - j + 1].order_price \in Int
            /\ ask_book_[n - i + 1].order_price \in Int
        BY <2>1, <2>2, <3>1, PlacedEntry
      <3> QED
        BY <2>3, <3>2, <3>3
    <2> QED
      BY <2>3, <2>4 DEF Descends
  <1> QED
    BY <1>1, <1>2 DEF BestPricesMeet

-----------------------------------------------------------------------------
\* In every reachable state a map is in the order of its comparator and has, for each price
\* given for its side, the entry given first: what emplace() keeps.
THEOREM BookInvariance == BookSpec => []BookIInv
  <1>1. BookInit => BookIInv
    BY EmptyBookIInv DEF BookInit
  <1>2. BookIInv /\ [BookNext]_bookVars => BookIInv'
    BY BookStep DEF BookNext
  <1> QED
    BY <1>1, <1>2, PTL DEF BookSpec

\* Every entry in the maps of an OrderBookSnapshot is one of its side, with a price.
THEOREM BookTypeCorrectness == BookSpec => []BookTypeOK
  <1>1. BookIInv => BookTypeOK
    BY DEF BookIInv
  <1> QED
    BY <1>1, BookInvariance, PTL

\* Whatever insert() is called with, and in whatever order, the two maps hold the first
\* entry of every price of their side and nothing else.
THEOREM BookIsOfFirstEntries == BookSpec => []BookOfFirstEntries
  <1>1. BookIInv => BookOfFirstEntries
    BY BookIInvIsFirst
  <1> QED
    BY <1>1, BookInvariance, PTL

\* Both sides are printed from the highest price down, whatever order their entries came
\* in and however many there are: what the comparators and the iterators make together.
THEOREM BestPricesAreMiddleRows == BookSpec => []BestPricesMeet
  <1>1. BookIInv => BestPricesMeet
    BY BookIInvDescends
  <1> QED
    BY <1>1, BookInvariance, PTL
=============================================================================
