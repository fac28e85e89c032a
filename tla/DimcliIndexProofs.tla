-------------------------- MODULE DimcliIndexProofs --------------------------
(***************************************************************************)
(* Proofs about the index of option names and the operands.                *)
(***************************************************************************)
EXTENDS DimcliIndex, FiniteSetTheorems, WellFoundedInduction, TLAPS

-----------------------------------------------------------------------------
(***************************************************************************)
(* Sequences of whatever elements.                                         *)
(***************************************************************************)
LEMMA SequenceOf ==
  ASSUME NEW S, NEW s \in Seq(S)
  PROVE  IsSequence(s)
  <1>1. Len(s) \in Nat /\ DOMAIN s = 1 .. Len(s) /\ \A i \in 1 .. Len(s) : s[i] \in ToSet(s)
    BY DEF ToSet
  <1> QED
    BY <1>1 DEF IsSequence

LEMMA SequenceFacts ==
  ASSUME NEW s, IsSequence(s)
  PROVE  Len(s) \in Nat /\ DOMAIN s = 1 .. Len(s)
  BY DEF IsSequence

LEMMA SequenceGrows ==
  ASSUME NEW s, IsSequence(s), NEW x
  PROVE  /\ IsSequence(Append(s, x))
         /\ Len(Append(s, x)) = Len(s) + 1
         /\ \A i \in 1 .. Len(s) : Append(s, x)[i] = s[i]
         /\ Append(s, x)[Len(s) + 1] = x
  <1> DEFINE S == ToSet(s) \cup {x}
             t == Append(s, x)
  <1>1. s \in Seq(S) /\ x \in S
    <2>1. s \in Seq(ToSet(s)) /\ ToSet(s) \subseteq S /\ x \in S
      BY DEF IsSequence
    <2> HIDE DEF S
    <2> QED
      BY <2>1
  <1> HIDE DEF S
  <1>2. /\ t \in Seq(S) /\ Len(t) = Len(s) + 1 /\ t[Len(s) + 1] = x
        /\ \A i \in 1 .. Len(s) : t[i] = s[i]
    BY <1>1
  <1> HIDE DEF t
  <1>3. IsSequence(t)
    BY <1>2, SequenceOf
  <1> QED
    BY <1>2, <1>3 DEF t

LEMMA SequenceJoins ==
  ASSUME NEW s, NEW t, IsSequence(s), IsSequence(t)
  PROVE  /\ IsSequence(s \o t)
         /\ Len(s \o t) = Len(s) + Len(t)
         /\ \A i \in 1 .. Len(s) : (s \o t)[i] = s[i]
         /\ \A i \in 1 .. Len(t) : (s \o t)[Len(s) + i] = t[i]
  <1> DEFINE S == ToSet(s) \cup ToSet(t)
             u == s \o t
  <1>1. s \in Seq(S) /\ t \in Seq(S)
    <2>1. s \in Seq(ToSet(s)) /\ t \in Seq(ToSet(t)) /\ ToSet(s) \subseteq S /\ ToSet(t) \subseteq S
      BY DEF IsSequence
    <2> HIDE DEF S
    <2> QED
      BY <2>1
  <1> HIDE DEF S
  <1>2. /\ u \in Seq(S) /\ Len(u) = Len(s) + Len(t)
        /\ \A i \in 1 .. Len(s) : u[i] = s[i]
        /\ \A i \in 1 .. Len(t) : u[Len(s) + i] = t[i]
    BY <1>1
  <1> HIDE DEF u
  <1>3. IsSequence(u)
    BY <1>2, SequenceOf
  <1> QED
    BY <1>2, <1>3 DEF u

LEMMA SequencePart ==
  ASSUME NEW s, IsSequence(s), NEW m \in Nat \ {0}, NEW n \in Nat, n <= Len(s)
  PROVE  IsSequence(SubSeq(s, m, n))
  <1>1. s \in Seq(ToSet(s))
    BY DEF IsSequence
  <1>2. SubSeq(s, m, n) \in Seq(ToSet(s))
    BY <1>1
  <1> QED
    BY <1>2, SequenceOf

LEMMA SequenceOne ==
  ASSUME NEW x
  PROVE  IsSequence(<<x>>) /\ Len(<<x>>) = 1 /\ <<x>>[1] = x
  <1>1. <<x>> \in Seq({x}) /\ Len(<<x>>) = 1 /\ <<x>>[1] = x
    OBVIOUS
  <1> QED
    BY <1>1, SequenceOf

LEMMA SequenceEmpty == IsSequence(<<>>) /\ Len(<<>>) = 0 /\ DOMAIN <<>> = {}
  <1>1. <<>> \in Seq({}) /\ Len(<<>>) = 0
    OBVIOUS
  <1>2. DOMAIN <<>> = 1 .. 0 /\ 1 .. 0 = {}
    OBVIOUS
  <1> QED
    BY <1>1, <1>2, SequenceOf

LEMMA SequenceTail ==
  ASSUME NEW s, IsSequence(s), s # <<>>
  PROVE  IsSequence(Tail(s)) 
  <1>1. s \in Seq(ToSet(s))
    BY DEF IsSequence
  <1>2. Tail(s) \in Seq(ToSet(s))
    BY <1>1
  <1> QED
    BY <1>2, SequenceOf

-----------------------------------------------------------------------------
(***************************************************************************)
(* Functions defined by their value at the place before.                   *)
(***************************************************************************)
LEMMA LeastPlace ==
  ASSUME NEW T, T \subseteq Nat, T # {}
  PROVE  \E n \in T : \A m \in T : n <= m
  <1> DEFINE R == {ss \in Nat \X Nat : ss[1] < ss[2]}
  <1>1. IsWellFoundedOn(R, Nat)
    BY NatLessThanWellFounded DEF OpToRel
  <1>2. \A m, n \in Nat : m < n => <<m, n>> \in R
    OBVIOUS
  <1> HIDE DEF R
  <1>3. PICK n \in T : \A m \in T : <<m, n>> \notin R
    BY <1>1, WFMin
  <1>4. \A m \in T : m \in Nat /\ n \in Nat /\ ~(m < n)
    BY <1>2, <1>3
  <1> QED
    BY <1>4

\* What holds at the beginning and is passed on holds at every place.
LEMMA Upward ==
  ASSUME NEW n \in Nat, NEW G, 0 \in G, \A i \in 1 .. n : i - 1 \in G => i \in G
  PROVE  \A i \in 0 .. n : i \in G
  <1> DEFINE T == {i \in 0 .. n : i \notin G}
  <1>1. ASSUME T # {}
        PROVE  FALSE
    <2>1. PICK k \in T : \A m \in T : k <= m
      <3>1. T \subseteq Nat
        OBVIOUS
      <3> QED
        BY <1>1, <3>1, LeastPlace
    <2>2. k \in 1 .. n /\ k - 1 \in 0 .. n /\ ~(k <= k - 1)
      BY <2>1
    <2>3. k - 1 \in G
      BY <2>1, <2>2
    <2> QED
      BY <2>1, <2>2, <2>3
  <1> QED
    BY <1>1

\* f takes n steps s from b, each from U to U.
TakesSteps(f, n, U, b, s) ==
  /\ f \in [0 .. n -> U]
  /\ f[0] = b
  /\ \A i \in 1 .. n : f[i] = s[i][f[i - 1]]

LEMMA StepsExist ==
  ASSUME NEW n \in Nat, NEW U, NEW b \in U, NEW s \in [1 .. n -> [U -> U]]
  PROVE  \E f : TakesSteps(f, n, U, b, s)
  <1> DEFINE Is(f, k) == f \in [0 .. k -> U] /\ f[0] = b /\ \A i \in 1 .. k : f[i] = s[i][f[i - 1]]
             G == {k \in 0 .. n : \E f : Is(f, k)}
  <1>1. 0 \in G
    <2> DEFINE f == [i \in 0 .. 0 |-> b]
    <2>1. Is(f, 0) /\ 0 \in 0 .. n
      OBVIOUS
    <2> HIDE DEF f, Is
    <2> QED
      BY <2>1
  <1>2. ASSUME NEW k \in 1 .. n, k - 1 \in G
        PROVE  k \in G
    <2>1. PICK f : Is(f, k - 1)
      BY <1>2
    <2> DEFINE h == [i \in 0 .. k |-> IF i = k THEN s[k][f[k - 1]] ELSE f[i]]
    <2>2. \A i \in 0 .. k - 1 : i \in 0 .. k /\ i # k
      OBVIOUS
    <2>3. f[k - 1] \in U /\ s[k] \in [U -> U]
      BY <2>1
    <2>4. s[k][f[k - 1]] \in U
      BY <2>3
    <2>5. h \in [0 .. k -> U]
      <3>1. \A i \in 0 .. k : i # k => i \in 0 .. k - 1
        OBVIOUS
      <3> QED
        BY <2>1, <2>4, <3>1
    <2>6. h[k] = s[k][f[k - 1]] /\ \A i \in 0 .. k - 1 : h[i] = f[i]
      BY <2>2
    <2> HIDE DEF h
    <2>7. ASSUME NEW i \in 1 .. k
          PROVE  h[i] = s[i][h[i - 1]]
      <3>1. i - 1 \in 0 .. k - 1
        OBVIOUS
      <3>2. h[i - 1] = f[i - 1]
        BY <2>6, <3>1
      <3>3. CASE i = k
        BY <2>6, <3>2, <3>3
      <3>4. CASE i # k
        <4>1. i \in 1 .. k - 1 /\ i \in 0 .. k - 1
          BY <3>4
        <4> QED
          BY <2>1, <2>6, <3>2, <4>1
      <3> QED
        BY <3>3, <3>4
    <2>8. h[0] = b
      BY <2>1, <2>6
    <2>9. Is(h, k) /\ k \in 0 .. n
      BY <2>5, <2>7, <2>8
    <2> HIDE DEF Is
    <2> QED
      BY <2>9
  <1>3. n \in G
    <2> HIDE DEF G
    <2>1. n \in 0 .. n
      OBVIOUS
    <2> QED
      BY <1>1, <1>2, <2>1, Upward
  <1> QED
    BY <1>3 DEF TakesSteps

LEMMA TheOne ==
  ASSUME NEW e
  PROVE  The({e}) = e
  BY DEF The

-----------------------------------------------------------------------------
(***************************************************************************)
(* What the index of a command is: names of options there are, and as many *)
(* values as the operands that are required need.                          *)
(***************************************************************************)
Names(os) == [opt : DOMAIN os, invert : BOOLEAN, optional : BOOLEAN, pos : Int]

OperandNames(os) == {n \in Names(os) : os[n.opt].max # 0}

PlainKeys(os) == UNION {{os[i].names[k].key : k \in DOMAIN os[i].names} : i \in DOMAIN os}

Keys(os) == PlainKeys(os) \cup {<<"no-">> \o key : key \in PlainKeys(os)}

Tables(K, N) == UNION {[D -> N] : D \in SUBSET K}

\* The minimum of an operand, if it is required.
Needs(os, n) == IF n.optional THEN 0 ELSE os[n.opt].min

\* f counts what the first operands need.
CountsNeeds(os, operands, f) ==
  /\ f \in [0 .. Len(operands) -> Nat]
  /\ f[0] = 0
  /\ \A i \in 1 .. Len(operands) : f[i] = f[i - 1] + Needs(os, operands[i])

IsNeeded(os, operands, total) ==
  \E f : /\ CountsNeeds(os, operands, f)
         /\ f[Len(operands)] = total
         /\ \A i \in 0 .. Len(operands) : f[i] <= total

Indexes(os) ==
  {x \in [short : Tables(Letters, Names(os)), long : Tables(Keys(os), Names(os)),
          operands : Seq(OperandNames(os)), allowCommands : BOOLEAN, final : kUnset .. kReq,
          minOprs : Nat, finalOpr : Int, broken : BOOLEAN] : IsNeeded(os, x.operands, x.minOprs)}

LEMMA WithIsTable ==
  ASSUME NEW K, NEW N, NEW f \in Tables(K, N), NEW k \in K, NEW v \in N
  PROVE  With(f, k, v) \in Tables(K, N)
  <1>1. PICK D \in SUBSET K : f \in [D -> N]
    BY DEF Tables
  <1>2. With(f, k, v) \in [D \cup {k} -> N]
    BY <1>1 DEF With
  <1>3. D \cup {k} \in SUBSET K
    BY <1>1
  <1> QED
    BY <1>2, <1>3 DEF Tables

LEMMA TableValues ==
  ASSUME NEW K, NEW N, NEW f \in Tables(K, N), NEW k \in DOMAIN f
  PROVE  f[k] \in N
  BY DEF Tables

LEMMA EmptyTable ==
  ASSUME NEW K, NEW N
  PROVE  <<>> \in Tables(K, N)
  <1>1. <<>> \in [{} -> N] /\ {} \in SUBSET K
    OBVIOUS
  <1> QED
    BY <1>1 DEF Tables

LEMMA NeededEmpty ==
  ASSUME NEW os
  PROVE  IsNeeded(os, <<>>, 0)
  <1> DEFINE f == [i \in 0 .. 0 |-> 0]
  <1>1. /\ f \in [0 .. 0 -> Nat] /\ f[0] = 0 /\ Len(<<>>) = 0
        /\ \A i \in 0 .. 0 : f[i] <= 0
        /\ 1 .. 0 = {}
    OBVIOUS
  <1> HIDE DEF f
  <1>2. CountsNeeds(os, <<>>, f)
    BY <1>1 DEF CountsNeeds
  <1> QED
    BY <1>1, <1>2 DEF IsNeeded

LEMMA NeededMore ==
  ASSUME NEW os, OptsOK(os), NEW operands \in Seq(OperandNames(os)), NEW total \in Nat,
         IsNeeded(os, operands, total), NEW n \in OperandNames(os)
  PROVE  IsNeeded(os, Append(operands, n), total + Needs(os, n))
  <1> DEFINE L == Len(operands)
             ops == Append(operands, n)
  <1>1. PICK f : /\ CountsNeeds(os, operands, f) /\ f[L] = total
                 /\ \A i \in 0 .. L : f[i] <= total
    BY DEF IsNeeded
  <1>2. Needs(os, n) \in Nat
    BY DEF Needs, OptsOK, OperandNames, Names
  <1>3. /\ L \in Nat /\ Len(ops) = L + 1 /\ ops[L + 1] = n
        /\ \A i \in 1 .. L : ops[i] = operands[i]
    OBVIOUS
  <1> HIDE DEF ops, L
  <1> DEFINE h == [i \in 0 .. L + 1 |-> IF i = L + 1 THEN total + Needs(os, n) ELSE f[i]]
  <1>4. f \in [0 .. L -> Nat] /\ f[0] = 0
    BY <1>1 DEF CountsNeeds, L
  <1>5. \A i \in 0 .. L + 1 : i # L + 1 => i \in 0 .. L
    BY <1>3
  <1>6. h \in [0 .. L + 1 -> Nat]
    BY <1>2, <1>4, <1>5
  <1>7. h[L + 1] = total + Needs(os, n) /\ \A i \in 0 .. L : h[i] = f[i]
    BY <1>3
  <1> HIDE DEF h
  <1>8. ASSUME NEW i \in 1 .. L + 1
        PROVE  h[i] = h[i - 1] + Needs(os, ops[i])
    <2>1. i - 1 \in 0 .. L /\ h[i - 1] = f[i - 1]
      BY <1>3, <1>7
    <2>2. CASE i = L + 1
      BY <1>1, <1>3, <1>7, <2>1, <2>2
    <2>3. CASE i # L + 1
      <3>1. i \in 1 .. L /\ i \in 0 .. L
        BY <1>3, <2>3
      <3>2. f[i] = f[i - 1] + Needs(os, operands[i])
        BY <1>1, <3>1 DEF CountsNeeds, L
      <3> QED
        BY <1>3, <1>7, <2>1, <3>1, <3>2
    <2> QED
      BY <2>2, <2>3
  <1>9. ASSUME NEW i \in 0 .. L + 1
        PROVE  h[i] <= total + Needs(os, n)
    <2>1. CASE i = L + 1
      BY <1>2, <1>7, <2>1
    <2>2. CASE i # L + 1
      <3>1. i \in 0 .. L /\ h[i] = f[i] /\ f[i] <= total /\ f[i] \in Nat
        BY <1>1, <1>4, <1>5, <1>7, <2>2
      <3> QED
        BY <1>2, <3>1
    <2> QED
      BY <2>1, <2>2
  <1>10. h[0] = 0
    BY <1>3, <1>4, <1>7
  <1>11. CountsNeeds(os, ops, h)
    BY <1>3, <1>6, <1>8, <1>10 DEF CountsNeeds
  <1> QED
    BY <1>3, <1>7, <1>9, <1>11 DEF IsNeeded, ops

LEMMA EmptyIsIndex ==
  ASSUME NEW os, NEW cmd
  PROVE  EmptyIndex(cmd) \in Indexes(os)
  BY EmptyTable, NeededEmpty DEF EmptyIndex, Indexes, kUnset, kReq

LEMMA NameIsOfOption ==
  ASSUME NEW os, OptsOK(os), NEW i \in DOMAIN os, NEW k \in DOMAIN os[i].names
  PROVE  /\ OptName(i, os[i].names[k], 2 * (k - 1)) \in Names(os)
         /\ os[i].names[k].key \in PlainKeys(os)
  <1>1. k \in Nat
    BY DEF OptsOK, IsSequence
  <1>2. os[i].names[k].key \in PlainKeys(os)
    BY DEF PlainKeys
  <1> QED
    BY <1>1, <1>2 DEF OptName, Names

LEMMA OperandKeepsIndex ==
  ASSUME NEW os, OptsOK(os), NEW x \in Indexes(os), NEW n \in OperandNames(os)
  PROVE  IndexOperand(x, os[n.opt], n) \in Indexes(os)
  <1> DEFINE o == os[n.opt]
             y == IndexOperand(x, o, n)
  <1>1. n.opt \in DOMAIN os /\ o.min \in Nat /\ n.optional \in BOOLEAN
    BY DEF OperandNames, Names, OptsOK
  <1>2. x.final \in kUnset .. kReq /\ x.minOprs \in Nat /\ x.finalOpr \in Int
    BY DEF Indexes
  <1>3. FinalAfter(x.final, o, n.optional) \in kUnset .. kReq
    BY <1>2 DEF FinalAfter, kUnset, kNonOpt, kNonVar, kOpt, kReq
  <1> HIDE DEF o
  <1>4. /\ y.short = x.short /\ y.long = x.long /\ y.operands = Append(x.operands, n)
        /\ y.minOprs = x.minOprs + Needs(os, n)
    BY <1>1, <1>2 DEF Indexes, IndexOperand, Needs, o
  <1>5. y \in [short : Tables(Letters, Names(os)), long : Tables(Keys(os), Names(os)),
               operands : Seq(OperandNames(os)), allowCommands : BOOLEAN, final : kUnset .. kReq,
               minOprs : Nat, finalOpr : Int, broken : BOOLEAN]
    <2> DEFINE final == FinalAfter(x.final, o, n.optional)
               min == IF n.optional THEN x.minOprs ELSE x.minOprs + o.min
               place == IF final < kOpt THEN x.finalOpr + o.min ELSE x.finalOpr
               allow == x.allowCommands /\ (o.command = <<>> => ~n.optional /\ o.min = o.max)
               broken == x.broken \/ Misplaced(x.final, o, n.optional)
               all == Append(x.operands, n)
    <2>1. final \in kUnset .. kReq
      BY <1>3
    <2>2. min \in Nat /\ place \in Int
      BY <1>1, <1>2
    <2>3. allow \in BOOLEAN /\ broken \in BOOLEAN
      OBVIOUS
    <2>4. all \in Seq(OperandNames(os))
      BY DEF Indexes
    <2>5. y = [x EXCEPT !.minOprs = min, !.allowCommands = allow, !.final = final,
                        !.finalOpr = place, !.broken = broken, !.operands = all]
      BY DEF IndexOperand
    <2> HIDE DEF final, min, place, allow, broken, all, y
    <2> QED
      BY <2>1, <2>2, <2>3, <2>4, <2>5 DEF Indexes
  <1>6. IsNeeded(os, y.operands, y.minOprs)
    BY <1>4, NeededMore DEF Indexes
  <1> QED
    BY <1>5, <1>6 DEF Indexes, o

LEMMA ShortNameKeepsIndex ==
  ASSUME NEW os, NEW x \in Indexes(os), NEW letter \in Letters, NEW n \in Names(os)
  PROVE  IndexShortName(x, letter, n) \in Indexes(os)
  <1>1. With(x.short, letter, n) \in Tables(Letters, Names(os))
    BY WithIsTable DEF Indexes
  <1> QED
    BY <1>1 DEF IndexShortName, Indexes

LEMMA LongNameKeepsIndex ==
  ASSUME NEW os, NEW x \in Indexes(os), NEW key \in PlainKeys(os), NEW o, NEW n \in Names(os),
         NEW allowNo
  PROVE  IndexLongName(x, key, o, n, allowNo) \in Indexes(os)
  <1> DEFINE no == [n EXCEPT !.invert = ~@, !.pos = @ + 1]
             named == With(x.long, key, n)
             long == IF allowNo /\ o.bool THEN With(named, <<"no-">> \o key, no) ELSE named
  <1>1. no \in Names(os)
    <2> DEFINE other == ~n.invert
               next == n.pos + 1
    <2>1. other \in BOOLEAN
      OBVIOUS
    <2>2. next \in Int
      BY DEF Names
    <2>3. no = [n EXCEPT !.invert = other, !.pos = next]
      OBVIOUS
    <2> HIDE DEF other, next, no
    <2> QED
      BY <2>1, <2>2, <2>3 DEF Names
  <1>2. key \in Keys(os) /\ <<"no-">> \o key \in Keys(os)
    BY DEF Keys
  <1>3. named \in Tables(Keys(os), Names(os))
    BY <1>2, WithIsTable DEF Indexes
  <1> HIDE DEF no, named
  <1>4. long \in Tables(Keys(os), Names(os))
    BY <1>1, <1>2, <1>3, WithIsTable
  <1> HIDE DEF long
  <1>5. IndexLongName(x, key, o, n, allowNo) = [x EXCEPT !.long = long]
    BY DEF IndexLongName, long, named, no
  <1> QED
    BY <1>4, <1>5 DEF Indexes

LEMMA NameKeepsIndex ==
  ASSUME NEW os, OptsOK(os), NEW x \in Indexes(os), NEW i \in DOMAIN os,
         NEW k \in DOMAIN os[i].names
  PROVE  IndexName(x, i, os[i], k) \in Indexes(os)
  <1> DEFINE o == os[i]
             name == o.names[k]
             n == OptName(i, name, 2 * (k - 1))
  <1>1. n \in Names(os) /\ name.key \in PlainKeys(os) /\ n.opt = i
    BY NameIsOfOption DEF OptName
  <1> HIDE DEF n
  <1>2. CASE name.form # "" /\ o.max = 0
    BY <1>2 DEF IndexName
  <1>3. CASE name.form # "" /\ o.max # 0
    <2>1. n \in OperandNames(os)
      BY <1>1, <1>3 DEF OperandNames
    <2>2. IndexName(x, i, os[i], k) = IndexOperand(x, os[n.opt], n)
      BY <1>1, <1>3 DEF IndexName, n
    <2> QED
      BY <2>1, <2>2, OperandKeepsIndex
  <1>4. CASE name.form = "" /\ o.bool /\ name.modifier = "?"
    <2>1. IndexName(x, i, os[i], k) = [x EXCEPT !.broken = TRUE]
      BY <1>4 DEF IndexName
    <2> QED
      BY <2>1 DEF Indexes
  <1>5. CASE name.form = "" /\ ~(o.bool /\ name.modifier = "?")
    <2>1. CASE Len(name.key) = 1 /\ Head(name.key) \in Letters
      <3>1. IndexName(x, i, os[i], k) = IndexShortName(x, Head(name.key), n)
        BY <1>5, <2>1 DEF IndexName, n
      <3> QED
        BY <1>1, <2>1, <3>1, ShortNameKeepsIndex
    <2>2. CASE ~(Len(name.key) = 1 /\ Head(name.key) \in Letters)
      <3>1. IndexName(x, i, os[i], k) = IndexLongName(x, name.key, o, n, ~name.dot)
        BY <1>5, <2>2 DEF IndexName, n
      <3> QED
        BY <1>1, <3>1, LongNameKeepsIndex
    <2> QED
      BY <2>1, <2>2
  <1> QED
    BY <1>2, <1>3, <1>4, <1>5

\* y is how the names of option i are indexed, one after the other.
IsNaming(y, U, x, os, i) ==
  /\ y \in [0 .. Len(os[i].names) -> U]
  /\ y[0] = x
  /\ \A k \in 1 .. Len(os[i].names) : y[k] = IndexName(y[k - 1], i, os[i], k)
  /\ IndexOpt(x, i, os[i]) = y[Len(os[i].names)]

LEMMA NamingExists ==
  ASSUME NEW os, OptsOK(os), NEW i \in DOMAIN os, NEW U, NEW x \in U,
         \A k \in DOMAIN os[i].names : \A z \in U : IndexName(z, i, os[i], k) \in U
  PROVE  \E y : IsNaming(y, U, x, os, i)
  <1> DEFINE o == os[i]
             N == Len(o.names)
             Is(g) == g = [k \in 0 .. N |->
                             IF k = 0 THEN x
                             ELSE The({IndexName(z, i, o, k) : z \in {g[k - 1]}})]
             y == CHOOSE g : Is(g)
             s == [k \in 1 .. N |-> [z \in U |-> IndexName(z, i, o, k)]]
  <1>1. N \in Nat /\ DOMAIN o.names = 1 .. N
    BY DEF OptsOK, IsSequence
  <1>2. \A k \in 1 .. N : \A z \in U : IndexName(z, i, o, k) \in U
    BY <1>1
  <1>3. \A k, z : The({IndexName(w, i, o, k) : w \in {z}}) = IndexName(z, i, o, k)
    <2> TAKE k, z
    <2>1. {IndexName(w, i, o, k) : w \in {z}} = {IndexName(z, i, o, k)}
      OBVIOUS
    <2> QED
      BY <2>1, TheOne
  <1>4. IndexOpt(x, i, o) = y[N]
    BY DEF IndexOpt
  <1> HIDE DEF o, N
  <1>5. s \in [1 .. N -> [U -> U]]
    BY <1>2
  <1>6. \A k \in 1 .. N : \A z \in U : s[k][z] = IndexName(z, i, o, k)
    OBVIOUS
  <1> HIDE DEF s
  <1>7. x \in U
    OBVIOUS
  <1>8. PICK g : TakesSteps(g, N, U, x, s)
    BY <1>1, <1>5, <1>7, StepsExist
  <1>9. g \in [0 .. N -> U] /\ g[0] = x /\ \A k \in 1 .. N : g[k] = s[k][g[k - 1]]
    BY <1>8 DEF TakesSteps
  <1>10. Is(g)
    <2>1. \A k \in 0 .. N : k # 0 => k \in 1 .. N /\ k - 1 \in 0 .. N
      BY <1>1
    <2>2. ASSUME NEW k \in 0 .. N, k # 0
          PROVE  s[k][g[k - 1]] = The({IndexName(z, i, o, k) : z \in {g[k - 1]}})
      BY <1>3, <1>6, <1>9, <2>1, <2>2
    <2> QED
      BY <1>9, <2>2
  <1>11. Is(y)
    BY <1>10
  <1> HIDE DEF y
  <1>12. \A k \in 0 .. N : y[k] \in U
    <2> DEFINE G == {k \in 0 .. N : y[k] \in U}
    <2>1. 0 \in G
      BY <1>1, <1>7, <1>11
    <2>2. ASSUME NEW k \in 1 .. N, k - 1 \in G
          PROVE  k \in G
      <3>1. k \in 0 .. N /\ k # 0
        OBVIOUS
      <3>2. y[k] = IndexName(y[k - 1], i, o, k)
        BY <1>3, <1>11, <3>1
      <3>3. y[k - 1] \in U
        BY <2>2
      <3> QED
        BY <1>2, <3>1, <3>2, <3>3
    <2> HIDE DEF G
    <2>3. \A k \in 0 .. N : k \in G
      BY <1>1, <2>1, <2>2, Upward
    <2> QED
      BY <2>3 DEF G
  <1>13. y \in [0 .. N -> U] /\ y[0] = x
    BY <1>1, <1>11, <1>12
  <1>14. \A k \in 1 .. N : y[k] = IndexName(y[k - 1], i, o, k)
    <2>1. \A k \in 1 .. N : k \in 0 .. N /\ k # 0
      OBVIOUS
    <2> QED
      BY <1>3, <1>11, <2>1
  <1> QED
    BY <1>4, <1>13, <1>14 DEF IsNaming, o, N

\* What each name of an option keeps, the option keeps.
LEMMA OptKeeps ==
  ASSUME NEW os, OptsOK(os), NEW i \in DOMAIN os, NEW U, NEW x \in U,
         \A k \in DOMAIN os[i].names : \A z \in U : IndexName(z, i, os[i], k) \in U
  PROVE  IndexOpt(x, i, os[i]) \in U
  <1>1. PICK y : IsNaming(y, U, x, os, i)
    BY NamingExists
  <1>2. Len(os[i].names) \in 0 .. Len(os[i].names)
    BY DEF OptsOK, IsSequence
  <1> QED
    BY <1>1, <1>2 DEF IsNaming

\* y is how the options of a command are indexed, one after the other.
IsIndexing(y, U, os, cmd) ==
  /\ y \in [0 .. Len(os) -> U]
  /\ y[0] = EmptyIndex(cmd)
  /\ \A i \in 1 .. Len(os) : y[i] = IndexStep(y[i - 1], i, os[i], cmd)
  /\ IndexAll(os, cmd) = y[Len(os)]

LEMMA IndexingExists ==
  ASSUME NEW os, OptsOK(os), NEW cmd, NEW U, EmptyIndex(cmd) \in U,
         \A i \in DOMAIN os : \A x \in U : os[i].command = cmd => IndexOpt(x, i, os[i]) \in U
  PROVE  \E y : IsIndexing(y, U, os, cmd)
  <1> DEFINE N == Len(os)
             Is(g) == g = [i \in 0 .. N |->
                             IF i = 0 THEN EmptyIndex(cmd)
                             ELSE The({IndexStep(z, i, os[i], cmd) : z \in {g[i - 1]}})]
             y == CHOOSE g : Is(g)
             s == [i \in 1 .. N |-> [z \in U |-> IndexStep(z, i, os[i], cmd)]]
  <1>1. N \in Nat /\ DOMAIN os = 1 .. N
    BY DEF OptsOK, IsSequence
  <1>2. \A k \in 1 .. N : \A z \in U : IndexStep(z, k, os[k], cmd) \in U
    BY <1>1 DEF IndexStep
  <1>3. \A k, z : The({IndexStep(w, k, os[k], cmd) : w \in {z}}) = IndexStep(z, k, os[k], cmd)
    <2> TAKE k, z
    <2>1. {IndexStep(w, k, os[k], cmd) : w \in {z}} = {IndexStep(z, k, os[k], cmd)}
      OBVIOUS
    <2> QED
      BY <2>1, TheOne
  <1>4. IndexAll(os, cmd) = y[N]
    BY DEF IndexAll
  <1> HIDE DEF N
  <1>5. s \in [1 .. N -> [U -> U]]
    BY <1>2
  <1>6. \A k \in 1 .. N : \A z \in U : s[k][z] = IndexStep(z, k, os[k], cmd)
    OBVIOUS
  <1> HIDE DEF s
  <1>7. EmptyIndex(cmd) \in U
    OBVIOUS
  <1>8. PICK g : TakesSteps(g, N, U, EmptyIndex(cmd), s)
    BY <1>1, <1>5, <1>7, StepsExist
  <1>9. g \in [0 .. N -> U] /\ g[0] = EmptyIndex(cmd) /\ \A k \in 1 .. N : g[k] = s[k][g[k - 1]]
    BY <1>8 DEF TakesSteps
  <1>10. Is(g)
    <2>1. \A k \in 0 .. N : k # 0 => k \in 1 .. N /\ k - 1 \in 0 .. N
      BY <1>1
    <2>2. ASSUME NEW k \in 0 .. N, k # 0
          PROVE  s[k][g[k - 1]] = The({IndexStep(z, k, os[k], cmd) : z \in {g[k - 1]}})
      <3>1. k \in 1 .. N /\ g[k - 1] \in U
        BY <1>9, <2>1, <2>2
      <3>2. s[k][g[k - 1]] = IndexStep(g[k - 1], k, os[k], cmd)
        BY <1>6, <3>1
      <3> QED
        BY <1>3, <3>2
    <2> QED
      BY <1>9, <2>2
  <1>11. Is(y)
    BY <1>10
  <1> HIDE DEF y
  <1>12. \A k \in 0 .. N : y[k] \in U
    <2> DEFINE G == {k \in 0 .. N : y[k] \in U}
    <2>1. 0 \in G
      BY <1>1, <1>7, <1>11
    <2>2. ASSUME NEW k \in 1 .. N, k - 1 \in G
          PROVE  k \in G
      <3>1. k \in 0 .. N /\ k # 0
        OBVIOUS
      <3>2. y[k] = IndexStep(y[k - 1], k, os[k], cmd)
        BY <1>3, <1>11, <3>1
      <3>3. y[k - 1] \in U
        BY <2>2
      <3> QED
        BY <1>2, <3>1, <3>2, <3>3
    <2> HIDE DEF G
    <2>3. \A k \in 0 .. N : k \in G
      BY <1>1, <2>1, <2>2, Upward
    <2> QED
      BY <2>3 DEF G
  <1>13. y \in [0 .. N -> U] /\ y[0] = EmptyIndex(cmd)
    BY <1>1, <1>11, <1>12
  <1>14. \A i \in 1 .. N : y[i] = IndexStep(y[i - 1], i, os[i], cmd)
    <2>1. \A i \in 1 .. N : i \in 0 .. N /\ i # 0
      OBVIOUS
    <2> QED
      BY <1>3, <1>11, <2>1
  <1> QED
    BY <1>4, <1>13, <1>14 DEF IsIndexing, N

\* What each option of a command keeps, the index keeps.
LEMMA OptsKeep ==
  ASSUME NEW os, OptsOK(os), NEW cmd, NEW U, EmptyIndex(cmd) \in U,
         \A i \in DOMAIN os : \A x \in U : os[i].command = cmd => IndexOpt(x, i, os[i]) \in U
  PROVE  IndexAll(os, cmd) \in U
  <1>1. PICK y : IsIndexing(y, U, os, cmd)
    BY IndexingExists
  <1>2. Len(os) \in 0 .. Len(os)
    BY DEF OptsOK, IsSequence
  <1> QED
    BY <1>1, <1>2 DEF IsIndexing

LEMMA OptsKeepIndex ==
  ASSUME NEW os, OptsOK(os), NEW cmd
  PROVE  IndexAll(os, cmd) \in Indexes(os)
  <1> DEFINE U == Indexes(os)
  <1>1. EmptyIndex(cmd) \in U
    BY EmptyIsIndex
  <1>2. \A i \in DOMAIN os : \A k \in DOMAIN os[i].names : \A z \in U : IndexName(z, i, os[i], k) \in U
    BY NameKeepsIndex
  <1> HIDE DEF U
  <1>3. \A i \in DOMAIN os : \A x \in U : os[i].command = cmd => IndexOpt(x, i, os[i]) \in U
    BY <1>2, OptKeeps
  <1>4. IndexAll(os, cmd) \in U
    BY <1>1, <1>3, OptsKeep
  <1> QED
    BY <1>4 DEF U

\* The index of a command is made of names of the options there are, and minOprs, which
\* decides where the command is, is what the operands required need together: for all
\* options, of whatever names, forms, modifiers and sizes.
THEOREM IndexIsTyped ==
  ASSUME NEW os, OptsOK(os), NEW cmd
  PROVE  Index(os, cmd) \in Indexes(os)
  <1> DEFINE x == IndexAll(os, cmd)
  <1>1. x \in Indexes(os)
    BY OptsKeepIndex
  <1>2. {Finished(y) : y \in {x}} = {Finished(x)}
    OBVIOUS
  <1>3. Index(os, cmd) = Finished(x)
    BY <1>2, TheOne DEF Index
  <1> HIDE DEF x
  <1>4. Finished(x) \in Indexes(os)
    BY <1>1 DEF Finished, Indexes
  <1> QED
    BY <1>3, <1>4

\* An operand of the index of a command is a name of an option of the command.
IsOperandOf(os, cmd, n) ==
  \E i \in DOMAIN os : \E k \in DOMAIN os[i].names :
    /\ os[i].command = cmd /\ os[i].max # 0 /\ os[i].names[k].form # ""
    /\ n = OptName(i, os[i].names[k], 2 * (k - 1))

OperandsAreOf(os, cmd, x) == \A k \in DOMAIN x.operands : IsOperandOf(os, cmd, x.operands[k])

LEMMA NameKeepsOperands ==
  ASSUME NEW os, OptsOK(os), NEW cmd, NEW x \in Indexes(os), OperandsAreOf(os, cmd, x),
         NEW i \in DOMAIN os, os[i].command = cmd, NEW k \in DOMAIN os[i].names
  PROVE  OperandsAreOf(os, cmd, IndexName(x, i, os[i], k))
  <1> DEFINE o == os[i]
             name == o.names[k]
             n == OptName(i, name, 2 * (k - 1))
             y == IndexName(x, i, o, k)
  <1>1. CASE name.form # "" /\ o.max = 0
    BY <1>1 DEF IndexName
  <1>2. CASE name.form # "" /\ o.max # 0
    <2>1. y = IndexOperand(x, o, n)
      BY <1>2 DEF IndexName
    <2>2. x.operands \in Seq(OperandNames(os))
      BY DEF Indexes
    <2>3. y.operands = Append(x.operands, n)
      BY <2>1 DEF IndexOperand, Indexes
    <2>4. IsOperandOf(os, cmd, n)
      BY <1>2 DEF IsOperandOf
    <2> HIDE DEF n, y
    <2>5. \A j \in DOMAIN y.operands :
            y.operands[j] = n \/ (j \in DOMAIN x.operands /\ y.operands[j] = x.operands[j])
      BY <2>2, <2>3
    <2>6. OperandsAreOf(os, cmd, y)
      BY <2>4, <2>5 DEF OperandsAreOf
    <2> QED
      BY <2>6 DEF y
  <1>3. CASE name.form = ""
    <2>1. \/ y = [x EXCEPT !.broken = TRUE]
          \/ y = IndexShortName(x, Head(name.key), n)
          \/ y = IndexLongName(x, name.key, o, n, ~name.dot)
      BY <1>3 DEF IndexName
    <2> HIDE DEF n
    <2>2. y.operands = x.operands
      BY <2>1 DEF IndexShortName, IndexLongName, Indexes
    <2> QED
      BY <2>2 DEF OperandsAreOf
  <1> QED
    BY <1>1, <1>2, <1>3

\* The operands of the index are those of the command.
LEMMA OperandsOfIndex ==
  ASSUME NEW os, OptsOK(os), NEW cmd
  PROVE  OperandsAreOf(os, cmd, Index(os, cmd))
  <1> DEFINE U == {x \in Indexes(os) : OperandsAreOf(os, cmd, x)}
             x == IndexAll(os, cmd)
  <1>1. EmptyIndex(cmd) \in U
    <2>1. EmptyIndex(cmd).operands = <<>>
      BY DEF EmptyIndex
    <2>2. OperandsAreOf(os, cmd, EmptyIndex(cmd))
      BY <2>1, SequenceEmpty DEF OperandsAreOf
    <2> QED
      BY <2>2, EmptyIsIndex
  <1>2. \A i \in DOMAIN os : os[i].command = cmd =>
          \A k \in DOMAIN os[i].names : \A z \in U : IndexName(z, i, os[i], k) \in U
    BY NameKeepsIndex, NameKeepsOperands
  <1>3. \A y \in U : y \in Indexes(os) /\ OperandsAreOf(os, cmd, y)
    OBVIOUS
  <1> HIDE DEF U
  <1>4. \A i \in DOMAIN os : \A z \in U : os[i].command = cmd => IndexOpt(z, i, os[i]) \in U
    BY <1>2, OptKeeps
  <1>5. x \in U
    BY <1>1, <1>4, OptsKeep
  <1>6. Index(os, cmd) = Finished(x)
    <2>1. {Finished(y) : y \in {x}} = {Finished(x)}
      OBVIOUS
    <2> QED
      BY <2>1, TheOne DEF Index
  <1> HIDE DEF x
  <1>7. Finished(x).operands = x.operands
    BY <1>3, <1>5 DEF Finished, Indexes
  <1> QED
    BY <1>3, <1>5, <1>6, <1>7 DEF OperandsAreOf

LEMMA OperandsOfCommand ==
  ASSUME NEW os, OptsOK(os), NEW cmd, NEW k \in DOMAIN Index(os, cmd).operands
  PROVE  LET n == Index(os, cmd).operands[k]
         IN  /\ n.opt \in DOMAIN os /\ os[n.opt].command = cmd /\ os[n.opt].max # 0
             /\ FixedOperands(os) /\ cmd = <<>> => ~n.optional /\ os[n.opt].min = os[n.opt].max
  <1> DEFINE n == Index(os, cmd).operands[k]
  <1>1. IsOperandOf(os, cmd, n)
    BY OperandsOfIndex DEF OperandsAreOf
  <1>2. PICK i \in DOMAIN os : \E j \in DOMAIN os[i].names :
               /\ os[i].command = cmd /\ os[i].max # 0 /\ os[i].names[j].form # ""
               /\ n = OptName(i, os[i].names[j], 2 * (j - 1))
    BY <1>1 DEF IsOperandOf
  <1>3. PICK j \in DOMAIN os[i].names :
               /\ os[i].command = cmd /\ os[i].max # 0 /\ os[i].names[j].form # ""
               /\ n = OptName(i, os[i].names[j], 2 * (j - 1))
    BY <1>2
  <1> HIDE DEF n
  <1>4. n.opt = i /\ (n.optional <=> os[i].names[j].form = "[" \/ os[i].names[j].modifier = "?")
    BY <1>3 DEF OptName
  <1>5. /\ n.opt \in DOMAIN os /\ os[n.opt].command = cmd /\ os[n.opt].max # 0
        /\ FixedOperands(os) /\ cmd = <<>> => ~n.optional /\ os[n.opt].min = os[n.opt].max
    BY <1>3, <1>4 DEF FixedOperands
  <1> QED
    BY <1>5 DEF n

-----------------------------------------------------------------------------
(***************************************************************************)
(* Dealing out positional values.                                          *)
(***************************************************************************)
\* g sums up the first counts.
IsSum(g, counts, n) ==
  /\ g \in [0 .. n -> Nat]
  /\ g[0] = 0
  /\ \A i \in 1 .. n : g[i] = g[i - 1] + counts[i]

SumsTo(counts, n, total) == \E g : IsSum(g, counts, n) /\ g[n] = total

\* What n operands have got of numPos values.
Deals(n, numPos) ==
  {m \in [used : 0 .. numPos, counts : [1 .. n -> Nat]] : SumsTo(m.counts, n, m.used)}

LEMMA NoneIsDeal ==
  ASSUME NEW n \in Nat, NEW numPos \in Nat
  PROVE  [used |-> 0, counts |-> [i \in 1 .. n |-> 0]] \in Deals(n, numPos)
  <1> DEFINE none == [i \in 1 .. n |-> 0]
             g == [i \in 0 .. n |-> 0]
  <1>1. IsSum(g, none, n) /\ g[n] = 0
    BY DEF IsSum
  <1> QED
    BY <1>1 DEF Deals, SumsTo

LEMMA SumGrows ==
  ASSUME NEW n \in Nat, NEW counts \in [1 .. n -> Nat], NEW total \in Nat,
         SumsTo(counts, n, total), NEW i \in 1 .. n, NEW num \in Nat
  PROVE  SumsTo([counts EXCEPT ![i] = @ + num], n, total + num)
  <1> DEFINE more == [counts EXCEPT ![i] = @ + num]
  <1>1. PICK g : IsSum(g, counts, n) /\ g[n] = total
    BY DEF SumsTo
  <1> DEFINE h == [k \in 0 .. n |-> IF k >= i THEN g[k] + num ELSE g[k]]
  <1>2. h \in [0 .. n -> Nat]
    BY <1>1 DEF IsSum
  <1>3. h[0] = 0 /\ h[n] = total + num
    BY <1>1 DEF IsSum
  <1>4. \A k \in 1 .. n : more[k] = IF k = i THEN counts[k] + num ELSE counts[k]
    OBVIOUS
  <1>5. \A k \in 0 .. n : h[k] = IF k >= i THEN g[k] + num ELSE g[k]
    OBVIOUS
  <1> HIDE DEF more, h
  <1>6. ASSUME NEW k \in 1 .. n
        PROVE  h[k] = h[k - 1] + more[k]
    <2>1. k \in 0 .. n /\ k - 1 \in 0 .. n /\ counts[k] \in Nat
      OBVIOUS
    <2>2. g[k] = g[k - 1] + counts[k] /\ g[k] \in Nat /\ g[k - 1] \in Nat
      BY <1>1, <2>1 DEF IsSum
    <2>3. h[k] = (IF k >= i THEN g[k] + num ELSE g[k])
      BY <1>5, <2>1
    <2>4. h[k - 1] = (IF k - 1 >= i THEN g[k - 1] + num ELSE g[k - 1])
      BY <1>5, <2>1
    <2>5. more[k] = (IF k = i THEN counts[k] + num ELSE counts[k])
      BY <1>4
    <2>6. CASE k < i
      BY <2>1, <2>2, <2>3, <2>4, <2>5, <2>6
    <2>7. CASE k = i
      BY <2>1, <2>2, <2>3, <2>4, <2>5, <2>7
    <2>8. CASE k > i
      BY <2>1, <2>2, <2>3, <2>4, <2>5, <2>8
    <2> QED
      BY <2>6, <2>7, <2>8
  <1>7. IsSum(h, more, n)
    BY <1>2, <1>3, <1>6 DEF IsSum
  <1> QED
    BY <1>3, <1>7 DEF SumsTo, more

LEMMA TakesWhatThereIs ==
  ASSUME NEW os, OptsOK(os), NEW n \in OperandNames(os), NEW avail \in Nat, NEW cat
  PROVE  numMatches(cat, avail, n, os[n.opt]) \in 0 .. avail
  <1> DEFINE o == os[n.opt]
  <1>1. /\ o.min \in Nat /\ o.max \in Int /\ o.max # 0
        /\ o.max = -1 \/ (o.max > 0 /\ o.min <= o.max)
    BY DEF OperandNames, Names, OptsOK
  <1> HIDE DEF o
  <1>2. \A max \in Nat : AtMost(avail, max) \in 0 .. avail
    BY DEF AtMost
  <1>3. o.max # -1 => o.max - o.min \in Nat /\ o.max \in Nat
    BY <1>1
  <1>4. AtMost(avail, o.max) \in 0 .. avail
    BY <1>1, <1>2, <1>3 DEF AtMost
  <1>5. AtMost(avail, 1) \in 0 .. avail
    BY <1>2
  <1>6. o.max # -1 => AtMost(avail, o.max - o.min) \in 0 .. avail
    BY <1>2, <1>3
  <1>7. avail \in 0 .. avail /\ 0 \in 0 .. avail /\ (avail >= o.min => o.min \in 0 .. avail)
    BY <1>1
  <1> QED
    BY <1>4, <1>5, <1>6, <1>7 DEF numMatches, o

\* An operand that is required gets its minimum in the first round, if there is enough.
LEMMA TakesItsMinimum ==
  ASSUME NEW os, OptsOK(os), NEW n \in OperandNames(os), NEW avail \in Nat,
         avail >= Needs(os, n)
  PROVE  numMatches("kMinReq", avail, n, os[n.opt]) = Needs(os, n)
  <1> DEFINE o == os[n.opt]
  <1>1. o.min \in Nat /\ n.optional \in BOOLEAN
    BY DEF OperandNames, Names, OptsOK
  <1>2. CASE n.optional
    BY <1>2 DEF numMatches, Needs
  <1>3. CASE ~n.optional /\ (o.min # 1 \/ o.max # 1)
    BY <1>1, <1>3 DEF numMatches, Needs
  <1>4. CASE ~n.optional /\ ~(o.min # 1 \/ o.max # 1)
    <2>1. AtMost(avail, 1) = 1
      BY <1>4 DEF AtMost, Needs
    <2> QED
      BY <1>4, <2>1 DEF numMatches, Needs
  <1> QED
    BY <1>1, <1>2, <1>3, <1>4

LEMMA TakeKeepsDeal ==
  ASSUME NEW os, OptsOK(os), NEW x \in Indexes(os), NEW numPos \in Nat, NEW cat,
         NEW m \in Deals(Len(x.operands), numPos), NEW i \in 1 .. Len(x.operands)
  PROVE  /\ Take(os, x, numPos, cat, m, i) \in Deals(Len(x.operands), numPos)
         /\ Take(os, x, numPos, cat, m, i).used >= m.used
  <1> DEFINE n == x.operands[i]
             num == numMatches(cat, numPos - m.used, n, os[n.opt])
             L == Len(x.operands)
             more == [m.counts EXCEPT ![i] = @ + num]
  <1>1. x.operands \in Seq(OperandNames(os))
    BY DEF Indexes
  <1>2. n \in OperandNames(os) /\ L \in Nat
    BY <1>1
  <1>3. m.used \in 0 .. numPos /\ m.counts \in [1 .. L -> Nat] /\ SumsTo(m.counts, L, m.used)
    BY DEF Deals
  <1>4. numPos - m.used \in Nat
    BY <1>3
  <1>5. num \in 0 .. numPos - m.used
    BY <1>2, <1>4, TakesWhatThereIs
  <1>6. Take(os, x, numPos, cat, m, i) = [used |-> m.used + num, counts |-> more]
    BY DEF Take
  <1> HIDE DEF num, n, L
  <1>7. num \in Nat /\ m.used \in Nat /\ m.used + num \in 0 .. numPos
    BY <1>3, <1>5
  <1>8. SumsTo(more, L, m.used + num)
    BY <1>2, <1>3, <1>7, SumGrows DEF L
  <1>9. more \in [1 .. L -> Nat]
    <2>1. i \in 1 .. L
      BY DEF L
    <2> DEFINE counts == m.counts
    <2>2. counts \in [1 .. L -> Nat]
      BY <1>3
    <2> HIDE DEF counts
    <2>3. counts[i] + num \in Nat
      BY <1>2, <1>7, <2>1, <2>2
    <2>4. [counts EXCEPT ![i] = @ + num] \in [1 .. L -> Nat]
      BY <2>2, <2>3
    <2> QED
      BY <2>4 DEF counts
  <1> HIDE DEF more
  <1> QED
    BY <1>6, <1>7, <1>8, <1>9 DEF Deals, L

\* g is how a round of the operands goes.
IsRound(g, os, x, numPos, cat, start) ==
  /\ g \in [0 .. Len(x.operands) -> Deals(Len(x.operands), numPos)]
  /\ g[0] = start
  /\ \A i \in 1 .. Len(x.operands) : g[i] = Take(os, x, numPos, cat, g[i - 1], i)
  /\ TakeAll(os, x, numPos, cat, start) = g[Len(x.operands)]

LEMMA RoundExists ==
  ASSUME NEW os, OptsOK(os), NEW x \in Indexes(os), NEW numPos \in Nat, NEW cat,
         NEW start \in Deals(Len(x.operands), numPos)
  PROVE  \E g : IsRound(g, os, x, numPos, cat, start)
  <1> DEFINE N == Len(x.operands)
             U == Deals(N, numPos)
             Is(g) == g = [i \in 0 .. N |->
                             IF i = 0 THEN start
                             ELSE The({Take(os, x, numPos, cat, z, i) : z \in {g[i - 1]}})]
             y == CHOOSE g : Is(g)
             s == [i \in 1 .. N |-> [z \in U |-> Take(os, x, numPos, cat, z, i)]]
  <1>1. N \in Nat
    BY DEF Indexes
  <1>2. \A k \in 1 .. N : \A z \in U : Take(os, x, numPos, cat, z, k) \in U
    BY <1>1, TakeKeepsDeal
  <1>3. \A k, z : The({Take(os, x, numPos, cat, w, k) : w \in {z}}) = Take(os, x, numPos, cat, z, k)
    <2> TAKE k, z
    <2>1. {Take(os, x, numPos, cat, w, k) : w \in {z}} = {Take(os, x, numPos, cat, z, k)}
      OBVIOUS
    <2> QED
      BY <2>1, TheOne
  <1>4. TakeAll(os, x, numPos, cat, start) = y[N]
    BY DEF TakeAll
  <1> HIDE DEF N, U
  <1>5. s \in [1 .. N -> [U -> U]]
    BY <1>2
  <1>6. \A k \in 1 .. N : \A z \in U : s[k][z] = Take(os, x, numPos, cat, z, k)
    OBVIOUS
  <1> HIDE DEF s
  <1>7. start \in U
    BY DEF N, U
  <1>8. PICK g : TakesSteps(g, N, U, start, s)
    BY <1>1, <1>5, <1>7, StepsExist
  <1>9. g \in [0 .. N -> U] /\ g[0] = start /\ \A k \in 1 .. N : g[k] = s[k][g[k - 1]]
    BY <1>8 DEF TakesSteps
  <1>10. Is(g)
    <2>1. \A k \in 0 .. N : k # 0 => k \in 1 .. N /\ k - 1 \in 0 .. N
      BY <1>1
    <2>2. ASSUME NEW k \in 0 .. N, k # 0
          PROVE  s[k][g[k - 1]] = The({Take(os, x, numPos, cat, z, k) : z \in {g[k - 1]}})
      <3>1. k \in 1 .. N /\ g[k - 1] \in U
        BY <1>9, <2>1, <2>2
      <3>2. s[k][g[k - 1]] = Take(os, x, numPos, cat, g[k - 1], k)
        BY <1>6, <3>1
      <3> QED
        BY <1>3, <3>2
    <2> QED
      BY <1>9, <2>2
  <1>11. Is(y)
    BY <1>10
  <1> HIDE DEF y
  <1>12. \A k \in 1 .. N : y[k] = Take(os, x, numPos, cat, y[k - 1], k)
    <2>1. \A k \in 1 .. N : k \in 0 .. N /\ k # 0
      OBVIOUS
    <2> QED
      BY <1>3, <1>11, <2>1
  <1>13. \A k \in 0 .. N : y[k] \in U
    <2> DEFINE G == {k \in 0 .. N : y[k] \in U}
    <2>1. 0 \in G
      BY <1>1, <1>7, <1>11
    <2>2. ASSUME NEW k \in 1 .. N, k - 1 \in G
          PROVE  k \in G
      <3>1. k \in 0 .. N
        OBVIOUS
      <3>2. y[k - 1] \in U
        BY <2>2
      <3> QED
        BY <1>2, <1>12, <3>1, <3>2
    <2> HIDE DEF G
    <2>3. \A k \in 0 .. N : k \in G
      BY <1>1, <2>1, <2>2, Upward
    <2> QED
      BY <2>3 DEF G
  <1>14. y \in [0 .. N -> U] /\ y[0] = start
    BY <1>1, <1>11, <1>13
  <1> QED
    BY <1>4, <1>12, <1>14 DEF IsRound, N, U

LEMMA RoundUses ==
  ASSUME NEW os, OptsOK(os), NEW x \in Indexes(os), NEW numPos \in Nat, NEW cat,
         NEW start \in Deals(Len(x.operands), numPos)
  PROVE  /\ TakeAll(os, x, numPos, cat, start) \in Deals(Len(x.operands), numPos)
         /\ TakeAll(os, x, numPos, cat, start).used >= start.used
  <1> DEFINE N == Len(x.operands)
             U == Deals(N, numPos)
  <1>1. PICK g : IsRound(g, os, x, numPos, cat, start)
    BY RoundExists
  <1>2. /\ N \in Nat /\ g \in [0 .. N -> U] /\ g[0] = start
        /\ \A i \in 1 .. N : g[i] = Take(os, x, numPos, cat, g[i - 1], i)
        /\ TakeAll(os, x, numPos, cat, start) = g[N]
    BY <1>1 DEF IsRound, Indexes
  <1>3. \A m \in U : m.used \in Int
    BY DEF Deals
  <1>4. \A i \in 1 .. N : \A m \in U : Take(os, x, numPos, cat, m, i).used >= m.used
    BY TakeKeepsDeal
  <1> HIDE DEF N, U
  <1> DEFINE G == {i \in 0 .. N : g[i].used >= start.used}
  <1>5. 0 \in G
    <2>1. 0 \in 0 .. N /\ start \in U
      BY <1>2 DEF N, U
    <2> QED
      BY <1>2, <1>3, <2>1
  <1>6. ASSUME NEW i \in 1 .. N, i - 1 \in G
        PROVE  i \in G
    <2>1. i \in 0 .. N /\ i - 1 \in 0 .. N /\ start \in U
      BY DEF N, U
    <2>2. g[i - 1] \in U /\ g[i] \in U /\ g[i] = Take(os, x, numPos, cat, g[i - 1], i)
      BY <1>2, <2>1
    <2>3. g[i].used >= g[i - 1].used /\ g[i - 1].used >= start.used
      BY <1>4, <1>6, <2>2
    <2>4. g[i].used \in Int /\ g[i - 1].used \in Int /\ start.used \in Int
      BY <1>3, <2>1, <2>2
    <2> QED
      BY <2>1, <2>3, <2>4
  <1> HIDE DEF G
  <1>7. \A i \in 0 .. N : i \in G
    BY <1>2, <1>5, <1>6, Upward
  <1>8. N \in 0 .. N
    BY <1>2
  <1>9. g[N].used >= start.used /\ g[N] \in U
    BY <1>2, <1>7, <1>8 DEF G
  <1> QED
    BY <1>2, <1>9 DEF N, U

\* What operand k takes when it is its turn in the round g.
Taken(g, os, x, numPos, cat, k) ==
  numMatches(cat, numPos - g[k - 1].used, x.operands[k], os[x.operands[k].opt])

\* In a round each operand gets what it takes at its turn, and keeps it.
LEMMA RoundGives ==
  ASSUME NEW os, OptsOK(os), NEW x \in Indexes(os), NEW numPos \in Nat, NEW cat,
         NEW start \in Deals(Len(x.operands), numPos),
         NEW g, IsRound(g, os, x, numPos, cat, start), NEW k \in 1 .. Len(x.operands)
  PROVE  /\ Taken(g, os, x, numPos, cat, k) \in 0 .. numPos - g[k - 1].used
         /\ g[k - 1] \in Deals(Len(x.operands), numPos)
         /\ g[Len(x.operands)] \in Deals(Len(x.operands), numPos)
         /\ g[k - 1].used >= start.used
         /\ g[Len(x.operands)].used >= g[k - 1].used + Taken(g, os, x, numPos, cat, k)
         /\ g[Len(x.operands)].counts[k] = start.counts[k] + Taken(g, os, x, numPos, cat, k)
  <1> DEFINE N == Len(x.operands)
             U == Deals(N, numPos)
             Num(i) == Taken(g, os, x, numPos, cat, i)
             num == Num(k)
             low == g[k - 1].used
  <1>1. /\ N \in Nat /\ g \in [0 .. N -> U] /\ g[0] = start
        /\ \A i \in 1 .. N : g[i] = Take(os, x, numPos, cat, g[i - 1], i)
        /\ x.operands \in Seq(OperandNames(os))
    BY DEF IsRound, Indexes
  <1>2. \A i \in 0 .. N : g[i] \in U
    BY <1>1
  <1>3. \A m \in U : m.used \in 0 .. numPos /\ m.counts \in [1 .. N -> Nat]
    BY DEF Deals
  <1>4. \A i \in 1 .. N : g[i].used = g[i - 1].used + Num(i)
                          /\ g[i].counts = [g[i - 1].counts EXCEPT ![i] = @ + Num(i)]
    <2> TAKE i \in 1 .. N
    <2>1. Take(os, x, numPos, cat, g[i - 1], i) =
            [used |-> g[i - 1].used + Num(i), counts |-> [g[i - 1].counts EXCEPT ![i] = @ + Num(i)]]
      BY DEF Take, Taken
    <2> HIDE DEF Num
    <2> QED
      BY <1>1, <2>1
  <1>5. \A i \in 1 .. N : Num(i) \in 0 .. numPos - g[i - 1].used
    <2> TAKE i \in 1 .. N
    <2>1. x.operands[i] \in OperandNames(os) /\ i - 1 \in 0 .. N
      BY <1>1
    <2>2. numPos - g[i - 1].used \in Nat
      BY <1>2, <1>3, <2>1
    <2> QED
      BY <2>1, <2>2, TakesWhatThereIs DEF Taken
  <1>6. k \in 1 .. N /\ k - 1 \in 0 .. N /\ k \in Nat
    OBVIOUS
  <1>7. g[k].used = low + num
    BY <1>4, <1>6
  <1>8. low \in Nat /\ num \in Nat /\ start \in U
    BY <1>2, <1>3, <1>5, <1>6
  <1> HIDE DEF N, U, Num, num, low
  <1> DEFINE G == {i \in 0 .. N : /\ i < k => /\ g[i].counts[k] = start.counts[k]
                                              /\ g[i].used >= start.used
                                  /\ i >= k => /\ g[i].counts[k] = start.counts[k] + num
                                               /\ g[i].used >= low + num}
  <1>9. 0 \in G
    <2>1. 0 \in 0 .. N /\ ~(0 >= k) /\ start \in U
      BY <1>1, <1>6 DEF U, N
    <2> QED
      BY <1>1, <1>3, <2>1
  <1>10. ASSUME NEW i \in 1 .. N, i - 1 \in G
         PROVE  i \in G
    <2>1. i \in 0 .. N /\ i - 1 \in 0 .. N /\ i \in Nat
      BY <1>1
    <2>2. /\ g[i].used \in Nat /\ g[i - 1].used \in Nat /\ Num(i) \in Nat
          /\ start.used \in Nat /\ start.counts[k] \in Nat /\ g[i - 1].counts \in [1 .. N -> Nat]
      <3>1. g[i] \in U /\ g[i - 1] \in U /\ start \in U
        BY <1>2, <1>8, <2>1
      <3>2. /\ g[i].used \in 0 .. numPos /\ g[i - 1].used \in 0 .. numPos /\ start.used \in 0 .. numPos
            /\ start.counts \in [1 .. N -> Nat] /\ g[i - 1].counts \in [1 .. N -> Nat]
        BY <1>3, <3>1
      <3>3. \A c \in [1 .. N -> Nat] : c[k] \in Nat
        BY <1>6
      <3>4. Num(i) \in 0 .. numPos - g[i - 1].used
        BY <1>5
      <3> DEFINE used == g[i - 1].used
      <3>5. used \in 0 .. numPos /\ Num(i) \in 0 .. numPos - used
        BY <3>2, <3>4
      <3> HIDE DEF used
      <3>6. Num(i) \in Nat
        BY <3>5
      <3> QED
        BY <3>2, <3>3, <3>6
    <2>3. g[i].used = g[i - 1].used + Num(i)
          /\ g[i].counts = [g[i - 1].counts EXCEPT ![i] = @ + Num(i)]
      BY <1>4
    <2>4. CASE i < k
      <3>1. i - 1 < k /\ i # k /\ ~(i >= k)
        BY <1>6, <2>1, <2>4
      <3>2. g[i].counts[k] = g[i - 1].counts[k]
        BY <1>6, <2>2, <2>3, <3>1
      <3>3. g[i - 1].counts[k] = start.counts[k] /\ g[i - 1].used >= start.used
        BY <1>10, <3>1
      <3>4. g[i].used >= start.used
        BY <2>2, <2>3, <3>3
      <3> QED
        BY <2>1, <3>1, <3>2, <3>3, <3>4
    <2>5. CASE i = k
      <3>1. i - 1 < k /\ ~(i < k)
        BY <1>6, <2>5
      <3>2. g[i - 1].counts[k] = start.counts[k]
        BY <1>10, <3>1
      <3>3. g[i].counts[k] = g[i - 1].counts[k] + num
        BY <1>6, <2>2, <2>3, <2>5 DEF num
      <3>4. g[i].used >= low + num
        BY <1>7, <1>8, <2>5
      <3> QED
        BY <2>1, <3>1, <3>2, <3>3, <3>4
    <2>6. CASE i > k
      <3>1. i - 1 >= k /\ ~(i < k) /\ i # k
        BY <1>6, <2>1, <2>6
      <3>2. g[i].counts[k] = g[i - 1].counts[k]
        BY <1>6, <2>2, <2>3, <3>1
      <3>3. g[i - 1].counts[k] = start.counts[k] + num /\ g[i - 1].used >= low + num
        BY <1>10, <3>1
      <3>4. g[i].used >= low + num
        BY <1>8, <2>2, <2>3, <3>3
      <3> QED
        BY <2>1, <3>1, <3>2, <3>3, <3>4
    <2> QED
      BY <1>6, <2>1, <2>4, <2>5, <2>6
  <1> HIDE DEF G
  <1>11. \A i \in 0 .. N : i \in G
    BY <1>1, <1>9, <1>10, Upward
  <1>12. N \in 0 .. N /\ N >= k /\ k - 1 < k
    BY <1>1, <1>6
  <1>13. g[N].counts[k] = start.counts[k] + num /\ g[N].used >= low + num
    BY <1>11, <1>12 DEF G
  <1>14. low >= start.used
    BY <1>6, <1>11, <1>12 DEF G, low
  <1>15. num \in 0 .. numPos - low /\ g[k - 1] \in U /\ g[N] \in U
    BY <1>2, <1>5, <1>6, <1>12 DEF num, low
  <1> QED
    BY <1>13, <1>14, <1>15 DEF num, Num, low, U, N

\* A round takes nothing from an operand.
LEMMA RoundKeepsDeal ==
  ASSUME NEW os, OptsOK(os), NEW x \in Indexes(os), NEW numPos \in Nat, NEW cat,
         NEW start \in Deals(Len(x.operands), numPos)
  PROVE  /\ TakeAll(os, x, numPos, cat, start) \in Deals(Len(x.operands), numPos)
         /\ TakeAll(os, x, numPos, cat, start).used >= start.used
         /\ \A k \in 1 .. Len(x.operands) :
              TakeAll(os, x, numPos, cat, start).counts[k] >= start.counts[k]
  <1> DEFINE last == TakeAll(os, x, numPos, cat, start)
             N == Len(x.operands)
  <1>1. PICK g : IsRound(g, os, x, numPos, cat, start)
    BY RoundExists
  <1>2. last = g[N]
    BY <1>1 DEF IsRound
  <1>3. ASSUME NEW k \in 1 .. N
        PROVE  last.counts[k] >= start.counts[k]
    <2> DEFINE num == Taken(g, os, x, numPos, cat, k)
    <2>1. /\ num \in 0 .. numPos - g[k - 1].used
          /\ g[k - 1] \in Deals(N, numPos)
          /\ g[N].counts[k] = start.counts[k] + num
      <3>1. k \in 1 .. Len(x.operands)
        OBVIOUS
      <3> QED
        BY <1>1, <3>1, RoundGives
    <2>2. start.counts[k] \in Nat
      BY DEF Deals
    <2>3. g[k - 1].used \in 0 .. numPos
      BY <2>1 DEF Deals
    <2> HIDE DEF num, last
    <2> DEFINE used == g[k - 1].used
    <2>4. used \in 0 .. numPos /\ num \in 0 .. numPos - used
      BY <2>1, <2>3
    <2> HIDE DEF used
    <2>5. num \in Nat
      BY <2>4
    <2> QED
      BY <1>2, <2>1, <2>2, <2>5
  <1> QED
    BY <1>3, RoundUses

\* If there are as many values as the required operands need, the first round gives each of
\* them what it needs: f sums up the needs.
LEMMA FirstRoundFollowsNeeds ==
  ASSUME NEW os, OptsOK(os), NEW x \in Indexes(os),
         NEW start \in Deals(Len(x.operands), x.minOprs), start.used = 0,
         NEW f, CountsNeeds(os, x.operands, f), f[Len(x.operands)] = x.minOprs,
         \A i \in 0 .. Len(x.operands) : f[i] <= x.minOprs,
         NEW g, IsRound(g, os, x, x.minOprs, "kMinReq", start)
  PROVE  \A i \in 0 .. Len(x.operands) : g[i].used = f[i]
  <1> DEFINE N == Len(x.operands)
             all == x.minOprs
             U == Deals(N, all)
             Step(m, i) == Take(os, x, all, "kMinReq", m, i)
  <1>1. all \in Nat /\ N \in Nat /\ x.operands \in Seq(OperandNames(os))
    BY DEF Indexes
  <1>2. \A i \in 0 .. N : f[i] <= all
    OBVIOUS
  <1>4. /\ g \in [0 .. N -> U] /\ g[0] = start
        /\ \A i \in 1 .. N : g[i] = Step(g[i - 1], i)
    BY DEF IsRound
  <1>5. /\ f \in [0 .. N -> Nat] /\ f[0] = 0
        /\ \A i \in 1 .. N : f[i] = f[i - 1] + Needs(os, x.operands[i])
    BY DEF CountsNeeds
  <1>6. \A i \in 1 .. N : x.operands[i] \in OperandNames(os)
    BY <1>1
  <1>7. \A m, i : Step(m, i).used = m.used + numMatches("kMinReq", all - m.used, x.operands[i],
                                                        os[x.operands[i].opt])
    BY DEF Take
  <1> HIDE DEF N, U, all, Step
  <1> DEFINE G == {i \in 0 .. N : g[i].used = f[i]}
  <1>8. 0 \in G
    BY <1>1, <1>4, <1>5
  <1>9. ASSUME NEW i \in 1 .. N, i - 1 \in G
        PROVE  i \in G
    <2> DEFINE n == x.operands[i]
    <2>1. i \in 0 .. N /\ i - 1 \in 0 .. N
      BY <1>1
    <2>2. n \in OperandNames(os)
      BY <1>6
    <2>3. Needs(os, n) \in Nat
      BY <2>2 DEF Needs, OperandNames, Names, OptsOK
    <2>4. f[i] = f[i - 1] + Needs(os, n) /\ f[i] <= all /\ f[i] \in Nat /\ f[i - 1] \in Nat
      BY <1>2, <1>5, <2>1
    <2>5. g[i - 1].used = f[i - 1]
      BY <1>9
    <2>6. g[i].used = f[i - 1] + numMatches("kMinReq", all - f[i - 1], n, os[n.opt])
      BY <1>4, <1>7, <2>5
    <2>7. all - f[i - 1] \in Nat /\ all - f[i - 1] >= Needs(os, n)
      BY <1>1, <2>3, <2>4
    <2> HIDE DEF n
    <2>8. numMatches("kMinReq", all - f[i - 1], n, os[n.opt]) = Needs(os, n)
      BY <2>2, <2>7, TakesItsMinimum
    <2> QED
      BY <2>1, <2>4, <2>6, <2>8
  <1> HIDE DEF G
  <1>10. \A i \in 0 .. N : i \in G
    BY <1>1, <1>8, <1>9, Upward
  <1> QED
    BY <1>10 DEF G, N

\* Then it takes all values, and each operand has its minimum.
LEMMA FirstRoundTakesAll ==
  ASSUME NEW os, OptsOK(os), NEW x \in Indexes(os),
         NEW start \in Deals(Len(x.operands), x.minOprs), start.used = 0
  PROVE  /\ TakeAll(os, x, x.minOprs, "kMinReq", start).used = x.minOprs
         /\ \A k \in 1 .. Len(x.operands) :
              TakeAll(os, x, x.minOprs, "kMinReq", start).counts[k] >= Needs(os, x.operands[k])
  <1> DEFINE N == Len(x.operands)
             all == x.minOprs
             last == TakeAll(os, x, all, "kMinReq", start)
  <1>1. all \in Nat /\ N \in Nat /\ x.operands \in Seq(OperandNames(os))
    BY DEF Indexes
  <1>2. PICK f : /\ CountsNeeds(os, x.operands, f) /\ f[N] = all
                 /\ \A i \in 0 .. N : f[i] <= all
    BY DEF Indexes, IsNeeded
  <1>3. PICK g : IsRound(g, os, x, all, "kMinReq", start)
    BY <1>1, RoundExists
  <1>4. \A i \in 0 .. N : g[i].used = f[i]
    BY <1>2, <1>3, FirstRoundFollowsNeeds
  <1>5. last = g[N] /\ N \in 0 .. N
    BY <1>1, <1>3 DEF IsRound
  <1>6. ASSUME NEW k \in 1 .. N
        PROVE  last.counts[k] >= Needs(os, x.operands[k])
    <2> DEFINE n == x.operands[k]
               num == Taken(g, os, x, all, "kMinReq", k)
    <2>1. n \in OperandNames(os) /\ k - 1 \in 0 .. N /\ k \in 0 .. N
      BY <1>1
    <2>2. Needs(os, n) \in Nat
      BY <2>1 DEF Needs, OperandNames, Names, OptsOK
    <2>3. f[k] = f[k - 1] + Needs(os, n) /\ f[k] <= all /\ f[k] \in Nat /\ f[k - 1] \in Nat
      BY <1>2, <2>1 DEF CountsNeeds
    <2>4. all - f[k - 1] \in Nat /\ all - f[k - 1] >= Needs(os, n)
      BY <1>1, <2>2, <2>3
    <2>5. g[k - 1].used = f[k - 1]
      BY <1>4, <2>1
    <2>6. num = Needs(os, n)
      BY <2>1, <2>4, <2>5, TakesItsMinimum DEF Taken
    <2>7. g[N].counts[k] = start.counts[k] + num
      BY <1>1, <1>3, RoundGives
    <2>8. start.counts[k] \in Nat
      BY DEF Deals
    <2> HIDE DEF num, last
    <2> QED
      BY <1>5, <2>2, <2>6, <2>7, <2>8
  <1>7. last.used = all
    BY <1>2, <1>4, <1>5
  <1> QED
    BY <1>6, <1>7

\* The three rounds of assignOperands deal out no more values than there are, to operands
\* there are, and all of them if they are as many as the operands required need.
THEOREM MatchedIsDeal ==
  ASSUME NEW os, OptsOK(os), NEW x \in Indexes(os), NEW numPos \in Nat
  PROVE  /\ Matched(os, x, numPos) \in Deals(Len(x.operands), numPos)
         /\ numPos = x.minOprs =>
              /\ Matched(os, x, numPos).used = numPos
              /\ \A k \in 1 .. Len(x.operands) :
                   Matched(os, x, numPos).counts[k] >= Needs(os, x.operands[k])
  <1> DEFINE N == Len(x.operands)
             U == Deals(N, numPos)
             none == [used |-> 0, counts |-> [i \in DOMAIN x.operands |-> 0]]
             m1 == TakeAll(os, x, numPos, "kMinReq", none)
             m2 == TakeAll(os, x, numPos, "kReq", m1)
             m3 == TakeAll(os, x, numPos, "kOpt", m2)
  <1>1. N \in Nat /\ DOMAIN x.operands = 1 .. N
    BY DEF Indexes
  <1>2. none \in U /\ none.used = 0
    BY <1>1, NoneIsDeal
  <1>3. Matched(os, x, numPos) = m3
    BY DEF Matched, OprCat
  <1> HIDE DEF none
  <1>4. m1 \in U
    BY <1>2, RoundKeepsDeal
  <1>5. numPos = x.minOprs =>
          m1.used = numPos /\ \A k \in 1 .. N : m1.counts[k] >= Needs(os, x.operands[k])
    BY <1>2, FirstRoundTakesAll
  <1> HIDE DEF m1
  <1>6. m2 \in U /\ m2.used >= m1.used /\ \A k \in 1 .. N : m2.counts[k] >= m1.counts[k]
    BY <1>4, RoundKeepsDeal
  <1> HIDE DEF m2
  <1>7. m3 \in U /\ m3.used >= m2.used /\ \A k \in 1 .. N : m3.counts[k] >= m2.counts[k]
    BY <1>6, RoundKeepsDeal
  <1> HIDE DEF m3
  <1>8. \A m \in U : m.used \in 0 .. numPos /\ \A k \in 1 .. N : m.counts[k] \in Nat
    BY DEF Deals
  <1>9. m1.used \in 0 .. numPos /\ m2.used \in 0 .. numPos /\ m3.used \in 0 .. numPos
    BY <1>4, <1>6, <1>7, <1>8
  <1>10. m1.used = numPos => m3.used = numPos
    BY <1>6, <1>7, <1>9
  <1>11. ASSUME numPos = x.minOprs, NEW k \in 1 .. N
         PROVE  m3.counts[k] >= Needs(os, x.operands[k])
    <2>1. /\ m1.counts[k] \in Nat /\ m2.counts[k] \in Nat /\ m3.counts[k] \in Nat
          /\ m3.counts[k] >= m2.counts[k] /\ m2.counts[k] >= m1.counts[k]
      BY <1>4, <1>6, <1>7, <1>8
    <2>2. m1.counts[k] >= Needs(os, x.operands[k])
      BY <1>5, <1>11
    <2>3. Needs(os, x.operands[k]) \in Nat
      <3>1. x.operands[k] \in OperandNames(os)
        BY DEF Indexes
      <3> QED
        BY <3>1 DEF Needs, OperandNames, Names, OptsOK
    <2> QED
      BY <2>1, <2>2, <2>3
  <1> HIDE DEF N, U
  <1> QED
    BY <1>3, <1>5, <1>7, <1>10, <1>11 DEF N, U

\* The first counts do not sum up to less.
LEMMA SumsAscend ==
  ASSUME NEW n \in Nat, NEW counts \in [1 .. n -> Nat], NEW g, IsSum(g, counts, n),
         NEW i \in 0 .. n
  PROVE  \A j \in 0 .. n : j >= i => g[j] >= g[i]
  <1> DEFINE G == {j \in 0 .. n : j >= i => g[j] >= g[i]}
  <1>1. g \in [0 .. n -> Nat] /\ \A j \in 1 .. n : g[j] = g[j - 1] + counts[j]
    BY DEF IsSum
  <1>2. 0 \in G
    <2>1. 0 >= i => i = 0
      OBVIOUS
    <2>2. 0 \in 0 .. n /\ g[0] \in Nat
      BY <1>1
    <2> QED
      BY <2>1, <2>2
  <1>3. ASSUME NEW j \in 1 .. n, j - 1 \in G
        PROVE  j \in G
    <2>1. j \in 0 .. n /\ j - 1 \in 0 .. n /\ j \in Nat /\ i \in Nat
      OBVIOUS
    <2>2. g[j] = g[j - 1] + counts[j] /\ g[j] \in Nat /\ g[j - 1] \in Nat /\ counts[j] \in Nat
          /\ g[i] \in Nat
      BY <1>1, <2>1
    <2>3. j - 1 >= i => g[j - 1] >= g[i]
      BY <1>3
    <2>4. j >= i => j - 1 >= i \/ j = i
      BY <2>1
    <2> QED
      BY <2>1, <2>2, <2>3, <2>4
  <1> HIDE DEF G
  <1>4. \A j \in 0 .. n : j \in G
    BY <1>2, <1>3, Upward
  <1> QED
    BY <1>4 DEF G

\* A value that was dealt has the operand where the sum of the counts comes up to its place.
LEMMA OperandIsAt ==
  ASSUME NEW n \in Nat, NEW counts \in [1 .. n -> Nat], NEW g, IsSum(g, counts, n),
         NEW k \in 1 .. g[n]
  PROVE  /\ OperandOf(counts, k) \in 1 .. n
         /\ g[OperandOf(counts, k) - 1] < k /\ k <= g[OperandOf(counts, k)]
         /\ \A i \in 1 .. n : g[i - 1] < k /\ k <= g[i] => OperandOf(counts, k) = i
  <1> DEFINE Is(h) == h = [i \in 0 .. n |-> IF i = 0 THEN 0 ELSE h[i - 1] + counts[i]]
             upTo == CHOOSE h : Is(h)
             T == {i \in 1 .. n : upTo[i] >= k}
             least == OperandOf(counts, k)
  <1>1. Len(counts) = n /\ DOMAIN counts = 1 .. n
    OBVIOUS
  <1>2. least = Min(T)
    BY <1>1 DEF OperandOf
  <1>4. Is(g)
    <2>1. \A i \in 0 .. n : i # 0 => i \in 1 .. n
      OBVIOUS
    <2> QED
      BY <2>1 DEF IsSum
  <1>5. Is(upTo)
    BY <1>4
  <1> HIDE DEF upTo
  <1>6. \A i \in 0 .. n : upTo[i] = g[i]
    <2> DEFINE G == {i \in 0 .. n : upTo[i] = g[i]}
    <2>1. 0 \in G
      BY <1>5 DEF IsSum
    <2>2. ASSUME NEW i \in 1 .. n, i - 1 \in G
          PROVE  i \in G
      <3>1. i \in 0 .. n /\ i # 0
        OBVIOUS
      <3>2. upTo[i] = upTo[i - 1] + counts[i]
        BY <1>5, <3>1
      <3>3. g[i] = g[i - 1] + counts[i]
        BY DEF IsSum
      <3> QED
        BY <2>2, <3>1, <3>2, <3>3
    <2> HIDE DEF G
    <2>3. \A i \in 0 .. n : i \in G
      BY <2>1, <2>2, Upward
    <2> QED
      BY <2>3 DEF G
  <1>7. g \in [0 .. n -> Nat] /\ g[0] = 0 /\ k \in Nat /\ k >= 1 /\ k <= g[n]
    <2>1. g \in [0 .. n -> Nat] /\ g[0] = 0
      BY DEF IsSum
    <2>2. g[n] \in Nat
      BY <2>1
    <2> QED
      BY <2>1, <2>2
  <1>8. n \in 1 .. n
    <2>1. n # 0
      BY <1>7
    <2> QED
      BY <2>1
  <1>9. T = {i \in 1 .. n : g[i] >= k}
    BY <1>6
  <1> HIDE DEF T
  <1>10. n \in T /\ T \subseteq Nat
    BY <1>7, <1>8, <1>9
  <1>11. \E i \in T : \A j \in T : i <= j
    BY <1>10, LeastPlace
  <1>12. least \in T /\ \A j \in T : least <= j
    BY <1>2, <1>11 DEF Min
  <1> HIDE DEF least
  <1>13. least \in 1 .. n /\ least \in Nat /\ least - 1 \in 0 .. n /\ least \in 0 .. n
    BY <1>9, <1>12
  <1>14. k <= g[least]
    BY <1>7, <1>9, <1>12, <1>13
  <1>15. g[least - 1] < k
    <2>1. g[least - 1] \in Nat
      BY <1>7, <1>13
    <2>2. CASE least = 1
      BY <1>7, <2>2
    <2>3. CASE least # 1
      <3>1. least - 1 \in 1 .. n /\ ~(least <= least - 1)
        BY <1>13, <2>3
      <3>2. least - 1 \notin T
        BY <1>12, <3>1
      <3>3. ~(g[least - 1] >= k)
        BY <1>9, <3>1, <3>2
      <3> QED
        BY <1>7, <2>1, <3>3
    <2> QED
      BY <2>2, <2>3
  <1>16. ASSUME NEW i \in 1 .. n, g[i - 1] < k, k <= g[i]
         PROVE  least = i
    <2>1. i \in Nat /\ i - 1 \in 0 .. n /\ i \in 0 .. n
      OBVIOUS
    <2>2. g[i] \in Nat /\ g[i - 1] \in Nat /\ g[least] \in Nat
      BY <1>7, <1>13, <2>1
    <2>3. g[i] >= k
      BY <1>7, <1>16, <2>2
    <2>4. i \in T
      BY <1>9, <2>3
    <2>5. least <= i
      BY <1>12, <2>4
    <2>6. CASE least < i
      <3>1. i - 1 >= least
        BY <1>13, <2>1, <2>6
      <3>2. g[i - 1] >= g[least]
        BY <1>13, <2>1, <3>1, SumsAscend
      <3> QED
        BY <1>7, <1>14, <1>16, <2>2, <3>2
    <2> QED
      BY <1>13, <2>1, <2>5, <2>6
  <1> QED
    BY <1>13, <1>14, <1>15, <1>16 DEF least

\* A value that was dealt has an operand.
LEMMA OperandIsThere ==
  ASSUME NEW n \in Nat, NEW counts \in [1 .. n -> Nat], NEW total \in Nat,
         SumsTo(counts, n, total), NEW k \in 1 .. total
  PROVE  OperandOf(counts, k) \in 1 .. n
  <1>1. PICK g : IsSum(g, counts, n) /\ g[n] = total
    BY DEF SumsTo
  <1>2. k \in 1 .. g[n]
    BY <1>1
  <1> QED
    BY <1>1, <1>2, OperandIsAt

\* The values, at the places P, are numbered off in order.
Number(P, k) == Cardinality({j \in P : j <= k})

LEMMA NumbersAscend ==
  ASSUME NEW P, P \subseteq Nat, IsFiniteSet(P), NEW k \in P
  PROVE  /\ Number(P, k) \in 1 .. Cardinality(P)
         /\ \A j \in P : j < k => Number(P, j) < Number(P, k)
  <1> DEFINE Up(i) == {j \in P : j <= i}
  <1>1. \A i : IsFiniteSet(Up(i)) /\ Cardinality(Up(i)) <= Cardinality(P)
               /\ Cardinality(Up(i)) \in Nat
    <2> TAKE i
    <2>1. Up(i) \in SUBSET P
      OBVIOUS
    <2> HIDE DEF Up
    <2> QED
      BY <2>1, FS_Subset, FS_CardinalityType
  <1>2. k \in Up(k) /\ k \in Nat
    OBVIOUS
  <1>3. Cardinality(P) \in Nat
    BY FS_CardinalityType
  <1>4. ASSUME NEW j \in P, j < k
        PROVE  Cardinality(Up(j)) < Cardinality(Up(k))
    <2>1. \A i \in P : i <= j => i <= k
      <3> TAKE i \in P
      <3>1. i \in Nat /\ j \in Nat
        OBVIOUS
      <3> QED
        BY <1>2, <1>4, <3>1
    <2>2. Up(j) \in SUBSET Up(k)
      BY <2>1
    <2>3. k \notin Up(j)
      <3>1. j \in Nat
        OBVIOUS
      <3> QED
        BY <1>2, <1>4, <3>1
    <2> HIDE DEF Up
    <2>4. Cardinality(Up(j)) <= Cardinality(Up(k)) /\ Cardinality(Up(j)) # Cardinality(Up(k))
      BY <1>1, <1>2, <2>2, <2>3, FS_Subset
    <2> QED
      BY <1>1, <2>4
  <1> HIDE DEF Up
  <1>5. Cardinality(Up(k)) # 0
    BY <1>1, <1>2, FS_EmptySet
  <1>6. Cardinality(Up(k)) \in 1 .. Cardinality(P)
    BY <1>1, <1>3, <1>5
  <1> QED
    BY <1>4, <1>6 DEF Up, Number

\* The places whose values go to operand i.
PlacesOf(P, counts, i) == {k \in P : OperandOf(counts, Number(P, k)) = i}

\* Each operand gets as many values as were counted for it.
LEMMA EachGetsItsCount ==
  ASSUME NEW n \in Nat, NEW counts \in [1 .. n -> Nat],
         NEW P, P \subseteq Nat, IsFiniteSet(P), SumsTo(counts, n, Cardinality(P)),
         NEW i \in 1 .. n
  PROVE  Cardinality(PlacesOf(P, counts, i)) = counts[i]
  <1> DEFINE all == Cardinality(P)
             F == [k \in P |-> Number(P, k)]
             Q == PlacesOf(P, counts, i)
             h == [k \in Q |-> Number(P, k)]
  <1>1. all \in Nat /\ IsFiniteSet(1 .. all) /\ Cardinality(1 .. all) = all
    BY FS_CardinalityType, FS_Interval
  <1>2. PICK g : IsSum(g, counts, n) /\ g[n] = all
    BY DEF SumsTo
  <1>3. \A k \in P : Number(P, k) \in 1 .. all
    BY NumbersAscend
  <1>4. \A j, k \in P : Number(P, j) = Number(P, k) => j = k
    <2> SUFFICES ASSUME NEW j \in P, NEW k \in P, Number(P, j) = Number(P, k)
                 PROVE  j = k
      OBVIOUS
    <2>1. j \in Nat /\ k \in Nat
      OBVIOUS
    <2>2. j < k => Number(P, j) < Number(P, k)
      BY NumbersAscend
    <2>3. k < j => Number(P, k) < Number(P, j)
      BY NumbersAscend
    <2>4. Number(P, j) \in Nat /\ Number(P, k) \in Nat
      BY <1>3
    <2> QED
      BY <2>1, <2>2, <2>3, <2>4
  <1> HIDE DEF all
  <1>5. F \in Surjection(P, 1 .. all)
    <2>1. F \in Injection(P, 1 .. all)
      BY <1>3, <1>4 DEF Injection, IsInjective
    <2> HIDE DEF F
    <2>2. Cardinality(P) = Cardinality(1 .. all)
      BY <1>1 DEF all
    <2> QED
      BY <1>1, <2>1, <2>2, FS_Injection
  <1>6. \A m \in 1 .. all : \E k \in P : Number(P, k) = m
    BY <1>5 DEF Surjection
  <1> DEFINE B == g[i - 1] + 1 .. g[i]
  <1>7. /\ g[i] \in Nat /\ g[i - 1] \in Nat /\ counts[i] \in Nat
        /\ g[i] = g[i - 1] + counts[i] /\ g[i] <= all
    <2>1. i \in 0 .. n /\ i - 1 \in 0 .. n /\ n \in 0 .. n /\ n >= i
      OBVIOUS
    <2>2. g[n] >= g[i]
      BY <1>2, <2>1, SumsAscend
    <2>3. g[i] \in Nat /\ g[i - 1] \in Nat /\ counts[i] \in Nat /\ g[i] = g[i - 1] + counts[i]
      BY <1>2, <2>1 DEF IsSum
    <2> QED
      BY <1>1, <1>2, <2>2, <2>3
  <1>8. IsFiniteSet(B) /\ Cardinality(B) = counts[i]
    <2>1. g[i - 1] + 1 \in Int /\ g[i] \in Int
      BY <1>7
    <2>2. IsFiniteSet(B) /\ Cardinality(B) = IF g[i - 1] + 1 > g[i] THEN 0 ELSE g[i] - (g[i - 1] + 1) + 1
      BY <2>1, FS_Interval
    <2> HIDE DEF B
    <2> QED
      BY <1>7, <2>2
  <1>9. \A m \in 1 .. all : OperandOf(counts, m) = i <=> m \in B
    <2> TAKE m \in 1 .. all
    <2>1. m \in 1 .. g[n]
      BY <1>2
    <2>2. OperandOf(counts, m) = i => g[i - 1] < m /\ m <= g[i]
      BY <1>2, <2>1, OperandIsAt
    <2>3. g[i - 1] < m /\ m <= g[i] => OperandOf(counts, m) = i
      BY <1>2, <2>1, OperandIsAt
    <2>4. m \in B <=> g[i - 1] < m /\ m <= g[i]
      BY <1>1, <1>7
    <2> QED
      BY <2>2, <2>3, <2>4
  <1>10. \A m \in B : m \in 1 .. all
    BY <1>1, <1>7
  <1> HIDE DEF B
  <1>11. Q \subseteq P /\ \A k \in P : k \in Q <=> Number(P, k) \in B
    BY <1>3, <1>9 DEF PlacesOf
  <1> HIDE DEF Q
  <1>12. h \in Bijection(Q, B)
    <2>1. h \in [Q -> B] /\ \A j, k \in Q : h[j] = h[k] => j = k
      BY <1>4, <1>11
    <2>2. \A m \in B : \E k \in Q : h[k] = m
      BY <1>6, <1>10, <1>11
    <2> HIDE DEF h
    <2> QED
      BY <2>1, <2>2 DEF Bijection, Injection, Surjection, IsInjective
  <1>13. IsFiniteSet(Q)
    BY <1>11, FS_Subset
  <1>14. ExistsBijection(Q, B)
    BY <1>12 DEF ExistsBijection
  <1>15. Cardinality(B) = Cardinality(Q)
    BY <1>13, <1>14, FS_Bijection
  <1> QED
    BY <1>8, <1>15 DEF Q
-----------------------------------------------------------------------------
\* The operands are of different options, in their order, all up to option i.
DifferTo(x, i) ==
  /\ \A a, b \in DOMAIN x.operands : a < b => x.operands[a].opt < x.operands[b].opt
  /\ \A a \in DOMAIN x.operands : x.operands[a].opt <= i

\* One is of option i only if one of the first k names of it is that of an operand.
NamedBy(x, o, i, k) ==
  \A a \in DOMAIN x.operands : x.operands[a].opt = i => \E j \in 1 .. k : o.names[j].form # ""

LEMMA NameKeepsDiffer ==
  ASSUME NEW os, OptsOK(os), NEW x \in Indexes(os),
         NEW i \in DOMAIN os, NEW k \in DOMAIN os[i].names,
         DifferTo(x, i), NamedBy(x, os[i], i, k - 1)
  PROVE  /\ DifferTo(IndexName(x, i, os[i], k), i)
         /\ NamedBy(IndexName(x, i, os[i], k), os[i], i, k)
  <1> DEFINE o == os[i]
             name == o.names[k]
             n == OptName(i, name, 2 * (k - 1))
             y == IndexName(x, i, o, k)
  <1>1. k \in Nat /\ i \in Nat /\ DOMAIN o.names = 1 .. Len(o.names) /\ OneOperand(o)
    BY DEF OptsOK, IsSequence
  <1>2. \A j \in 1 .. k - 1 : j \in 1 .. k /\ j \in DOMAIN o.names /\ j # k
    BY <1>1
  <1>3. k \in 1 .. k
    BY <1>1
  <1>4. CASE y.operands = x.operands
    BY <1>2, <1>4 DEF DifferTo, NamedBy
  <1>5. CASE name.form # "" /\ o.max # 0
    <2>1. y = IndexOperand(x, o, n)
      BY <1>5 DEF IndexName
    <2>2. x.operands \in Seq(OperandNames(os))
      BY DEF Indexes
    <2>3. y.operands = Append(x.operands, n)
      BY <2>1 DEF IndexOperand, Indexes
    <2>4. n.opt = i
      BY DEF OptName
    <2> HIDE DEF n, y
    <2>5. \A a \in DOMAIN x.operands : x.operands[a].opt < i
      <3> TAKE a \in DOMAIN x.operands
      <3>1. x.operands[a].opt # i
        BY <1>1, <1>2, <1>5 DEF NamedBy, OneOperand
      <3>2. x.operands[a] \in OperandNames(os)
        BY <2>2
      <3>3. x.operands[a].opt \in DOMAIN os /\ DOMAIN os \subseteq Nat
        BY <3>2 DEF OperandNames, Names, OptsOK, IsSequence
      <3> QED
        BY <1>1, <3>1, <3>3 DEF DifferTo
    <2>6. \A j \in DOMAIN y.operands :
            \/ j = Len(x.operands) + 1 /\ y.operands[j] = n
            \/ j \in DOMAIN x.operands /\ y.operands[j] = x.operands[j]
      BY <2>2, <2>3
    <2>7. \A a, b \in DOMAIN y.operands : a < b => y.operands[a].opt < y.operands[b].opt
      <3>1. \A a \in DOMAIN x.operands : a \in 1 .. Len(x.operands) /\ Len(x.operands) \in Nat
        BY <2>2
      <3>2. \A a \in DOMAIN x.operands : ~(Len(x.operands) + 1 < a) /\ ~(Len(x.operands) + 1 < Len(x.operands) + 1)
        BY <3>1
      <3>3. Len(x.operands) \in Nat
        BY <2>2
      <3>4. ~(Len(x.operands) + 1 < Len(x.operands) + 1)
        BY <3>3
      <3> QED
        BY <2>4, <2>5, <2>6, <3>2, <3>4 DEF DifferTo
    <2>8. \A a \in DOMAIN y.operands : y.operands[a].opt <= i
      BY <1>1, <2>4, <2>6 DEF DifferTo
    <2>9. NamedBy(y, o, i, k)
      BY <1>3, <1>5 DEF NamedBy
    <2> QED
      BY <2>7, <2>8, <2>9 DEF DifferTo, y
  <1>6. CASE name.form # "" /\ o.max = 0
    <2>1. y = x
      BY <1>6 DEF IndexName
    <2> QED
      BY <1>4, <2>1
  <1>7. CASE name.form = ""
    <2>1. \/ y = [x EXCEPT !.broken = TRUE]
          \/ y = IndexShortName(x, Head(name.key), n)
          \/ y = IndexLongName(x, name.key, o, n, ~name.dot)
      BY <1>7 DEF IndexName
    <2> HIDE DEF n
    <2>2. y.operands = x.operands
      BY <2>1 DEF IndexShortName, IndexLongName, Indexes
    <2> QED
      BY <1>4, <2>2
  <1> QED
    BY <1>5, <1>6, <1>7

LEMMA OptKeepsDiffer ==
  ASSUME NEW os, OptsOK(os), NEW x \in Indexes(os), NEW i \in DOMAIN os, DifferTo(x, i - 1)
  PROVE  DifferTo(IndexOpt(x, i, os[i]), i)
  <1> DEFINE o == os[i]
             N == Len(o.names)
             U == Indexes(os)
  <1>1. N \in Nat /\ DOMAIN o.names = 1 .. N /\ i \in Nat
    BY DEF OptsOK, IsSequence
  <1>2. PICK y : IsNaming(y, U, x, os, i)
    BY NameKeepsIndex, NamingExists
  <1>3. /\ y \in [0 .. N -> U] /\ y[0] = x
        /\ \A k \in 1 .. N : y[k] = IndexName(y[k - 1], i, o, k)
        /\ IndexOpt(x, i, o) = y[N]
    BY <1>2 DEF IsNaming
  <1>4. \A z \in U : \A a \in DOMAIN z.operands : z.operands[a].opt \in Nat
    <2> SUFFICES ASSUME NEW z \in U, NEW a \in DOMAIN z.operands
                 PROVE  z.operands[a].opt \in Nat
      OBVIOUS
    <2>1. z.operands[a] \in OperandNames(os)
      BY DEF Indexes
    <2>2. z.operands[a].opt \in DOMAIN os /\ DOMAIN os \subseteq Nat
      BY <2>1 DEF OperandNames, Names, OptsOK, IsSequence
    <2> QED
      BY <2>2
  <1>5. \A k \in 1 .. N : \A z \in U :
          DifferTo(z, i) /\ NamedBy(z, o, i, k - 1) =>
            DifferTo(IndexName(z, i, o, k), i) /\ NamedBy(IndexName(z, i, o, k), o, i, k)
    BY <1>1, NameKeepsDiffer
  <1>6. DifferTo(x, i) /\ NamedBy(x, o, i, 0)
    <2>1. \A a \in DOMAIN x.operands : x.operands[a].opt \in Nat /\ x.operands[a].opt <= i - 1
      BY <1>4 DEF DifferTo
    <2>2. \A a \in DOMAIN x.operands : x.operands[a].opt <= i /\ x.operands[a].opt # i
      BY <1>1, <2>1
    <2> QED
      BY <2>2 DEF DifferTo, NamedBy
  <1> HIDE DEF N, U, o
  <1> DEFINE G == {k \in 0 .. N : DifferTo(y[k], i) /\ NamedBy(y[k], o, i, k)}
  <1>7. 0 \in G
    BY <1>1, <1>3, <1>6
  <1>8. ASSUME NEW k \in 1 .. N, k - 1 \in G
        PROVE  k \in G
    <2>1. k \in 0 .. N /\ k - 1 \in 0 .. N
      BY <1>1
    <2>2. y[k - 1] \in U
      BY <1>3, <2>1
    <2>3. DifferTo(y[k - 1], i) /\ NamedBy(y[k - 1], o, i, k - 1)
      BY <1>8
    <2> QED
      BY <1>3, <1>5, <2>1, <2>2, <2>3
  <1> HIDE DEF G
  <1>9. \A k \in 0 .. N : k \in G
    BY <1>1, <1>7, <1>8, Upward
  <1>10. N \in 0 .. N
    BY <1>1
  <1> QED
    BY <1>3, <1>9, <1>10 DEF G, o

\* The operands of a command are in the order of their options.
LEMMA OperandsFollowOptions ==
  ASSUME NEW os, OptsOK(os), NEW cmd
  PROVE  \A a, b \in DOMAIN Index(os, cmd).operands :
           a < b => Index(os, cmd).operands[a].opt < Index(os, cmd).operands[b].opt
  <1> DEFINE N == Len(os)
             U == Indexes(os)
             x == IndexAll(os, cmd)
  <1>1. N \in Nat /\ DOMAIN os = 1 .. N
    BY DEF OptsOK, IsSequence
  <1>2. \A i \in DOMAIN os : \A z \in U : os[i].command = cmd => IndexOpt(z, i, os[i]) \in U
    <2>1. \A i \in DOMAIN os : \A k \in DOMAIN os[i].names : \A z \in U : IndexName(z, i, os[i], k) \in U
      BY NameKeepsIndex
    <2> HIDE DEF U
    <2> QED
      BY <2>1, OptKeeps
  <1>3. EmptyIndex(cmd) \in U
    BY EmptyIsIndex
  <1> HIDE DEF U
  <1>4. PICK y : IsIndexing(y, U, os, cmd)
    BY <1>2, <1>3, IndexingExists
  <1>5. /\ y \in [0 .. N -> U] /\ y[0] = EmptyIndex(cmd)
        /\ \A i \in 1 .. N : y[i] = IndexStep(y[i - 1], i, os[i], cmd)
        /\ x = y[N]
    BY <1>4 DEF IsIndexing
  <1>6. DifferTo(EmptyIndex(cmd), 0)
    <2>1. EmptyIndex(cmd).operands = <<>>
      BY DEF EmptyIndex
    <2> QED
      BY <2>1, SequenceEmpty DEF DifferTo
  <1>7. ASSUME NEW i \in 1 .. N, NEW z \in U, DifferTo(z, i - 1)
        PROVE  DifferTo(IndexStep(z, i, os[i], cmd), i)
    <2>1. CASE os[i].command = cmd
      <3>1. z \in Indexes(os) /\ i \in DOMAIN os
        BY <1>1 DEF U
      <3>2. IndexStep(z, i, os[i], cmd) = IndexOpt(z, i, os[i])
        BY <2>1 DEF IndexStep
      <3> QED
        BY <1>7, <3>1, <3>2, OptKeepsDiffer
    <2>2. CASE os[i].command # cmd
      <3>1. \A a \in DOMAIN z.operands : z.operands[a].opt \in Nat
        <4> TAKE a \in DOMAIN z.operands
        <4>1. z.operands[a] \in OperandNames(os)
          BY DEF Indexes, U
        <4>2. z.operands[a].opt \in DOMAIN os
          BY <4>1 DEF OperandNames, Names
        <4> QED
          BY <1>1, <4>2
      <3>2. \A a \in DOMAIN z.operands : z.operands[a].opt <= i
        BY <1>1, <1>7, <3>1 DEF DifferTo
      <3>3. IndexStep(z, i, os[i], cmd) = z
        BY <2>2 DEF IndexStep
      <3> QED
        BY <1>7, <3>2, <3>3 DEF DifferTo
    <2> QED
      BY <2>1, <2>2
  <1> DEFINE G == {i \in 0 .. N : DifferTo(y[i], i)}
  <1> HIDE DEF N
  <1>8. 0 \in G
    BY <1>1, <1>5, <1>6
  <1>9. ASSUME NEW i \in 1 .. N, i - 1 \in G
        PROVE  i \in G
    <2>1. i \in 0 .. N /\ i - 1 \in 0 .. N
      BY <1>1
    <2>2. y[i - 1] \in U /\ DifferTo(y[i - 1], i - 1)
      BY <1>5, <1>9, <2>1
    <2> QED
      BY <1>5, <1>7, <2>1, <2>2
  <1> HIDE DEF G
  <1>10. \A i \in 0 .. N : i \in G
    BY <1>1, <1>8, <1>9, Upward
  <1>11. N \in 0 .. N
    BY <1>1
  <1>12. x \in U /\ DifferTo(x, N)
    BY <1>5, <1>10, <1>11 DEF G
  <1>13. Index(os, cmd) = Finished(x)
    <2>1. {Finished(z) : z \in {x}} = {Finished(x)}
      OBVIOUS
    <2> QED
      BY <2>1, TheOne DEF Index
  <1> HIDE DEF x
  <1>14. Finished(x).operands = x.operands
    BY <1>12 DEF Finished, Indexes, U
  <1> QED
    BY <1>12, <1>13, <1>14 DEF DifferTo

\* No two operands of a command are of the same option.
LEMMA OperandsDiffer ==
  ASSUME NEW os, OptsOK(os), NEW cmd
  PROVE  \A a, b \in DOMAIN Index(os, cmd).operands :
           Index(os, cmd).operands[a].opt = Index(os, cmd).operands[b].opt => a = b
  <1> DEFINE x == Index(os, cmd)
             Of(a) == x.operands[a].opt
  <1>1. x \in Indexes(os) /\ DOMAIN os \subseteq Nat
    BY IndexIsTyped DEF OptsOK, IsSequence
  <1>2. \A a, b \in DOMAIN x.operands : a < b => Of(a) < Of(b)
    BY OperandsFollowOptions
  <1> HIDE DEF x
  <1>3. \A a \in DOMAIN x.operands : a \in Nat /\ Of(a) \in Nat
    <2> TAKE a \in DOMAIN x.operands
    <2>1. x.operands[a] \in OperandNames(os) /\ a \in Nat
      BY <1>1 DEF Indexes
    <2>2. Of(a) \in DOMAIN os
      BY <2>1 DEF OperandNames, Names
    <2> QED
      BY <1>1, <2>1, <2>2
  <1> HIDE DEF Of
  <1>4. \A a, b \in DOMAIN x.operands : Of(a) = Of(b) => ~(a < b) /\ ~(b < a)
    BY <1>2, <1>3
  <1>5. \A a, b \in DOMAIN x.operands : Of(a) = Of(b) => a = b
    BY <1>3, <1>4
  <1> QED
    BY <1>5 DEF Of, x

-----------------------------------------------------------------------------
\* How many values an operand takes by category.
LEMMA OptionalTakesLast ==
  ASSUME NEW os, OptsOK(os), NEW n \in OperandNames(os), n.optional, NEW avail \in Nat
  PROVE  /\ numMatches("kMinReq", avail, n, os[n.opt]) = 0
         /\ numMatches("kReq", avail, n, os[n.opt]) = 0
         /\ os[n.opt].max # -1 => numMatches("kOpt", avail, n, os[n.opt]) <= os[n.opt].max
  <1> DEFINE o == os[n.opt]
  <1>1. o.min \in Nat /\ o.max \in Int /\ (o.max # -1 => o.max \in Nat /\ o.max # 0)
    BY DEF OperandNames, Names, OptsOK
  <1> HIDE DEF o
  <1>2. numMatches("kMinReq", avail, n, o) = 0 /\ numMatches("kReq", avail, n, o) = 0
    BY DEF numMatches
  <1>3. o.max # -1 => AtMost(avail, o.max) <= o.max /\ AtMost(avail, 1) <= o.max /\ 0 <= o.max
    BY <1>1 DEF AtMost
  <1>4. \/ numMatches("kOpt", avail, n, o) = AtMost(avail, o.max)
        \/ numMatches("kOpt", avail, n, o) = AtMost(avail, 1)
        \/ numMatches("kOpt", avail, n, o) = 0
    BY DEF numMatches
  <1> QED
    BY <1>2, <1>3, <1>4 DEF o

TakesUpTo(o, later, t1, t2) ==
  /\ t1 \in Nat /\ t2 \in Nat
  /\ o.max # -1 => t1 + t2 <= o.max
  /\ t2 = later \/ t1 + t2 = o.max \/ t1 + t2 < o.min

\* A required operand takes up to its maximum in the first two rounds: it has that or takes
\* all there is, unless too few values came even for its minimum.
LEMMA RequiredTakesFirst ==
  ASSUME NEW os, OptsOK(os), NEW n \in OperandNames(os), ~n.optional,
         NEW avail \in Nat, NEW later \in Nat, later <= avail
  PROVE  /\ \A last : numMatches("kOpt", last, n, os[n.opt]) = 0
         /\ TakesUpTo(os[n.opt], later, numMatches("kMinReq", avail, n, os[n.opt]),
                      numMatches("kReq", later, n, os[n.opt]))
  <1> DEFINE o == os[n.opt]
             t1 == numMatches("kMinReq", avail, n, o)
             t2 == numMatches("kReq", later, n, o)
             vec == o.min # 1 \/ o.max # 1
  <1>1. /\ o.min \in Nat /\ o.max \in Int
        /\ o.max # -1 => o.max \in Nat /\ o.min <= o.max
    BY DEF OperandNames, Names, OptsOK
  <1> HIDE DEF o
  <1>2. CASE vec
    <2>1. t1 = IF avail >= o.min THEN o.min ELSE 0
      BY <1>2 DEF numMatches, o
    <2>2. t2 = IF o.max = -1 THEN later ELSE AtMost(later, o.max - o.min)
      BY <1>2 DEF numMatches, o
    <2>3. \A last : numMatches("kOpt", last, n, o) = 0
      BY <1>2 DEF numMatches
    <2> HIDE DEF t1, t2
    <2>4. ASSUME o.max = -1
          PROVE  TakesUpTo(o, later, t1, t2)
      BY <1>1, <2>1, <2>2, <2>4 DEF TakesUpTo
    <2>5. ASSUME o.max # -1
          PROVE  TakesUpTo(o, later, t1, t2)
      <3>1. o.max - o.min \in Nat
        BY <1>1, <2>5
      <3>2. t2 = IF later < o.max - o.min THEN later ELSE o.max - o.min
        BY <2>2, <2>5, <3>1 DEF AtMost
      <3>3. t1 \in Nat /\ t2 \in Nat /\ t1 + t2 <= o.max
        BY <1>1, <2>1, <2>5, <3>1, <3>2
      <3>4. t2 = later \/ t1 + t2 = o.max \/ t1 + t2 < o.min
        BY <1>1, <2>1, <2>5, <3>1, <3>2
      <3> QED
        BY <3>3, <3>4 DEF TakesUpTo
    <2> QED
      BY <2>3, <2>4, <2>5 DEF t1, t2, o
  <1>3. CASE ~vec
    <2>1. o.min = 1 /\ o.max = 1
      BY <1>3
    <2>2. t1 = AtMost(avail, 1) /\ t2 = 0
      BY <1>3 DEF numMatches, o
    <2>3. \A last : numMatches("kOpt", last, n, o) = 0
      BY <1>3 DEF numMatches
    <2>4. AtMost(avail, 1) = IF avail = 0 THEN 0 ELSE 1
      BY DEF AtMost
    <2> HIDE DEF t1, t2
    <2>5. TakesUpTo(o, later, t1, t2)
      BY <2>1, <2>2, <2>4 DEF TakesUpTo
    <2> QED
      BY <2>3, <2>5 DEF t1, t2, o
  <1> QED
    BY <1>2, <1>3

\* What is left when it is the turn of operand k in the round g.
Left(g, numPos, k) == numPos - g[k - 1].used

LEMMA RoundLeaves ==
  ASSUME NEW os, OptsOK(os), NEW x \in Indexes(os), NEW numPos \in Nat, NEW cat,
         NEW start \in Deals(Len(x.operands), numPos), NEW g, IsRound(g, os, x, numPos, cat, start)
  PROVE  \A k \in 1 .. Len(x.operands) :
           /\ Left(g, numPos, k) \in Nat /\ Left(g, numPos, k) <= numPos - start.used
           /\ Taken(g, os, x, numPos, cat, k) \in 0 .. Left(g, numPos, k)
           /\ numPos - g[Len(x.operands)].used <= Left(g, numPos, k) - Taken(g, os, x, numPos, cat, k)
           /\ \A j \in 1 .. Len(x.operands) : j < k => Left(g, numPos, k) <= Left(g, numPos, j)
  <1> DEFINE N == Len(x.operands)
             U == Deals(N, numPos)
             Used(i) == g[i].used
  <1>1. /\ N \in Nat /\ g \in [0 .. N -> U]
        /\ \A i \in 1 .. N : g[i] = Take(os, x, numPos, cat, g[i - 1], i)
    BY DEF IsRound, Indexes
  <1>2. \A m \in U : m.used \in 0 .. numPos
    BY DEF Deals
  <1>3. \A i \in 1 .. N : \A m \in U : Take(os, x, numPos, cat, m, i).used >= m.used
    BY TakeKeepsDeal
  <1>4. \A k \in 1 .. N : /\ Taken(g, os, x, numPos, cat, k) \in 0 .. Left(g, numPos, k)
                         /\ start.used \in 0 .. numPos /\ Used(k - 1) >= start.used
                         /\ Used(N) >= Used(k - 1) + Taken(g, os, x, numPos, cat, k)
    BY <1>2, RoundGives DEF Left
  <1> HIDE DEF N, U
  <1>5. \A i \in 0 .. N : g[i] \in U /\ Used(i) \in 0 .. numPos
    BY <1>1, <1>2
  <1>6. \A i \in 1 .. N : Used(i) >= Used(i - 1)
    <2> TAKE i \in 1 .. N
    <2>1. i - 1 \in 0 .. N
      BY <1>1
    <2> QED
      BY <1>1, <1>3, <1>5, <2>1
  <1>7. \A k \in 1 .. N : Left(g, numPos, k) = numPos - Used(k - 1)
    BY DEF Left
  <1> HIDE DEF Used
  <1>8. ASSUME NEW i \in 0 .. N
        PROVE  \A j \in 0 .. N : j >= i => Used(j) >= Used(i)
    <2> DEFINE G == {j \in 0 .. N : j >= i => Used(j) >= Used(i)}
    <2>1. 0 \in G
      <3>1. 0 >= i => i = 0
        OBVIOUS
      <3>2. 0 \in 0 .. N /\ Used(0) \in Int
        BY <1>1, <1>5
      <3> QED
        BY <3>1, <3>2
    <2>2. ASSUME NEW j \in 1 .. N, j - 1 \in G
          PROVE  j \in G
      <3>1. j \in 0 .. N /\ j - 1 \in 0 .. N /\ j \in Nat /\ i \in Nat
        BY <1>1
      <3>2. Used(j) \in Int /\ Used(j - 1) \in Int /\ Used(i) \in Int /\ Used(j) >= Used(j - 1)
        BY <1>5, <1>6, <3>1
      <3>3. j >= i => j - 1 >= i \/ j = i
        BY <3>1
      <3> QED
        BY <2>2, <3>1, <3>2, <3>3
    <2> HIDE DEF G
    <2>3. \A j \in 0 .. N : j \in G
      BY <1>1, <2>1, <2>2, Upward
    <2> QED
      BY <2>3 DEF G
  <1>9. ASSUME NEW k \in 1 .. N
        PROVE  /\ Left(g, numPos, k) \in Nat /\ Left(g, numPos, k) <= numPos - start.used
               /\ Taken(g, os, x, numPos, cat, k) \in 0 .. Left(g, numPos, k)
               /\ numPos - Used(N) <= Left(g, numPos, k) - Taken(g, os, x, numPos, cat, k)
               /\ \A j \in 1 .. N : j < k => Left(g, numPos, k) <= Left(g, numPos, j)
    <2> DEFINE t == Taken(g, os, x, numPos, cat, k)
               s == start.used
    <2>1. k - 1 \in 0 .. N /\ N \in 0 .. N /\ Used(k - 1) \in 0 .. numPos /\ Used(N) \in 0 .. numPos
      BY <1>1, <1>5
    <2>2. /\ Left(g, numPos, k) = numPos - Used(k - 1) /\ t \in 0 .. Left(g, numPos, k)
          /\ s \in 0 .. numPos /\ Used(k - 1) >= s /\ Used(N) >= Used(k - 1) + t
      BY <1>4, <1>7
    <2>3. ASSUME NEW j \in 1 .. N, j < k
          PROVE  Left(g, numPos, k) <= Left(g, numPos, j)
      <3>1. j - 1 \in 0 .. N /\ k - 1 >= j - 1
        BY <1>1, <2>3
      <3>2. Used(k - 1) >= Used(j - 1) /\ Used(j - 1) \in 0 .. numPos
        BY <1>5, <1>8, <2>1, <3>1
      <3>3. Left(g, numPos, j) = numPos - Used(j - 1)
        BY <1>7
      <3> QED
        BY <2>1, <2>2, <3>2, <3>3
    <2> HIDE DEF t, s
    <2>4. /\ Left(g, numPos, k) \in Nat /\ Left(g, numPos, k) <= numPos - s
          /\ t \in 0 .. Left(g, numPos, k) /\ numPos - Used(N) <= Left(g, numPos, k) - t
      BY <2>1, <2>2
    <2> QED
      BY <2>3, <2>4 DEF t, s
  <1> QED
    BY <1>9 DEF N, Used

\* The rounds of assignOperands: each goes on where the one before has stopped.
AreRounds(g1, g2, g3, os, x, numPos) ==
  LET N == Len(x.operands) IN
  /\ \E start \in Deals(N, numPos) : IsRound(g1, os, x, numPos, "kMinReq", start)
  /\ g1[N] \in Deals(N, numPos) /\ IsRound(g2, os, x, numPos, "kReq", g1[N])
  /\ g2[N] \in Deals(N, numPos) /\ IsRound(g3, os, x, numPos, "kOpt", g2[N])
  /\ \A k \in 1 .. N : Matched(os, x, numPos).counts[k] =
                         Taken(g1, os, x, numPos, "kMinReq", k) + Taken(g2, os, x, numPos, "kReq", k)
                           + Taken(g3, os, x, numPos, "kOpt", k)

LEMMA RoundsExist ==
  ASSUME NEW os, OptsOK(os), NEW x \in Indexes(os), NEW numPos \in Nat
  PROVE  \E g1, g2, g3 : AreRounds(g1, g2, g3, os, x, numPos)
  <1> DEFINE N == Len(x.operands)
             U == Deals(N, numPos)
             none == [used |-> 0, counts |-> [i \in DOMAIN x.operands |-> 0]]
             m1 == TakeAll(os, x, numPos, "kMinReq", none)
             m2 == TakeAll(os, x, numPos, "kReq", m1)
             m3 == TakeAll(os, x, numPos, "kOpt", m2)
  <1>1. N \in Nat /\ DOMAIN x.operands = 1 .. N
    BY DEF Indexes
  <1>2. none \in U
    BY <1>1, NoneIsDeal
  <1>3. Matched(os, x, numPos) = m3
    BY DEF Matched, OprCat
  <1>4. \A k \in 1 .. N : none.counts[k] = 0
    BY <1>1
  <1> HIDE DEF none
  <1>5. PICK g1 : IsRound(g1, os, x, numPos, "kMinReq", none)
    BY <1>2, RoundExists
  <1>6. m1 \in U
    BY <1>2, RoundUses
  <1> HIDE DEF m1
  <1>7. PICK g2 : IsRound(g2, os, x, numPos, "kReq", m1)
    BY <1>6, RoundExists
  <1>8. m2 \in U
    BY <1>6, RoundUses
  <1> HIDE DEF m2
  <1>9. PICK g3 : IsRound(g3, os, x, numPos, "kOpt", m2)
    BY <1>8, RoundExists
  <1>10. g1[N] = m1 /\ g2[N] = m2 /\ g3[N] = m3
    BY <1>5, <1>7, <1>9 DEF IsRound, m1, m2
  <1> DEFINE t1(k) == Taken(g1, os, x, numPos, "kMinReq", k)
             t2(k) == Taken(g2, os, x, numPos, "kReq", k)
             t3(k) == Taken(g3, os, x, numPos, "kOpt", k)
  <1>11. \A k \in 1 .. N : /\ g1[N].counts[k] = none.counts[k] + t1(k)
                          /\ g2[N].counts[k] = m1.counts[k] + t2(k)
                          /\ g3[N].counts[k] = m2.counts[k] + t3(k)
    BY <1>2, <1>5, <1>6, <1>7, <1>8, <1>9, RoundGives
  <1>12. \A k \in 1 .. N : t1(k) \in Int
    <2> TAKE k \in 1 .. N
    <2> DEFINE l == Left(g1, numPos, k)
    <2>1. l \in Nat /\ t1(k) \in 0 .. l
      BY <1>2, <1>5, RoundLeaves
    <2> HIDE DEF l, t1
    <2> QED
      BY <2>1
  <1> HIDE DEF t1, t2, t3
  <1>13. \A k \in 1 .. N : m3.counts[k] = t1(k) + t2(k) + t3(k)
    <2> TAKE k \in 1 .. N
    <2>1. none.counts[k] + t1(k) = t1(k)
      BY <1>4, <1>12
    <2> QED
      BY <1>10, <1>11, <2>1
  <1>14. AreRounds(g1, g2, g3, os, x, numPos)
    BY <1>2, <1>3, <1>5, <1>6, <1>7, <1>8, <1>9, <1>10, <1>13 DEF AreRounds, t1, t2, t3
  <1> QED
    BY <1>14

\* Operand k takes of avail values in the first round, of later ones in the second and of last
\* ones in the third; spare are left after the second.
DealtInRounds(os, x, numPos, spare, k) ==
  LET n == x.operands[k]
      Takes(cat, avail) == numMatches(cat, avail, n, os[n.opt])
  IN \E avail \in Nat : \E later \in 0 .. avail : \E last \in 0 .. spare :
       /\ Matched(os, x, numPos).counts[k] =
            Takes("kMinReq", avail) + Takes("kReq", later) + Takes("kOpt", last)
       /\ spare <= later - Takes("kReq", later)
       /\ Takes("kOpt", last) \in 0 .. last

LEMMA EachIsDealtInRounds ==
  ASSUME NEW os, OptsOK(os), NEW x \in Indexes(os), NEW numPos \in Nat
  PROVE  \E spare \in Nat : \A k \in 1 .. Len(x.operands) : DealtInRounds(os, x, numPos, spare, k)
  <1>1. PICK g1, g2, g3 : AreRounds(g1, g2, g3, os, x, numPos)
    BY RoundsExist
  <1> DEFINE N == Len(x.operands)
             after1 == numPos - g1[N].used
             spare == numPos - g2[N].used
  <1>2. /\ \E start \in Deals(N, numPos) : IsRound(g1, os, x, numPos, "kMinReq", start)
        /\ g1[N] \in Deals(N, numPos) /\ IsRound(g2, os, x, numPos, "kReq", g1[N])
        /\ g2[N] \in Deals(N, numPos) /\ IsRound(g3, os, x, numPos, "kOpt", g2[N])
    BY <1>1 DEF AreRounds
  <1>3. after1 \in Nat /\ spare \in Nat
    <2>1. g1[N].used \in 0 .. numPos /\ g2[N].used \in 0 .. numPos
      BY <1>2 DEF Deals
    <2> QED
      BY <2>1
  <1>4. ASSUME NEW k \in 1 .. N
        PROVE  DealtInRounds(os, x, numPos, spare, k)
    <2> DEFINE n == x.operands[k]
               Takes(cat, left) == numMatches(cat, left, n, os[n.opt])
               l1 == Left(g1, numPos, k)
               l2 == Left(g2, numPos, k)
               l3 == Left(g3, numPos, k)
               t1 == Taken(g1, os, x, numPos, "kMinReq", k)
               t2 == Taken(g2, os, x, numPos, "kReq", k)
               t3 == Taken(g3, os, x, numPos, "kOpt", k)
    <2>1. t1 = Takes("kMinReq", l1) /\ t2 = Takes("kReq", l2) /\ t3 = Takes("kOpt", l3)
      BY DEF Taken, Left
    <2>2. Matched(os, x, numPos).counts[k] = t1 + t2 + t3
      BY <1>1 DEF AreRounds
    <2>3. l1 \in Nat /\ t1 \in 0 .. l1 /\ after1 <= l1 - t1
      BY <1>2, RoundLeaves
    <2>4. l2 \in Nat /\ l2 <= after1 /\ t2 \in 0 .. l2 /\ spare <= l2 - t2
      BY <1>2, RoundLeaves
    <2>5. l3 \in Nat /\ l3 <= spare /\ t3 \in 0 .. l3
      BY <1>2, RoundLeaves
    <2> HIDE DEF l1, l2, l3, t1, t2, t3, after1, spare, Takes
    <2>6. l1 \in Nat /\ l2 \in 0 .. l1 /\ l3 \in 0 .. spare
      BY <1>3, <2>3, <2>4, <2>5
    <2>7. \E avail \in Nat : \E later \in 0 .. avail : \E last \in 0 .. spare :
            /\ Matched(os, x, numPos).counts[k] =
                 Takes("kMinReq", avail) + Takes("kReq", later) + Takes("kOpt", last)
            /\ spare <= later - Takes("kReq", later)
            /\ Takes("kOpt", last) \in 0 .. last
      BY <2>1, <2>2, <2>4, <2>5, <2>6
    <2> QED
      BY <2>7 DEF DealtInRounds, Takes
  <1> HIDE DEF spare
  <1> QED
    BY <1>3, <1>4

\* Values dealt in the order of the categories of assignOperands, each over all operands.
KeepsOrder(os, x, counts) ==
  /\ \A k \in 1 .. Len(x.operands) :
       os[x.operands[k].opt].max # -1 => counts[k] <= os[x.operands[k].opt].max
  /\ \A i, j \in 1 .. Len(x.operands) :
       /\ x.operands[i].optional /\ counts[i] > 0
       /\ ~x.operands[j].optional /\ counts[j] >= os[x.operands[j].opt].min
       => counts[j] = os[x.operands[j].opt].max

\* No operand is dealt more values than its maximum, and an optional one is dealt a value
\* only if each required one that has its minimum has its maximum: assignOperands deals in
\* the order of the categories, each of them over all operands.
THEOREM DealtInOrder ==
  ASSUME NEW os, OptsOK(os), NEW x \in Indexes(os), NEW numPos \in Nat
  PROVE  KeepsOrder(os, x, Matched(os, x, numPos).counts)
  <1> DEFINE counts == Matched(os, x, numPos).counts
  <1> SUFFICES /\ \A k \in 1 .. Len(x.operands) :
                    os[x.operands[k].opt].max # -1 => counts[k] <= os[x.operands[k].opt].max
               /\ \A i, j \in 1 .. Len(x.operands) :
                    /\ x.operands[i].optional /\ counts[i] > 0
                    /\ ~x.operands[j].optional /\ counts[j] >= os[x.operands[j].opt].min
                    => counts[j] = os[x.operands[j].opt].max
    BY DEF KeepsOrder
  <1> HIDE DEF counts
  <1> DEFINE N == Len(x.operands)
             Opt(k) == os[x.operands[k].opt]
             Takes(k, cat, left) == numMatches(cat, left, x.operands[k], Opt(k))
  <1>1. PICK spare \in Nat : \A k \in 1 .. N : DealtInRounds(os, x, numPos, spare, k)
    BY EachIsDealtInRounds
  <1>2. ASSUME NEW k \in 1 .. N
        PROVE  \E avail, later, last \in Nat :
                 /\ later <= avail /\ last <= spare
                 /\ counts[k] = Takes(k, "kMinReq", avail) + Takes(k, "kReq", later) + Takes(k, "kOpt", last)
                 /\ spare <= later - Takes(k, "kReq", later)
                 /\ Takes(k, "kOpt", last) \in 0 .. last
    <2> DEFINE Is(avail, later, last) ==
                 /\ counts[k] = Takes(k, "kMinReq", avail) + Takes(k, "kReq", later) + Takes(k, "kOpt", last)
                 /\ spare <= later - Takes(k, "kReq", later)
                 /\ Takes(k, "kOpt", last) \in 0 .. last
    <2>1. \E avail \in Nat : \E later \in 0 .. avail : \E last \in 0 .. spare : Is(avail, later, last)
      BY <1>1 DEF DealtInRounds, counts
    <2> HIDE DEF Is
    <2>2. \E avail, later, last \in Nat : later <= avail /\ last <= spare /\ Is(avail, later, last)
      BY <2>1
    <2> QED
      BY <2>2 DEF Is
  <1>3. \A k \in 1 .. N : x.operands[k] \in OperandNames(os)
    BY DEF Indexes
  <1>4. \A k \in 1 .. N : Opt(k).min \in Nat /\ Opt(k).max \in Int
    BY <1>3 DEF OperandNames, Names, OptsOK
  <1>5. ASSUME NEW k \in 1 .. N, x.operands[k].optional
        PROVE  /\ counts[k] \in 0 .. spare
               /\ Opt(k).max # -1 => counts[k] <= Opt(k).max
    <2>1. PICK avail \in Nat, later \in Nat, last \in Nat :
                 /\ later <= avail /\ last <= spare
                 /\ counts[k] = Takes(k, "kMinReq", avail) + Takes(k, "kReq", later) + Takes(k, "kOpt", last)
                 /\ Takes(k, "kOpt", last) \in 0 .. last
      BY <1>2
    <2>3. /\ Takes(k, "kMinReq", avail) = 0 /\ Takes(k, "kReq", later) = 0
          /\ Opt(k).max # -1 => Takes(k, "kOpt", last) <= Opt(k).max
      BY <1>3, <1>5, OptionalTakesLast
    <2> DEFINE t3 == Takes(k, "kOpt", last)
    <2>4. t3 \in 0 .. last /\ counts[k] = 0 + 0 + t3 /\ (Opt(k).max # -1 => t3 <= Opt(k).max)
      BY <2>1, <2>3
    <2> HIDE DEF t3
    <2> QED
      BY <2>1, <2>4
  <1>6. ASSUME NEW k \in 1 .. N, ~x.operands[k].optional
        PROVE  /\ Opt(k).max # -1 => counts[k] <= Opt(k).max
               /\ spare = 0 \/ counts[k] = Opt(k).max \/ counts[k] < Opt(k).min
    <2>1. PICK avail \in Nat, later \in Nat, last \in Nat :
                 /\ later <= avail /\ last <= spare
                 /\ counts[k] = Takes(k, "kMinReq", avail) + Takes(k, "kReq", later) + Takes(k, "kOpt", last)
                 /\ spare <= later - Takes(k, "kReq", later)
      BY <1>2
    <2>2. later <= avail
      BY <2>1
    <2> DEFINE t1 == Takes(k, "kMinReq", avail)
               t2 == Takes(k, "kReq", later)
    <2>3. /\ Takes(k, "kOpt", last) = 0 /\ t1 \in Nat /\ t2 \in Nat
          /\ Opt(k).max # -1 => t1 + t2 <= Opt(k).max
          /\ t2 = later \/ t1 + t2 = Opt(k).max \/ t1 + t2 < Opt(k).min
      <3>1. x.operands[k] \in OperandNames(os)
        BY <1>3
      <3>2. TakesUpTo(Opt(k), later, t1, t2) /\ Takes(k, "kOpt", last) = 0
        BY <1>6, <2>2, <3>1, RequiredTakesFirst
      <3> HIDE DEF t1, t2
      <3> QED
        BY <3>2 DEF TakesUpTo
    <2>4. counts[k] = t1 + t2 + 0 /\ spare <= later - t2
      BY <2>1, <2>3
    <2> HIDE DEF t1, t2
    <2>5. counts[k] = t1 + t2 /\ (t2 = later => spare = 0)
      BY <2>3, <2>4
    <2> QED
      BY <2>3, <2>5
  <1>7. ASSUME NEW i \in 1 .. N, NEW j \in 1 .. N,
               x.operands[i].optional, counts[i] > 0,
               ~x.operands[j].optional, counts[j] >= Opt(j).min
        PROVE  counts[j] = Opt(j).max
    <2>1. spare # 0
      BY <1>5, <1>7
    <2>2. counts[j] \in Int
      <3>1. Matched(os, x, numPos) \in Deals(N, numPos)
        BY MatchedIsDeal
      <3>2. counts \in [1 .. N -> Nat]
        BY <3>1 DEF Deals, counts
      <3> QED
        BY <3>2
    <2>3. ~(counts[j] < Opt(j).min)
      BY <1>4, <1>7, <2>2
    <2> QED
      BY <1>6, <1>7, <2>1, <2>3
  <1>8. \A k \in 1 .. N : Opt(k).max # -1 => counts[k] <= Opt(k).max
    <2>1. \A k \in 1 .. N : x.operands[k].optional \in BOOLEAN
      BY <1>3 DEF OperandNames, Names
    <2> QED
      BY <1>5, <1>6, <2>1
  <1> QED
    BY <1>7, <1>8

\* Values dealt later go to later operands.
LEMMA OperandsAscend ==
  ASSUME NEW n \in Nat, NEW counts \in [1 .. n -> Nat], NEW total \in Nat,
         SumsTo(counts, n, total), NEW j \in 1 .. total, NEW k \in 1 .. total, j < k
  PROVE  OperandOf(counts, j) <= OperandOf(counts, k)
  <1> DEFINE a == OperandOf(counts, j)
             b == OperandOf(counts, k)
  <1>1. PICK g : IsSum(g, counts, n) /\ g[n] = total
    BY DEF SumsTo
  <1>2. a \in 1 .. n /\ g[a - 1] < j /\ b \in 1 .. n /\ k <= g[b]
    BY <1>1, OperandIsAt
  <1> HIDE DEF a, b
  <1>3. CASE a > b
    <2>1. b \in 0 .. n /\ a - 1 \in 0 .. n /\ a - 1 >= b
      BY <1>2, <1>3
    <2>2. g[a - 1] >= g[b]
      BY <1>1, <2>1, SumsAscend
    <2>3. g[a - 1] \in Nat /\ g[b] \in Nat
      BY <1>1, <2>1 DEF IsSum
    <2> QED
      BY <1>2, <2>2, <2>3
  <1> QED
    BY <1>2, <1>3 DEF a, b

-----------------------------------------------------------------------------
(***************************************************************************)
(* Where the options end: finalOpr against how the values are dealt.       *)
(***************************************************************************)
\* fin and cnt are m_final and m_finalOpr after each operand.
FinalSteps(os, operands, fin, cnt) ==
  /\ fin \in [0 .. Len(operands) -> kUnset .. kReq] /\ cnt \in [0 .. Len(operands) -> Nat]
  /\ fin[0] = kUnset /\ cnt[0] = 0
  /\ \A k \in 1 .. Len(operands) :
       LET o == os[operands[k].opt] IN
       /\ fin[k] = FinalAfter(fin[k - 1], o, operands[k].optional)
       /\ cnt[k] = IF fin[k] < kOpt THEN cnt[k - 1] + o.min ELSE cnt[k - 1]

IsFinal(os, operands, final, count) ==
  \E fin, cnt : /\ FinalSteps(os, operands, fin, cnt)
                /\ fin[Len(operands)] = final /\ cnt[Len(operands)] = count

LEMMA FinalEmpty ==
  ASSUME NEW os
  PROVE  IsFinal(os, <<>>, kUnset, 0)
  <1> DEFINE f == [i \in 0 .. 0 |-> 0]
  <1>1. /\ f \in [0 .. 0 -> Nat] /\ f \in [0 .. 0 -> kUnset .. kReq] /\ f[0] = 0 /\ Len(<<>>) = 0
        /\ 1 .. 0 = {} /\ kUnset = 0
    BY DEF kUnset, kReq
  <1> HIDE DEF f
  <1>2. FinalSteps(os, <<>>, f, f)
    BY <1>1 DEF FinalSteps
  <1> QED
    BY <1>1, <1>2 DEF IsFinal

LEMMA FinalMore ==
  ASSUME NEW os, OptsOK(os), NEW operands \in Seq(OperandNames(os)), NEW final, NEW count,
         IsFinal(os, operands, final, count), NEW n \in OperandNames(os),
         NEW last, last = FinalAfter(final, os[n.opt], n.optional)
  PROVE  IsFinal(os, Append(operands, n), last, IF last < kOpt THEN count + os[n.opt].min ELSE count)
  <1> DEFINE L == Len(operands)
             ops == Append(operands, n)
             o == os[n.opt]
             num == IF last < kOpt THEN count + o.min ELSE count
  <1>1. PICK f, c : FinalSteps(os, operands, f, c) /\ f[L] = final /\ c[L] = count
    BY DEF IsFinal
  <1>2. o.min \in Nat
    BY DEF OptsOK, OperandNames, Names
  <1>3. /\ L \in Nat /\ Len(ops) = L + 1 /\ ops[L + 1] = n
        /\ \A i \in 1 .. L : ops[i] = operands[i]
    OBVIOUS
  <1>4. /\ f \in [0 .. L -> kUnset .. kReq] /\ c \in [0 .. L -> Nat] /\ f[0] = kUnset /\ c[0] = 0
        /\ \A k \in 1 .. L :
             /\ f[k] = FinalAfter(f[k - 1], os[operands[k].opt], operands[k].optional)
             /\ c[k] = IF f[k] < kOpt THEN c[k - 1] + os[operands[k].opt].min ELSE c[k - 1]
    BY <1>1 DEF FinalSteps
  <1>5. final \in kUnset .. kReq /\ count \in Nat
    BY <1>1, <1>3, <1>4
  <1>6. last \in kUnset .. kReq
    <2> HIDE DEF o
    <2> QED
      BY <1>5 DEF FinalAfter, kUnset, kNonOpt, kNonVar, kOpt, kReq
  <1>7. num \in Nat
    BY <1>2, <1>5
  <1> HIDE DEF ops, L, num, o
  <1> DEFINE F == [i \in 0 .. L + 1 |-> IF i = L + 1 THEN last ELSE f[i]]
             C == [i \in 0 .. L + 1 |-> IF i = L + 1 THEN num ELSE c[i]]
  <1>8. \A i \in 0 .. L + 1 : i # L + 1 => i \in 0 .. L
    BY <1>3
  <1>9. F \in [0 .. L + 1 -> kUnset .. kReq] /\ C \in [0 .. L + 1 -> Nat]
    BY <1>4, <1>6, <1>7, <1>8
  <1>10. /\ F[L + 1] = last /\ C[L + 1] = num
         /\ \A i \in 0 .. L : F[i] = f[i] /\ C[i] = c[i]
    BY <1>3
  <1> HIDE DEF F, C
  <1>11. ASSUME NEW i \in 1 .. L + 1
         PROVE  /\ F[i] = FinalAfter(F[i - 1], os[ops[i].opt], ops[i].optional)
                /\ C[i] = IF F[i] < kOpt THEN C[i - 1] + os[ops[i].opt].min ELSE C[i - 1]
    <2>1. i - 1 \in 0 .. L /\ F[i - 1] = f[i - 1] /\ C[i - 1] = c[i - 1]
      BY <1>3, <1>10
    <2>2. CASE i = L + 1
      <3>1. F[i - 1] = final /\ C[i - 1] = count /\ F[i] = last /\ C[i] = num /\ ops[i] = n
        BY <1>1, <1>3, <1>10, <2>1, <2>2
      <3> QED
        BY <3>1 DEF num, o
    <2>3. CASE i # L + 1
      <3>1. i \in 1 .. L /\ i \in 0 .. L
        BY <1>3, <2>3
      <3> QED
        BY <1>3, <1>4, <1>10, <2>1, <3>1
    <2> QED
      BY <2>2, <2>3
  <1>12. F[0] = kUnset /\ C[0] = 0
    BY <1>3, <1>4, <1>10
  <1>13. FinalSteps(os, ops, F, C)
    BY <1>3, <1>9, <1>11, <1>12 DEF FinalSteps
  <1>14. IsFinal(os, ops, last, num)
    BY <1>3, <1>10, <1>13 DEF IsFinal
  <1> QED
    BY <1>14 DEF ops, num, o

LEMMA NameKeepsFinal ==
  ASSUME NEW os, OptsOK(os), NEW x \in Indexes(os), IsFinal(os, x.operands, x.final, x.finalOpr),
         NEW i \in DOMAIN os, NEW k \in DOMAIN os[i].names
  PROVE  LET y == IndexName(x, i, os[i], k) IN IsFinal(os, y.operands, y.final, y.finalOpr)
  <1> DEFINE o == os[i]
             name == o.names[k]
             n == OptName(i, name, 2 * (k - 1))
             y == IndexName(x, i, o, k)
  <1>1. CASE name.form # "" /\ o.max = 0
    BY <1>1 DEF IndexName
  <1>2. CASE name.form # "" /\ o.max # 0
    <2>1. y = IndexOperand(x, o, n)
      BY <1>2 DEF IndexName
    <2>2. x.operands \in Seq(OperandNames(os))
      BY DEF Indexes
    <2>3. n \in OperandNames(os) /\ n.opt = i
      BY <1>2, NameIsOfOption DEF OperandNames, OptName
    <2> DEFINE last == FinalAfter(x.final, o, n.optional)
               num == IF last < kOpt THEN x.finalOpr + o.min ELSE x.finalOpr
               ops == Append(x.operands, n)
    <2>4. IsFinal(os, ops, last, num)
      BY <2>2, <2>3, FinalMore
    <2>5. y.operands = ops /\ y.final = last /\ y.finalOpr = num
      <3> HIDE DEF n
      <3>1. y = [x EXCEPT !.minOprs = IF n.optional THEN @ ELSE @ + o.min,
                          !.allowCommands = @ /\ (o.command = <<>> => ~n.optional /\ o.min = o.max),
                          !.final = last, !.finalOpr = IF last < kOpt THEN @ + o.min ELSE @,
                          !.broken = @ \/ Misplaced(x.final, o, n.optional), !.operands = ops]
        BY <2>1 DEF IndexOperand
      <3> HIDE DEF last, ops, y, o
      <3> QED
        BY <3>1 DEF Indexes
    <2> HIDE DEF ops, last, num, y
    <2>6. IsFinal(os, y.operands, y.final, y.finalOpr)
      BY <2>4, <2>5
    <2> QED
      BY <2>6 DEF y
  <1>3. CASE name.form = ""
    <2>1. \/ y = [x EXCEPT !.broken = TRUE]
          \/ y = IndexShortName(x, Head(name.key), n)
          \/ y = IndexLongName(x, name.key, o, n, ~name.dot)
      BY <1>3 DEF IndexName
    <2> HIDE DEF n
    <2>2. y.operands = x.operands /\ y.final = x.final /\ y.finalOpr = x.finalOpr
      BY <2>1 DEF IndexShortName, IndexLongName, Indexes
    <2> HIDE DEF y
    <2>3. IsFinal(os, y.operands, y.final, y.finalOpr)
      BY <2>2
    <2> QED
      BY <2>3 DEF y
  <1> QED
    BY <1>1, <1>2, <1>3

\* The steps lead to where the options end, if there is a final operand.
EndsBySteps(os, x) ==
  \E fin, cnt : /\ FinalSteps(os, x.operands, fin, cnt)
                /\ fin[Len(x.operands)] >= kOpt => x.finalOpr = cnt[Len(x.operands)]

LEMMA FinalOfIndex ==
  ASSUME NEW os, OptsOK(os), NEW cmd
  PROVE  EndsBySteps(os, Index(os, cmd))
  <1> DEFINE U == {x \in Indexes(os) : IsFinal(os, x.operands, x.final, x.finalOpr)}
             x == IndexAll(os, cmd)
             z == Index(os, cmd)
  <1>1. EmptyIndex(cmd) \in U
    <2> DEFINE e == EmptyIndex(cmd)
    <2>1. e.operands = <<>> /\ e.final = kUnset /\ e.finalOpr = 0
      BY DEF EmptyIndex
    <2>2. e \in Indexes(os)
      BY EmptyIsIndex
    <2> HIDE DEF e
    <2>3. IsFinal(os, e.operands, e.final, e.finalOpr)
      BY <2>1, FinalEmpty
    <2> QED
      BY <2>2, <2>3 DEF e
  <1>2. \A i \in DOMAIN os : \A k \in DOMAIN os[i].names : \A w \in U : IndexName(w, i, os[i], k) \in U
    BY NameKeepsIndex, NameKeepsFinal
  <1>3. \A y \in U : y \in Indexes(os) /\ IsFinal(os, y.operands, y.final, y.finalOpr)
    OBVIOUS
  <1> HIDE DEF U
  <1>4. \A i \in DOMAIN os : \A w \in U : os[i].command = cmd => IndexOpt(w, i, os[i]) \in U
    BY <1>2, OptKeeps
  <1>5. x \in U
    BY <1>1, <1>4, OptsKeep
  <1>6. z = Finished(x)
    <2>1. {Finished(y) : y \in {x}} = {Finished(x)}
      OBVIOUS
    <2> QED
      BY <2>1, TheOne DEF Index
  <1> HIDE DEF x, z
  <1>7. x \in Indexes(os) /\ IsFinal(os, x.operands, x.final, x.finalOpr)
    BY <1>3, <1>5
  <1>8. z.operands = x.operands /\ (~(x.final < kOpt) => z.finalOpr = x.finalOpr)
    BY <1>6, <1>7 DEF Finished, Indexes
  <1>9. PICK fin, cnt : /\ FinalSteps(os, x.operands, fin, cnt)
                        /\ fin[Len(x.operands)] = x.final /\ cnt[Len(x.operands)] = x.finalOpr
    BY <1>7 DEF IsFinal
  <1>10. x.final >= kOpt => ~(x.final < kOpt)
    BY <1>7 DEF Indexes, kUnset, kReq, kOpt
  <1>11. /\ FinalSteps(os, z.operands, fin, cnt)
         /\ fin[Len(z.operands)] >= kOpt => z.finalOpr = cnt[Len(z.operands)]
    BY <1>8, <1>9, <1>10
  <1> QED
    BY <1>11 DEF z, EndsBySteps

\* Of two operands of a command the second of which is final.
LEMMA OperandBeforeFinal ==
  ASSUME NEW os, OptsOK(os), FinalsFollowSingles(os), NEW cmd,
         NEW a \in DOMAIN Index(os, cmd).operands, NEW b \in DOMAIN Index(os, cmd).operands,
         a < b, os[Index(os, cmd).operands[b].opt].finalOpt
  PROVE  LET m == Index(os, cmd).operands[a]
             n == Index(os, cmd).operands[b]
         IN /\ m.optional => n.optional
            /\ ~os[m.opt].finalOpt => os[m.opt].min = 1 /\ os[m.opt].max = 1
  <1> DEFINE m == Index(os, cmd).operands[a]
             n == Index(os, cmd).operands[b]
  <1>1. IsOperandOf(os, cmd, m) /\ IsOperandOf(os, cmd, n)
    BY OperandsOfIndex DEF OperandsAreOf
  <1>2. m.opt < n.opt /\ os[n.opt].finalOpt
    BY OperandsFollowOptions
  <1> HIDE DEF m, n
  <1>3. PICK i \in DOMAIN os : \E k \in DOMAIN os[i].names :
               /\ os[i].command = cmd /\ os[i].max # 0 /\ os[i].names[k].form # ""
               /\ m = OptName(i, os[i].names[k], 2 * (k - 1))
    BY <1>1 DEF IsOperandOf
  <1>4. PICK k \in DOMAIN os[i].names :
               /\ os[i].command = cmd /\ os[i].max # 0 /\ os[i].names[k].form # ""
               /\ m = OptName(i, os[i].names[k], 2 * (k - 1))
    BY <1>3
  <1>5. PICK j \in DOMAIN os : \E l \in DOMAIN os[j].names :
               /\ os[j].command = cmd /\ os[j].max # 0 /\ os[j].names[l].form # ""
               /\ n = OptName(j, os[j].names[l], 2 * (l - 1))
    BY <1>1 DEF IsOperandOf
  <1>6. PICK l \in DOMAIN os[j].names :
               /\ os[j].command = cmd /\ os[j].max # 0 /\ os[j].names[l].form # ""
               /\ n = OptName(j, os[j].names[l], 2 * (l - 1))
    BY <1>5
  <1>7. /\ m.opt = i /\ n.opt = j
        /\ m.optional = OptName(i, os[i].names[k], 0).optional
        /\ n.optional = OptName(j, os[j].names[l], 0).optional
    BY <1>4, <1>6 DEF OptName
  <1>8. /\ OptName(i, os[i].names[k], 0).optional => OptName(j, os[j].names[l], 0).optional
        /\ ~os[i].finalOpt => os[i].min = 1 /\ os[i].max = 1
    BY <1>2, <1>4, <1>6, <1>7 DEF FinalsFollowSingles
  <1>9. /\ m.optional => n.optional
        /\ ~os[m.opt].finalOpt => os[m.opt].min = 1 /\ os[m.opt].max = 1
    BY <1>7, <1>8
  <1> QED
    BY <1>9 DEF m, n

\* Operand f is the first one that is final, operand n another one or the same: before f
\* there are operands of one value, as many as finalOpr says.
IsFirstFinal(os, x, f, n) ==
  /\ x.finalOpr = f - 1
  /\ \A k \in 1 .. f - 1 : /\ os[x.operands[k].opt].min = 1 /\ os[x.operands[k].opt].max = 1
                           /\ x.operands[k].optional => x.operands[n].optional

LEMMA FinalPlace ==
  ASSUME NEW os, OptsOK(os), FinalsFollowSingles(os), NEW cmd,
         NEW n \in DOMAIN Index(os, cmd).operands, os[Index(os, cmd).operands[n].opt].finalOpt
  PROVE  \E f \in 1 .. n : IsFirstFinal(os, Index(os, cmd), f, n)
  <1> DEFINE x == Index(os, cmd)
             N == Len(x.operands)
             Op(k) == x.operands[k]
             O(k) == os[Op(k).opt]
             T == {k \in 1 .. N : O(k).finalOpt}
  <1>1. N \in Nat /\ DOMAIN x.operands = 1 .. N /\ \A k \in 1 .. N : Op(k) \in OperandNames(os)
    BY IndexIsTyped DEF Indexes
  <1>2. PICK f \in T : \A k \in T : f <= k
    <2>1. n \in T /\ T \subseteq Nat
      BY <1>1
    <2> HIDE DEF T
    <2> QED
      BY <2>1, LeastPlace
  <1>3. f \in 1 .. N /\ n \in 1 .. N /\ f <= n /\ O(f).finalOpt /\ O(n).finalOpt
        /\ \A k \in 1 .. f - 1 : k \in 1 .. N /\ k < f /\ k < n /\ ~O(k).finalOpt
    <2>1. f \in 1 .. N /\ O(f).finalOpt /\ n \in 1 .. N /\ O(n).finalOpt /\ f <= n
      BY <1>1, <1>2
    <2>2. ASSUME NEW k \in 1 .. f - 1
          PROVE  k \in 1 .. N /\ k < f /\ k < n /\ ~O(k).finalOpt
      <3>1. k \in 1 .. N /\ k < f /\ k < n /\ ~(f <= k)
        BY <1>1, <2>1
      <3> QED
        BY <1>2, <3>1
    <2> QED
      BY <2>1, <2>2
  <1>4. \A k \in 1 .. f - 1 : /\ O(k).min = 1 /\ O(k).max = 1
                              /\ Op(k).optional => Op(n).optional
                              /\ Op(k).optional => Op(f).optional
    BY <1>1, <1>3, OperandBeforeFinal
  <1>5. PICK fin, cnt : /\ FinalSteps(os, x.operands, fin, cnt)
                        /\ fin[N] >= kOpt => x.finalOpr = cnt[N]
    BY FinalOfIndex DEF EndsBySteps
  <1>6. /\ fin \in [0 .. N -> kUnset .. kReq] /\ cnt \in [0 .. N -> Nat]
        /\ fin[0] = kUnset /\ cnt[0] = 0
        /\ \A k \in 1 .. N : /\ fin[k] = FinalAfter(fin[k - 1], O(k), Op(k).optional)
                             /\ cnt[k] = IF fin[k] < kOpt THEN cnt[k - 1] + O(k).min ELSE cnt[k - 1]
    BY <1>5 DEF FinalSteps
  <1> HIDE DEF x, N, Op, O, T
  <1> DEFINE G == {k \in 0 .. N :
                     /\ k < f => /\ fin[k] \in {kUnset, kNonOpt} /\ cnt[k] = k
                                 /\ fin[k] = kNonOpt => \E j \in 1 .. f - 1 : Op(j).optional
                     /\ k >= f => fin[k] \in {kOpt, kReq} /\ cnt[k] = f - 1}
  <1>7. 0 \in G
    BY <1>1, <1>3, <1>6 DEF kUnset, kNonOpt
  <1>8. ASSUME NEW k \in 1 .. N, k - 1 \in G
        PROVE  k \in G
    <2>1. k \in 0 .. N /\ k \in Nat /\ f \in Nat /\ k - 1 \in 0 .. N
      BY <1>1, <1>3
    <2>2. /\ fin[k] = FinalAfter(fin[k - 1], O(k), Op(k).optional)
          /\ cnt[k] = IF fin[k] < kOpt THEN cnt[k - 1] + O(k).min ELSE cnt[k - 1]
          /\ cnt[k - 1] \in Nat
      BY <1>6, <2>1
    <2>3. /\ k - 1 < f => /\ fin[k - 1] \in {kUnset, kNonOpt} /\ cnt[k - 1] = k - 1
                          /\ fin[k - 1] = kNonOpt => \E j \in 1 .. f - 1 : Op(j).optional
          /\ k - 1 >= f => fin[k - 1] \in {kOpt, kReq} /\ cnt[k - 1] = f - 1
      BY <1>8
    <2>4. CASE k < f
      <3>1. k - 1 < f /\ k \in 1 .. f - 1 /\ ~(k >= f)
        BY <2>1, <2>4
      <3>2. O(k).min = 1 /\ O(k).max = 1 /\ ~O(k).finalOpt
        BY <1>3, <1>4, <3>1
      <3>3. /\ fin[k] \in {kUnset, kNonOpt}
            /\ fin[k] = kNonOpt => fin[k - 1] = kNonOpt \/ Op(k).optional
        BY <2>2, <2>3, <3>1, <3>2 DEF FinalAfter, kUnset, kNonOpt, kNonVar, kOpt, kReq
      <3>4. cnt[k] = k
        BY <2>1, <2>2, <2>3, <3>1, <3>2, <3>3 DEF kUnset, kNonOpt, kOpt
      <3> QED
        BY <2>1, <2>3, <3>1, <3>3, <3>4
    <2>5. CASE k = f
      <3>1. k - 1 < f /\ ~(k < f)
        BY <2>1, <2>5
      <3>2. fin[k - 1] = kNonOpt => Op(k).optional
        BY <1>4, <2>3, <2>5, <3>1
      <3>3. fin[k] \in {kOpt, kReq}
        BY <1>3, <2>2, <2>3, <2>5, <3>1, <3>2 DEF FinalAfter, kUnset, kNonOpt, kNonVar, kOpt, kReq
      <3>4. cnt[k] = f - 1
        BY <2>2, <2>3, <2>5, <3>1, <3>3 DEF kOpt, kReq
      <3> QED
        BY <2>1, <3>1, <3>3, <3>4
    <2>6. CASE k > f
      <3>1. k - 1 >= f /\ ~(k < f)
        BY <2>1, <2>6
      <3>2. fin[k] = fin[k - 1]
        BY <2>2, <2>3, <3>1 DEF FinalAfter, kUnset, kNonOpt, kNonVar, kOpt, kReq
      <3>3. cnt[k] = f - 1
        BY <2>2, <2>3, <3>1, <3>2 DEF kOpt, kReq
      <3> QED
        BY <2>1, <2>3, <3>1, <3>2, <3>3
    <2> QED
      BY <2>1, <2>4, <2>5, <2>6
  <1> HIDE DEF G
  <1>9. \A k \in 0 .. N : k \in G
    BY <1>1, <1>7, <1>8, Upward
  <1>10. N \in 0 .. N /\ N >= f
    BY <1>1, <1>3
  <1>11. x.finalOpr = f - 1
    BY <1>5, <1>9, <1>10 DEF G, kOpt, kReq
  <1>12. f \in 1 .. n
    BY <1>1, <1>3
  <1>13. IsFirstFinal(os, x, f, n)
    BY <1>4, <1>11 DEF IsFirstFinal, O, Op
  <1> QED
    BY <1>12, <1>13 DEF x

\* An operand of one value has it before one after it gets any, unless only the latter is
\* required.
LEMMA SinglesTakeFirst ==
  ASSUME NEW os, OptsOK(os), NEW x \in Indexes(os), NEW numPos \in Nat,
         NEW a \in 1 .. Len(x.operands), NEW b \in 1 .. Len(x.operands), a < b,
         os[x.operands[a].opt].min = 1, os[x.operands[a].opt].max = 1,
         x.operands[a].optional => x.operands[b].optional,
         Matched(os, x, numPos).counts[b] > 0
  PROVE  Matched(os, x, numPos).counts[a] = 1
  <1> DEFINE N == Len(x.operands)
             m == x.operands[a]
             n == x.operands[b]
             counts == Matched(os, x, numPos).counts
  <1>1. PICK g1, g2, g3 : AreRounds(g1, g2, g3, os, x, numPos)
    BY RoundsExist
  <1>2. /\ \E start \in Deals(N, numPos) : IsRound(g1, os, x, numPos, "kMinReq", start)
        /\ g1[N] \in Deals(N, numPos) /\ IsRound(g2, os, x, numPos, "kReq", g1[N])
        /\ g2[N] \in Deals(N, numPos) /\ IsRound(g3, os, x, numPos, "kOpt", g2[N])
    BY <1>1 DEF AreRounds
  <1> DEFINE t1(k) == Taken(g1, os, x, numPos, "kMinReq", k)
             t2(k) == Taken(g2, os, x, numPos, "kReq", k)
             t3(k) == Taken(g3, os, x, numPos, "kOpt", k)
             l1(k) == Left(g1, numPos, k)
             l2(k) == Left(g2, numPos, k)
             l3(k) == Left(g3, numPos, k)
             after1 == numPos - g1[N].used
             after2 == numPos - g2[N].used
  <1>3. counts[a] = t1(a) + t2(a) + t3(a) /\ counts[b] = t1(b) + t2(b) + t3(b)
    BY <1>1 DEF AreRounds
  <1>4. m \in OperandNames(os) /\ n \in OperandNames(os) /\ m.optional \in BOOLEAN
    BY DEF Indexes, OperandNames, Names
  <1>5. after1 \in Int /\ after2 \in Int
    <2>1. g1[N].used \in 0 .. numPos /\ g2[N].used \in 0 .. numPos
      BY <1>2 DEF Deals
    <2> QED
      BY <2>1
  <1>6. /\ l1(a) \in Nat /\ l1(b) \in Nat /\ l1(b) <= l1(a) /\ after1 <= l1(a)
        /\ t1(b) \in 0 .. l1(b)
    <2>1. /\ l1(a) \in Nat /\ l1(b) \in Nat /\ l1(b) <= l1(a) /\ after1 <= l1(a) - t1(a)
          /\ t1(a) \in 0 .. l1(a) /\ t1(b) \in 0 .. l1(b)
      BY <1>2, RoundLeaves
    <2> HIDE DEF l1, t1, after1
    <2> QED
      BY <1>5, <2>1
  <1>7. /\ l2(a) \in Nat /\ l2(b) \in Nat /\ l2(b) <= after1 /\ after2 <= l2(b)
        /\ t2(b) \in 0 .. l2(b)
    <2>1. /\ l2(a) \in Nat /\ l2(b) \in Nat /\ l2(b) <= after1 /\ after2 <= l2(b) - t2(b)
          /\ t2(b) \in 0 .. l2(b)
      BY <1>2, RoundLeaves
    <2> HIDE DEF l2, t2, after1, after2
    <2> QED
      BY <1>5, <2>1
  <1>8. /\ l3(a) \in Nat /\ l3(b) \in Nat /\ l3(b) <= after2 /\ l3(b) <= l3(a)
        /\ t3(b) \in 0 .. l3(b)
    BY <1>2, RoundLeaves
  <1>9. /\ t1(a) = numMatches("kMinReq", l1(a), m, os[m.opt]) /\ t1(b) = numMatches("kMinReq", l1(b), n, os[n.opt])
        /\ t2(a) = numMatches("kReq", l2(a), m, os[m.opt]) /\ t2(b) = numMatches("kReq", l2(b), n, os[n.opt])
        /\ t3(a) = numMatches("kOpt", l3(a), m, os[m.opt]) /\ t3(b) = numMatches("kOpt", l3(b), n, os[n.opt])
    BY DEF Taken, Left
  <1> HIDE DEF t1, t2, t3, l1, l2, l3, after1, after2, m, n, counts
  <1>10. \A left \in Nat : left # 0 => AtMost(left, 1) = 1
    BY DEF AtMost
  <1>11. counts[b] > 0
    BY DEF counts
  <1>12. os[m.opt].min = 1 /\ os[m.opt].max = 1 /\ (m.optional => n.optional)
    BY DEF m, n
  <1>13. CASE ~m.optional
    <2>1. t1(a) = AtMost(l1(a), 1) /\ t2(a) = 0 /\ t3(a) = 0
      BY <1>9, <1>12, <1>13 DEF numMatches
    <2>2. l1(a) # 0
      BY <1>3, <1>5, <1>6, <1>7, <1>8, <1>11
    <2> QED
      BY <1>3, <1>6, <1>10, <2>1, <2>2 DEF counts
  <1>14. CASE m.optional
    <2>1. t1(a) = 0 /\ t2(a) = 0 /\ t3(a) = AtMost(l3(a), 1)
      BY <1>9, <1>12, <1>14 DEF numMatches
    <2>2. t1(b) = 0 /\ t2(b) = 0
      BY <1>4, <1>6, <1>7, <1>9, <1>12, <1>14, OptionalTakesLast
    <2>3. l3(a) # 0
      BY <1>3, <1>8, <1>11, <2>2
    <2> QED
      BY <1>3, <1>8, <1>10, <2>1, <2>3 DEF counts
  <1> QED
    BY <1>4, <1>13, <1>14

\* A value of a final operand is one that came when as many as finalOpr had been read, or later.
LEMMA FinalsComeLate ==
  ASSUME NEW os, OptsOK(os), FinalsFollowSingles(os), NEW cmd, NEW numPos \in Nat,
         Matched(os, Index(os, cmd), numPos).used = numPos, NEW n \in 1 .. numPos,
         os[Index(os, cmd).operands[OperandOf(Matched(os, Index(os, cmd), numPos).counts, n)].opt].finalOpt
  PROVE  Index(os, cmd).finalOpr \in Nat /\ Index(os, cmd).finalOpr < n
  <1> DEFINE x == Index(os, cmd)
             N == Len(x.operands)
             counts == Matched(os, x, numPos).counts
             a == OperandOf(counts, n)
  <1>1. x \in Indexes(os) /\ N \in Nat /\ DOMAIN x.operands = 1 .. N
    BY IndexIsTyped DEF Indexes
  <1>2. counts \in [1 .. N -> Nat] /\ SumsTo(counts, N, numPos)
    BY <1>1, MatchedIsDeal DEF Deals
  <1>3. PICK g : IsSum(g, counts, N) /\ g[N] = numPos
    BY <1>2 DEF SumsTo
  <1>4. a \in 1 .. N /\ g[a - 1] < n /\ n <= g[a]
    <2> HIDE DEF N, counts
    <2>1. n \in 1 .. g[N]
      BY <1>3
    <2> QED
      BY <1>1, <1>2, <1>3, <2>1, OperandIsAt
  <1>5. PICK f \in 1 .. a : IsFirstFinal(os, x, f, a)
    BY <1>1, <1>4, FinalPlace
  <1> DEFINE c(k) == counts[k]
  <1>6. ASSUME NEW k \in 1 .. f - 1, c(a) > 0
        PROVE  k \in 1 .. N /\ c(k) = 1
    <2>1. k \in 1 .. N /\ k < a
      BY <1>1, <1>4, <1>5
    <2>2. /\ os[x.operands[k].opt].min = 1 /\ os[x.operands[k].opt].max = 1
          /\ x.operands[k].optional => x.operands[a].optional
      BY <1>5 DEF IsFirstFinal
    <2> HIDE DEF x, N, a
    <2>3. c(k) = 1
      BY <1>1, <1>4, <1>6, <2>1, <2>2, SinglesTakeFirst DEF N
    <2> QED
      BY <2>1, <2>3
  <1>7. x.finalOpr = f - 1
    BY <1>5 DEF IsFirstFinal
  <1>8. g \in [0 .. N -> Nat] /\ g[0] = 0 /\ \A i \in 1 .. N : g[i] = g[i - 1] + c(i) /\ c(i) \in Nat
    BY <1>2, <1>3 DEF IsSum
  <1> HIDE DEF N, counts, a, x, c
  <1>9. c(a) > 0
    <2>1. a - 1 \in 0 .. N /\ a \in 0 .. N
      BY <1>1, <1>4
    <2>2. g[a - 1] \in Nat /\ g[a] \in Nat /\ c(a) \in Nat /\ g[a] = g[a - 1] + c(a) /\ n \in Nat
      BY <1>4, <1>8, <2>1
    <2> QED
      BY <1>4, <2>2
  <1>10. g[f - 1] = f - 1
    <2> DEFINE G == {i \in 0 .. f - 1 : g[i] = i}
    <2>1. f - 1 \in Nat /\ f - 1 \in 0 .. f - 1 /\ 0 \in 0 .. f - 1
      BY <1>5
    <2>2. 0 \in G
      BY <1>8, <2>1
    <2>3. ASSUME NEW i \in 1 .. f - 1, i - 1 \in G
          PROVE  i \in G
      <3>1. i \in 1 .. N /\ c(i) = 1
        BY <1>6, <1>9
      <3>2. g[i] = g[i - 1] + 1 /\ g[i - 1] = i - 1
        BY <1>8, <2>3, <3>1
      <3>3. i \in 0 .. f - 1 /\ i \in Int
        BY <2>1
      <3> QED
        BY <3>2, <3>3
    <2> HIDE DEF G
    <2>4. \A i \in 0 .. f - 1 : i \in G
      BY <2>1, <2>2, <2>3, Upward
    <2> QED
      BY <2>1, <2>4 DEF G
  <1>11. g[a - 1] >= g[f - 1] /\ g[a - 1] \in Nat
    <2>1. f - 1 \in 0 .. N /\ a - 1 \in 0 .. N /\ a - 1 >= f - 1
      BY <1>1, <1>4, <1>5
    <2>2. g[a - 1] >= g[f - 1]
      BY <1>1, <1>2, <1>3, <2>1, SumsAscend
    <2> QED
      BY <1>8, <2>1, <2>2
  <1>12. f - 1 \in Nat /\ f - 1 < n
    BY <1>4, <1>5, <1>10, <1>11
  <1> QED
    BY <1>7, <1>12 DEF x
==============================================================================
