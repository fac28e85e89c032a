----------------------------- MODULE DimcliIndex -----------------------------
(***************************************************************************)
(* Cli::OptIndex: the names of the options of a command, and which operand *)
(* each positional value belongs to.                                       *)
(*                                                                         *)
(* An option is a record: its names, the command it is of, whether its     *)
(* values are of type bool, whether it is a vector (OptVec), the minimum   *)
(* and maximum number of its values, whether it ends the options, the      *)
(* values its parse and check actions refuse, which check action it has,   *)
(* and whether it is required.  A name has a form ("<" and "[" are those   *)
(* of operands), a key, a modifier ("!", "?" or "") and may end in a dot.  *)
(* A key is a sequence of symbols; a symbol may stand for several          *)
(* characters unless it is one of Letters.                                 *)
(***************************************************************************)
EXTENDS Integers, Sequences, SequencesExt

CONSTANT Letters   \* the symbols of one character

\* The member of a set of one.  The({Op(a) : a \in {v}}) is Op(v) with v evaluated once:
\* TLC evaluates a bound variable once, an argument at each use.
The(S) == CHOOSE r \in S : TRUE

\* The function f with another value at k.
With(f, k, v) == [x \in DOMAIN f \cup {k} |-> IF x = k THEN v ELSE f[x]]

IsSequence(s) == s \in Seq(ToSet(s))

\* An option has at most one name that makes it an operand, which is asserted of its names.
OneOperand(o) ==
  \A j, k \in DOMAIN o.names : o.names[j].form # "" /\ o.names[k].form # "" => j = k

\* minSize() and maxSize(): what size() of a vector allows, -1 being no maximum; other
\* options have one value.
OptsOK(opts) ==
  /\ IsSequence(opts)
  /\ \A i \in DOMAIN opts :
       LET o == opts[i] IN
       /\ IsSequence(o.names) /\ OneOperand(o)
       /\ o.min \in Nat
       /\ o.max = -1 \/ (o.max \in Nat /\ o.min <= o.max)
       /\ ~o.vector => o.min = 1 /\ o.max = 1

\* Each operand of the top level is required and has a fixed number of values.
FixedOperands(opts) ==
  \A i \in DOMAIN opts : \A k \in DOMAIN opts[i].names :
    LET o    == opts[i]
        name == o.names[k]
    IN o.command = <<>> /\ o.max # 0 /\ name.form # "" =>
         name.form # "[" /\ name.modifier # "?" /\ o.min = o.max

\* enum Final, in order of priority.
kUnset  == 0
kNonOpt == 1
kNonVar == 2
kOpt    == 3
kReq    == 4

\* OptIndex; broken is set where an assertion fails.
EmptyIndex(cmd) ==
  [short |-> <<>>, long |-> <<>>, operands |-> <<>>, allowCommands |-> cmd = <<>>,
   final |-> kUnset, minOprs |-> 0, finalOpr |-> 0, broken |-> FALSE]

OptName(i, n, pos) ==
  [opt |-> i, invert |-> n.modifier = "!", optional |-> n.form = "[" \/ n.modifier = "?",
   pos |-> pos]

\* No optional operand precedes a required one that is final, and what precedes a final one
\* has one value, or is final: indexName asserts no more than that it has a fixed number.
FinalsFollowSingles(opts) ==
  \A i, j \in DOMAIN opts : \A k \in DOMAIN opts[i].names, l \in DOMAIN opts[j].names :
    LET before == OptName(i, opts[i].names[k], 0)
        final  == OptName(j, opts[j].names[l], 0)
    IN /\ i < j /\ opts[i].command = opts[j].command /\ opts[j].finalOpt
       /\ opts[i].max # 0 /\ opts[i].names[k].form # ""
       /\ opts[j].max # 0 /\ opts[j].names[l].form # ""
       => /\ before.optional => final.optional
          /\ ~opts[i].finalOpt => opts[i].min = 1 /\ opts[i].max = 1

\* What an operand does to m_final.
FinalAfter(final, o, optional) ==
  CASE ~o.finalOpt /\ final < kNonVar /\ o.min # o.max -> kNonVar
    [] ~o.finalOpt /\ final < kNonOpt /\ optional /\ o.min = o.max -> kNonOpt
    [] o.finalOpt /\ final = kNonOpt /\ optional       -> kOpt
    [] o.finalOpt /\ final = kUnset                    -> IF optional THEN kOpt ELSE kReq
    [] OTHER                                           -> final

\* The assertions about the order of operands.
Misplaced(final, o, optional) ==
  \/ ~optional /\ final = kOpt
  \/ o.finalOpt /\ final = kNonVar
  \/ o.finalOpt /\ final = kNonOpt /\ ~optional

\* An operand: how many values come before it decides after how many options end.
IndexOperand(x, o, n) ==
  LET final == FinalAfter(x.final, o, n.optional) IN
  [x EXCEPT !.minOprs = IF n.optional THEN @ ELSE @ + o.min,
            !.allowCommands = @ /\ (o.command = <<>> => ~n.optional /\ o.min = o.max),
            !.final = final,
            !.finalOpr = IF final < kOpt THEN @ + o.min ELSE @,
            !.broken = @ \/ Misplaced(x.final, o, n.optional),
            !.operands = Append(@, n)]

IndexShortName(x, letter, n) == [x EXCEPT !.short = With(@, letter, n)]

\* A bool gets the name that turns it off as well, unless its name ends in a dot.
IndexLongName(x, key, o, n, allowNo) ==
  LET no == [n EXCEPT !.invert = ~@, !.pos = @ + 1]
      named == With(x.long, key, n)
  IN [x EXCEPT !.long = IF allowNo /\ o.bool THEN With(named, <<"no-">> \o key, no) ELSE named]

\* The name at place k of the names of option i.  A bool has no optional value.
IndexName(x, i, o, k) ==
  LET name    == o.names[k]
      n       == OptName(i, name, 2 * (k - 1))
      operand == name.form # ""
      bad     == o.bool /\ name.modifier = "?"
      letter  == Len(name.key) = 1 /\ Head(name.key) \in Letters
  IN CASE operand /\ o.max = 0 -> x
       [] operand /\ o.max # 0 -> IndexOperand(x, o, n)
       [] ~operand /\ bad -> [x EXCEPT !.broken = TRUE]
       [] ~operand /\ ~bad /\ letter -> IndexShortName(x, Head(name.key), n)
       [] OTHER -> IndexLongName(x, name.key, o, n, ~name.dot)

\* index(): all the names of all the options of a command, in the order of declaration.
IndexOpt(x, i, o) ==
  LET y[k \in 0 .. Len(o.names)] ==
        IF k = 0 THEN x ELSE The({IndexName(z, i, o, k) : z \in {y[k - 1]}})
  IN y[Len(o.names)]

IndexStep(x, i, o, cmd) == IF o.command = cmd THEN IndexOpt(x, i, o) ELSE x

IndexAll(opts, cmd) ==
  LET x[i \in 0 .. Len(opts)] ==
        IF i = 0 THEN EmptyIndex(cmd) ELSE The({IndexStep(y, i, opts[i], cmd) : y \in {x[i - 1]}})
  IN x[Len(opts)]

\* Mutant: the options end at the value after the one of the final operand.
FinishedLate(x) == [x EXCEPT !.finalOpr = IF x.final < kOpt THEN -1 ELSE @ + 1]

\* Without a final operand no number of values ends the options.
Finished(x) == IF x.final < kOpt THEN [x EXCEPT !.finalOpr = -1] ELSE x

Index(opts, cmd) == The({Finished(x) : x \in {IndexAll(opts, cmd)}})

-----------------------------------------------------------------------------
\* Mutant: optional operands come before the rest of the required ones.
OptionalFirst == <<"kMinReq", "kOpt", "kReq">>

\* enum OprCat, in the order of assignOperands.
OprCat == <<"kMinReq", "kReq", "kOpt">>

AtMost(avail, max) == IF max = -1 \/ avail < max THEN avail ELSE max

\* How many of avail values operand n takes in a category.
numMatches(cat, avail, n, o) ==
  LET vec == o.min # 1 \/ o.max # 1 IN
  CASE cat = "kMinReq" /\ ~n.optional /\ vec /\ avail >= o.min -> o.min
    [] cat = "kReq" /\ ~n.optional /\ vec ->
         IF o.max = -1 THEN avail ELSE AtMost(avail, o.max - o.min)
    [] cat = "kOpt" /\ n.optional /\ vec /\ avail >= o.min -> AtMost(avail, o.max)
    [] ~vec /\ cat = (IF n.optional THEN "kOpt" ELSE "kMinReq") -> AtMost(avail, 1)
    [] OTHER -> 0

\* How many values each operand gets of numPos values, and how many they are: one round of
\* the operands for each category.
Take(opts, x, numPos, cat, m, i) ==
  LET num == numMatches(cat, numPos - m.used, x.operands[i], opts[x.operands[i].opt])
  IN [used |-> m.used + num, counts |-> [m.counts EXCEPT ![i] = @ + num]]

TakeAll(opts, x, numPos, cat, start) ==
  LET m[i \in 0 .. Len(x.operands)] ==
        IF i = 0 THEN start ELSE The({Take(opts, x, numPos, cat, n, i) : n \in {m[i - 1]}})
  IN m[Len(x.operands)]

Matched(opts, x, numPos) ==
  LET Round(c, m) == TakeAll(opts, x, numPos, OprCat[c], m)
      None == [used |-> 0, counts |-> [i \in DOMAIN x.operands |-> 0]]
  IN Round(3, Round(2, Round(1, None)))

\* The operand of the k-th positional value.
OperandOf(counts, k) ==
  LET upTo[i \in 0 .. Len(counts)] == IF i = 0 THEN 0 ELSE upTo[i - 1] + counts[i]
  IN Min({i \in DOMAIN counts : upTo[i] >= k})
==============================================================================
