-------------------------- MODULE DimcliArgvProofs --------------------------
(***************************************************************************)
(* Proofs about the command lines of Dimcli: the types, that white space   *)
(* does not get into an argument by itself, that toGnuArgv follows the     *)
(* rules of buildargv, and that a joined line parses back when each of its *)
(* arguments can be expressed, and only then.                              *)
(***************************************************************************)
EXTENDS DimcliArgv, FiniteSetTheorems, WellFoundedInduction, TLAPS

Word == Seq(Characters)

-----------------------------------------------------------------------------
(***************************************************************************)
(* Joining gives a line: what FlattenSeq puts together of sequences is one.*)
(* Its function is shown to exist, and to keep to sequences, by the least  *)
(* place where it would not.                                               *)
(***************************************************************************)
LEMMA LeastOne ==
  ASSUME NEW T, T \subseteq Nat, T # {}
  PROVE  \E n \in T : \A m \in Nat : m < n => m \notin T
  <1> DEFINE R == {ss \in Nat \X Nat : ss[1] < ss[2]}
  <1>1. IsWellFoundedOn(R, Nat)
    BY NatLessThanWellFounded DEF OpToRel
  <1>2. \A m, n \in Nat : m < n => <<m, n>> \in R
    OBVIOUS
  <1> HIDE DEF R
  <1>3. \E n \in T : \A m \in T : <<m, n>> \notin R
    BY <1>1, WFMin
  <1> QED
    BY <1>2, <1>3

FlatStep(g, seqs, i) == IF i = 1 THEN seqs[i] ELSE g[i - 1] \o seqs[i]

\* g is the function of FlattenSeq(seqs), up to place n.
Flattens(g, seqs, n) ==
  /\ g = [i \in 1 .. n |-> g[i]]
  /\ \A i \in 1 .. n : g[i] = FlatStep(g, seqs, i)

LEMMA FlattensMore ==
  ASSUME NEW seqs, NEW g, NEW n \in Nat, Flattens(g, seqs, n)
  PROVE  \E h : Flattens(h, seqs, n + 1)
  <1> DEFINE h == [i \in 1 .. n + 1 |-> IF i = n + 1 THEN FlatStep(g, seqs, i) ELSE g[i]]
  <1>1. h = [i \in 1 .. n + 1 |-> h[i]]
    OBVIOUS
  <1>2. ASSUME NEW i \in 1 .. n + 1
        PROVE  h[i] = FlatStep(h, seqs, i)
    <2>1. h[i] = FlatStep(g, seqs, i)
      BY DEF Flattens
    <2>2. i # 1 => i - 1 \in 1 .. n /\ i - 1 \in 1 .. n + 1 /\ i - 1 # n + 1
      OBVIOUS
    <2>3. i # 1 => h[i - 1] = g[i - 1]
      BY <2>2
    <2> HIDE DEF h
    <2> QED
      BY <2>1, <2>3 DEF FlatStep
  <1> HIDE DEF h
  <1> QED
    BY <1>1, <1>2 DEF Flattens

LEMMA FlattensAll ==
  ASSUME NEW seqs, NEW n \in Nat
  PROVE  \E g : Flattens(g, seqs, n)
  <1> DEFINE T == {k \in Nat : ~\E g : Flattens(g, seqs, k)}
  <1>1. ASSUME T # {}
        PROVE  FALSE
    <2>1. PICK k \in T : \A m \in Nat : m < k => m \notin T
      BY <1>1, LeastOne
    <2>2. CASE k = 0
      <3>1. Flattens([i \in 1 .. 0 |-> 0], seqs, 0)
        BY DEF Flattens
      <3> QED
        BY <2>1, <2>2, <3>1
    <2>3. CASE k > 0
      <3>1. k - 1 \in Nat /\ k - 1 < k /\ (k - 1) + 1 = k
        BY <2>3
      <3>2. PICK g : Flattens(g, seqs, k - 1)
        BY <2>1, <3>1
      <3>3. \E h : Flattens(h, seqs, (k - 1) + 1)
        BY <3>1, <3>2, FlattensMore
      <3> QED
        BY <2>1, <3>1, <3>3
    <2> QED
      BY <2>1, <2>2, <2>3
  <1> QED
    BY <1>1

LEMMA FlattensWords ==
  ASSUME NEW S, NEW seqs \in Seq(Seq(S)), NEW g, Flattens(g, seqs, Len(seqs)),
         NEW n \in 1 .. Len(seqs)
  PROVE  g[n] \in Seq(S)
  <1> DEFINE T == {k \in 1 .. Len(seqs) : g[k] \notin Seq(S)}
  <1>1. ASSUME T # {}
        PROVE  FALSE
    <2>0. Len(seqs) \in Nat /\ T \subseteq Nat
      OBVIOUS
    <2>1. PICK k \in T : \A m \in Nat : m < k => m \notin T
      BY <1>1, <2>0, LeastOne
    <2>2. seqs[k] \in Seq(S) /\ k \in Nat /\ k >= 1
      BY <2>0, <2>1
    <2>3. k # 1 => g[k - 1] \in Seq(S)
      BY <2>0, <2>1, <2>2
    <2>4. g[k] = FlatStep(g, seqs, k)
      BY <2>1 DEF Flattens
    <2>5. k # 1 => g[k - 1] \o seqs[k] \in Seq(S)
      BY <2>2, <2>3
    <2> QED
      BY <2>1, <2>2, <2>4, <2>5 DEF FlatStep
  <1> QED
    BY <1>1

LEMMA FlatFunction ==
  ASSUME NEW S, NEW seqs \in Seq(Seq(S))
  PROVE  FlattenSeq(seqs) \in Seq(S)
  <1> DEFINE n == Len(seqs)
             Is(g) == g = [i \in 1 .. n |-> IF i = 1 THEN seqs[i] ELSE g[i - 1] \o seqs[i]]
             f == CHOOSE g : Is(g)
  <1>1. n \in Nat
    OBVIOUS
  <1>2. PICK g : Flattens(g, seqs, n)
    BY <1>1, FlattensAll
  <1>3. Is(g)
    BY <1>2 DEF Flattens, FlatStep
  <1>4. Is(f)
    BY <1>3
  <1>5. Flattens(f, seqs, n)
    <2>1. ASSUME NEW h, Is(h)
          PROVE  Flattens(h, seqs, n)
      BY <2>1 DEF Flattens, FlatStep
    <2> HIDE DEF f, Is
    <2> QED
      BY <1>4, <2>1
  <1>6. FlattenSeq(seqs) = IF n = 0 THEN seqs ELSE f[n]
    BY DEF FlattenSeq
  <1> HIDE DEF f, Is
  <1>7. n # 0 => f[n] \in Seq(S)
    BY <1>1, <1>5, FlattensWords
  <1>8. n = 0 => seqs \in Seq(S)
    BY <1>1
  <1> QED
    BY <1>6, <1>7, <1>8

LEMMA RepeatedIsWord ==
  ASSUME NEW S, NEW c \in S, NEW n \in Nat
  PROVE  [k \in 1 .. n |-> c] \in Seq(S)
  OBVIOUS

LEMMA JoinIsWord ==
  ASSUME NEW S, NEW s \in Seq(S), NEW t \in Seq(S)
  PROVE  s \o t \in Seq(S)
  OBVIOUS

LEMMA OneIsWord ==
  ASSUME NEW S, NEW c \in S
  PROVE  <<c>> \in Seq(S)
  OBVIOUS

LEMMA EscapeIsWord ==
  ASSUME NEW a \in Word, NEW S
  PROVE  Escape(a, S) \in Word
  <1> DEFINE parts == [i \in DOMAIN a |-> IF a[i] \in S THEN <<"bs", a[i]>> ELSE <<a[i]>>]
  <1>1. \A i \in DOMAIN a : a[i] \in Characters
    BY DEF Word
  <1>2. \A i \in DOMAIN a : parts[i] \in Seq(Characters)
    BY <1>1, DimcliArgvAssumption
  <1>3. DOMAIN a = 1 .. Len(a) /\ Len(a) \in Nat
    BY DEF Word
  <1>4. parts \in Seq(Seq(Characters))
    BY <1>2, <1>3
  <1> HIDE DEF parts
  <1>5. FlattenSeq(parts) \in Seq(Characters)
    BY <1>4, FlatFunction
  <1> QED
    BY <1>5 DEF Escape, Word, parts

LEMMA SeparatedIsWord ==
  ASSUME NEW words \in Seq(Word)
  PROVE  Separated(words) \in Word
  <1> DEFINE parts == [i \in DOMAIN words |-> IF i = 1 THEN words[i] ELSE <<"sp">> \o words[i]]
  <1>1. \A i \in DOMAIN words : words[i] \in Seq(Characters)
    BY DEF Word
  <1>2. \A i \in DOMAIN words : parts[i] \in Seq(Characters)
    <2>1. "sp" \in Characters
      BY DimcliArgvAssumption DEF White, Blank
    <2>2. <<"sp">> \in Seq(Characters)
      BY <2>1, OneIsWord
    <2>3. \A i \in DOMAIN words : <<"sp">> \o words[i] \in Seq(Characters)
      BY <1>1, <2>2, JoinIsWord
    <2> QED
      BY <1>1, <2>3
  <1>3. DOMAIN words = 1 .. Len(words) /\ Len(words) \in Nat
    OBVIOUS
  <1>4. parts \in Seq(Seq(Characters))
    BY <1>2, <1>3
  <1> HIDE DEF parts
  <1>5. FlattenSeq(parts) \in Seq(Characters)
    BY <1>4, FlatFunction
  <1> QED
    BY <1>5 DEF Separated, Word, parts

LEMMA EscapedWords ==
  ASSUME NEW args \in Seq(Word), NEW S
  PROVE  Separated([i \in DOMAIN args |-> Escape(args[i], S)]) \in Word
  <1>1. DOMAIN args = 1 .. Len(args) /\ Len(args) \in Nat /\ \A i \in DOMAIN args : args[i] \in Word
    OBVIOUS
  <1>2. \A i \in DOMAIN args : Escape(args[i], S) \in Word
    BY <1>1, EscapeIsWord
  <1>3. [i \in DOMAIN args |-> Escape(args[i], S)] \in Seq(Word)
    BY <1>1, <1>2
  <1> QED
    BY <1>3, SeparatedIsWord

\* The greatest of 0 and some numbers up to n.
LEMMA MaxUpTo ==
  ASSUME NEW n \in Nat, NEW S, S \subseteq 1 .. n
  PROVE  /\ Max({0} \cup S) \in 0 .. n
         /\ Max({0} \cup S) \in {0} \cup S
         /\ \A x \in S : x <= Max({0} \cup S)
  <1> DEFINE T == {k \in Nat : \A x \in {0} \cup S : x <= k}
  <1>1. n \in T
    OBVIOUS
  <1>2. PICK k \in T : \A m \in Nat : m < k => m \notin T
    BY <1>1, LeastOne
  <1>3. k \in {0} \cup S
    <2>1. ASSUME k \notin {0} \cup S
          PROVE  FALSE
      <3>1. k > 0 /\ k - 1 \in Nat /\ k - 1 < k
        BY <2>1
      <3>2. \A x \in {0} \cup S : x \in Nat /\ x <= k /\ x # k
        BY <1>2, <2>1
      <3>3. \A x \in {0} \cup S : x <= k - 1
        BY <3>2
      <3> QED
        BY <1>2, <3>1, <3>3
    <2> QED
      BY <2>1
  <1>4. \A x \in {0} \cup S : k >= x
    BY <1>2
  <1>5. \E x \in {0} \cup S : \A y \in {0} \cup S : x >= y
    BY <1>3, <1>4
  <1>6. /\ Max({0} \cup S) \in {0} \cup S
        /\ \A x \in {0} \cup S : Max({0} \cup S) >= x
    BY <1>5 DEF Max
  <1>7. {0} \cup S \subseteq 0 .. n
    OBVIOUS
  <1> HIDE DEF T
  <1> QED
    BY <1>6, <1>7

LEMMA WindowsQuotedIsWord ==
  ASSUME NEW a \in Word
  PROVE  WindowsQuoted(a) \in Word
  <1> DEFINE parts == [i \in DOMAIN a |->
               IF a[i] = "dq" THEN [k \in 1 .. BackslashesBefore(a, i) + 1 |-> "bs"] \o <<"dq">>
                              ELSE <<a[i]>>]
             body == FlattenSeq(parts)
  <1>1. DOMAIN a = 1 .. Len(a) /\ Len(a) \in Nat /\ \A i \in DOMAIN a : a[i] \in Characters
    BY DEF Word
  <1>2. ASSUME NEW i \in DOMAIN a
        PROVE  BackslashesBefore(a, i) \in Nat
    <2> DEFINE S == {j \in 1 .. i - 1 : a[j] # "bs"}
    <2>1. i - 1 \in Nat /\ S \subseteq 1 .. i - 1
      BY <1>1
    <2> HIDE DEF S
    <2>2. Max({0} \cup S) \in 0 .. i - 1
      BY <2>1, MaxUpTo
    <2>3. BackslashesBefore(a, i) = i - 1 - Max({0} \cup S)
      BY DEF BackslashesBefore, S
    <2> QED
      BY <2>1, <2>2, <2>3
  <1>3. "bs" \in Characters /\ "dq" \in Characters
    BY DimcliArgvAssumption DEF Quotes
  <1>4. ASSUME NEW i \in DOMAIN a
        PROVE  parts[i] \in Seq(Characters)
    <2> DEFINE run == [k \in 1 .. BackslashesBefore(a, i) + 1 |-> "bs"]
    <2>1. BackslashesBefore(a, i) + 1 \in Nat
      BY <1>2
    <2>2. run \in Seq(Characters)
      BY <1>3, <2>1, RepeatedIsWord
    <2>3. <<"dq">> \in Seq(Characters) /\ <<a[i]>> \in Seq(Characters)
      BY <1>1, <1>3, OneIsWord
    <2>4. parts[i] = IF a[i] = "dq" THEN run \o <<"dq">> ELSE <<a[i]>>
      OBVIOUS
    <2> HIDE DEF run, parts
    <2>5. run \o <<"dq">> \in Seq(Characters)
      BY <2>2, <2>3, JoinIsWord
    <2> QED
      BY <2>3, <2>4, <2>5
  <1> HIDE DEF parts
  <1>5. \A i \in DOMAIN a : parts[i] \in Seq(Characters)
    BY <1>4
  <1>6. parts \in Seq(Seq(Characters))
    BY <1>1, <1>5 DEF parts
  <1>7. body \in Seq(Characters)
    BY <1>6, FlatFunction
  <1>8. WindowsQuoted(a) = IF "sp" \in ToSet(a) THEN <<"dq">> \o body \o <<"dq">> ELSE body
    BY DEF WindowsQuoted, parts
  <1> HIDE DEF body
  <1>9. <<"dq">> \in Seq(Characters)
    BY <1>3, OneIsWord
  <1>10. <<"dq">> \o body \in Seq(Characters)
    BY <1>7, <1>9, JoinIsWord
  <1>11. <<"dq">> \o body \o <<"dq">> \in Seq(Characters)
    BY <1>9, <1>10, JoinIsWord
  <1> QED
    BY <1>7, <1>8, <1>11 DEF Word

\* Whatever the convention, joined arguments are a line.
LEMMA JoinedIsLine ==
  ASSUME NEW args \in Seq(Word), convention \in {"gnu", "glib", "windows"}
  PROVE  Joined(args) \in Word
  <1>1. toGnuCmdline(args) \in Word
    BY EscapedWords DEF toGnuCmdline
  <1>2. toGlibCmdline(args) \in Word
    BY EscapedWords DEF toGlibCmdline
  <1>3. toWindowsCmdline(args) \in Word
    <2>1. DOMAIN args = 1 .. Len(args) /\ Len(args) \in Nat /\ \A i \in DOMAIN args : args[i] \in Word
      OBVIOUS
    <2>2. \A i \in DOMAIN args : WindowsQuoted(args[i]) \in Word
      BY <2>1, WindowsQuotedIsWord
    <2>3. [i \in DOMAIN args |-> WindowsQuoted(args[i])] \in Seq(Word)
      BY <2>1, <2>2
    <2> QED
      BY <2>3, SeparatedIsWord DEF toWindowsCmdline
  <1> QED
    BY <1>1, <1>2, <1>3 DEF Joined

-----------------------------------------------------------------------------
(***************************************************************************)
(* Types.  The line is read once: cur never passes the place after its     *)
(* last character, although an escape reads two, and there are never more  *)
(* backslashes to put back than characters were read.                      *)
(***************************************************************************)
Modes == {"gap", "unquoted", "quoted", "comment"}

ArgvTypes ==
  /\ convention \in {"gnu", "glib", "windows"}
  /\ given \in Seq(Word)
  /\ cmdline \in Word
  /\ cur \in 1 .. Len(cmdline) + 1
  /\ mode \in Modes
  /\ quote \in Quotes \cup {"none"}
  /\ backslashes \in 0 .. cur - 1
  /\ arg \in Word
  /\ out \in Seq(Word)
  /\ pc \in {"join", "split", "done"}
  /\ pc = "join" => cur = 1 /\ mode = "gap" /\ arg = <<>> /\ out = <<>>

\* A turn of the loop.
Turn == pc = "split" /\ cur <= Len(cmdline) /\ UNCHANGED fixed

LEMMA PendingIsWord ==
  ASSUME ArgvTypes
  PROVE  Pending \in Word
  <1>1. "bs" \in Characters /\ backslashes \in Nat
    BY DimcliArgvAssumption DEF ArgvTypes
  <1>2. [k \in 1 .. backslashes |-> "bs"] \in Seq(Characters)
    BY <1>1, RepeatedIsWord
  <1> QED
    BY <1>2, JoinIsWord DEF Pending, ArgvTypes, Word

LEMMA AppendIsWord ==
  ASSUME NEW S, NEW w \in Seq(S), NEW c \in S
  PROVE  Append(w, c) \in Seq(S)
  OBVIOUS

LEMMA TurnTypes ==
  ASSUME ArgvTypes, Turn
  PROVE  /\ ch \in Characters
         /\ HasNext => cmdline[cur + 1] \in Characters
         /\ InWord \in Modes
         /\ Pending \in Word
         /\ Append(Pending, ch) \in Word
         /\ Append(out, Pending) \in Seq(Word)
         /\ Append(arg, "bs") \in Word
  <1>1. ch \in Characters
    BY DEF ArgvTypes, Turn, ch, Word
  <1>2. HasNext => cmdline[cur + 1] \in Characters
    BY DEF ArgvTypes, Turn, HasNext, Word
  <1>3. InWord \in Modes
    BY DEF InWord, ArgvTypes, Modes
  <1>4. Pending \in Word
    BY PendingIsWord
  <1>5. "bs" \in Characters
    BY DimcliArgvAssumption
  <1>6. arg \in Seq(Characters) /\ Pending \in Seq(Characters)
    BY <1>4 DEF ArgvTypes, Word
  <1>7. Append(Pending, ch) \in Seq(Characters) /\ Append(arg, "bs") \in Seq(Characters)
    BY <1>1, <1>5, <1>6, AppendIsWord
  <1>8. Append(out, Pending) \in Seq(Word)
    BY <1>4, AppendIsWord DEF ArgvTypes
  <1> QED
    BY <1>1, <1>2, <1>3, <1>4, <1>7, <1>8 DEF Word

LEMMA SeparatorTypes ==
  ASSUME ArgvTypes, Turn, NEW S, Separator(S)
  PROVE  ArgvTypes'
  <1>1. <<>> \in Word
    BY DEF Word
  <1> QED
    BY <1>1, TurnTypes DEF ArgvTypes, Turn, fixed, Separator, Modes

LEMMA OpenQuoteTypes ==
  ASSUME ArgvTypes, Turn, OpenQuote(Quotes)
  PROVE  ArgvTypes'
  BY DEF ArgvTypes, Turn, fixed, OpenQuote, Modes, ch

LEMMA CloseQuoteTypes ==
  ASSUME ArgvTypes, Turn, CloseQuote
  PROVE  ArgvTypes'
  BY DEF ArgvTypes, Turn, fixed, CloseQuote, Modes

LEMMA LiteralTypes ==
  ASSUME ArgvTypes, Turn, NEW S, Literal(S)
  PROVE  ArgvTypes'
  BY TurnTypes DEF ArgvTypes, Turn, fixed, Literal

LEMMA EscapedTypes ==
  ASSUME ArgvTypes, Turn, NEW s, NEW m, HasNext => s \in Word /\ m \in Modes, Escaped(s, m)
  PROVE  ArgvTypes'
  <1>0. Len(cmdline) \in Nat
    BY DEF ArgvTypes, Word
  <1>1. CASE HasNext
    <2>1. arg \o s \in Word
      BY <1>1, JoinIsWord DEF ArgvTypes, Word
    <2>2. arg' \in Word /\ mode' \in Modes /\ cur' = cur + 2
      BY <1>1, <2>1 DEF Escaped
    <2>3. cur' \in 1 .. Len(cmdline) + 1 /\ backslashes \in 0 .. cur' - 1
      BY <1>0, <1>1, <2>2 DEF HasNext, ArgvTypes
    <2> QED
      BY <2>2, <2>3 DEF ArgvTypes, Turn, fixed, Escaped
  <1>2. CASE ~HasNext
    <2>1. arg' \in Word /\ mode' \in Modes /\ cur' = cur + 1
      BY <1>2, TurnTypes DEF Escaped
    <2>2. cur' \in 1 .. Len(cmdline) + 1 /\ backslashes \in 0 .. cur' - 1
      BY <1>0, <2>1 DEF ArgvTypes, Turn
    <2> QED
      BY <2>1, <2>2 DEF ArgvTypes, Turn, fixed, Escaped
  <1> QED
    BY <1>1, <1>2

LEMMA GlibCommentTypes ==
  ASSUME ArgvTypes, Turn, GlibComment
  PROVE  ArgvTypes'
  BY DEF ArgvTypes, Turn, fixed, GlibComment, Modes

LEMMA WindowsBackslashTypes ==
  ASSUME ArgvTypes, Turn, WindowsBackslash
  PROVE  ArgvTypes'
  BY TurnTypes DEF ArgvTypes, Turn, fixed, WindowsBackslash

LEMMA WindowsQuoteTypes ==
  ASSUME ArgvTypes, Turn, WindowsQuote
  PROVE  ArgvTypes'
  <1> DEFINE half == [k \in 1 .. backslashes \div 2 |-> "bs"]
  <1>1. "bs" \in Characters /\ "dq" \in Characters
    BY DimcliArgvAssumption DEF Quotes
  <1>2. backslashes \div 2 \in Nat
    BY DEF ArgvTypes
  <1>3. half \in Seq(Characters)
    BY <1>1, <1>2, RepeatedIsWord
  <1>4. \/ arg' = Append(arg \o half, "dq") /\ UNCHANGED mode
        \/ arg' = arg \o half /\ mode' \in Modes
    BY DEF WindowsQuote, Modes
  <1> HIDE DEF half
  <1>5. arg \o half \in Seq(Characters)
    BY <1>3, JoinIsWord DEF ArgvTypes, Word
  <1>6. Append(arg \o half, "dq") \in Seq(Characters)
    BY <1>1, <1>5, AppendIsWord
  <1>7. arg' \in Word /\ mode' \in Modes
    BY <1>4, <1>5, <1>6 DEF ArgvTypes, Word
  <1> QED
    BY <1>7 DEF ArgvTypes, Turn, fixed, WindowsQuote

LEMMA GlibEscapeTypes ==
  ASSUME ArgvTypes, Turn, GlibEscape
  PROVE  ArgvTypes'
  <1> DEFINE next == cmdline[cur + 1]
             kept == CASE next \in {"$", "sq", "dq", "bs"} -> <<next>>
                       [] next = "nl"                      -> <<>>
                       [] OTHER                            -> <<"bs", next>>
  <1>1. "bs" \in Characters
    BY DimcliArgvAssumption
  <1>2. HasNext => /\ <<next>> \in Word
                   /\ <<>> \in Word
                   /\ <<"bs", next>> \in Word
    BY <1>1, TurnTypes DEF Word
  <1>3. HasNext => kept \in Word
    BY <1>2
  <1>4. \/ Escaped(<<>>, mode) /\ HasNext
        \/ Escaped(<<next>>, InWord)
        \/ Escaped(kept, mode)
    BY DEF GlibEscape
  <1>5. mode \in Modes /\ InWord \in Modes
    BY TurnTypes DEF ArgvTypes
  <1> HIDE DEF kept, next
  <1> QED
    BY <1>2, <1>3, <1>4, <1>5, EscapedTypes

LEMMA SplitTypes ==
  ASSUME ArgvTypes, Split
  PROVE  ArgvTypes'
  <1>1. Turn
    BY DEF Split, Turn
  <1>2. CASE toGnuArgv
    <2>1. HasNext => <<cmdline[cur + 1]>> \in Word
      BY <1>1, TurnTypes DEF Word
    <2>2. InWord \in Modes
      BY <1>1, TurnTypes
    <2> QED
      BY <1>1, <1>2, <2>1, <2>2, EscapedTypes, OpenQuoteTypes, CloseQuoteTypes, SeparatorTypes,
         LiteralTypes DEF toGnuArgv
  <1>3. CASE toGlibArgv
    BY <1>1, <1>3, GlibEscapeTypes, GlibCommentTypes, OpenQuoteTypes, CloseQuoteTypes,
       SeparatorTypes, LiteralTypes DEF toGlibArgv
  <1>4. CASE toWindowsArgv
    BY <1>1, <1>4, WindowsBackslashTypes, WindowsQuoteTypes, SeparatorTypes,
       LiteralTypes DEF toWindowsArgv
  <1> QED
    BY <1>2, <1>3, <1>4 DEF Split

LEMMA NextTypes ==
  ASSUME ArgvTypes, [Next]_argvVars
  PROVE  ArgvTypes'
  <1>1. CASE toCmdline
    <2>1. cmdline' \in Word
      BY <1>1, JoinedIsLine DEF toCmdline, ArgvTypes
    <2>2. Len(cmdline') \in Nat
      BY <2>1 DEF Word
    <2> QED
      BY <1>1, <2>1, <2>2 DEF toCmdline, ArgvTypes
  <1>2. CASE Split
    BY <1>2, SplitTypes
  <1>3. CASE EndOfLine
    <2>1. <<>> \in Word /\ Len(cmdline) \in Nat
      BY DEF Word, ArgvTypes
    <2>2. Append(out, Pending) \in Seq(Word)
      BY PendingIsWord, AppendIsWord DEF ArgvTypes
    <2> QED
      BY <1>3, <2>1, <2>2 DEF EndOfLine, ArgvTypes
  <1>4. CASE UNCHANGED argvVars
    BY <1>4 DEF argvVars, ArgvTypes
  <1> QED
    BY <1>1, <1>2, <1>3, <1>4 DEF Next

LEMMA InitTypes ==
  ASSUME Init
  PROVE  ArgvTypes
  <1>1. <<>> \in Word /\ <<>> \in Seq(Word)
    BY DEF Word
  <1>2. convention \in {"gnu", "glib", "windows"}
    BY DimcliArgvAssumption DEF Init
  <1>3. given \in Seq(Word) /\ cmdline \in Word
    BY <1>1, DimcliArgvAssumption DEF Init, Word
  <1>4. Len(cmdline) \in Nat
    BY <1>3 DEF Word
  <1> QED
    BY <1>1, <1>2, <1>3, <1>4 DEF Init, ArgvTypes, Modes

THEOREM ArgvTypesHold == Spec => []ArgvTypes
  <1>1. Init => ArgvTypes
    BY InitTypes
  <1>2. ArgvTypes /\ [Next]_argvVars => ArgvTypes'
    BY NextTypes
  <1> QED
    BY <1>1, <1>2, PTL DEF Spec

\* For all lines and lists of arguments the reader stays on the line and its counters in
\* range (toGnuArgv, toGlibArgv, toWindowsArgv, cli.cpp:1538).
THEOREM ArgvTypeCorrect == Spec => []ArgvTypeOK
  <1>1. ArgvTypes => ArgvTypeOK
    <2>1. ArgvTypes => Len(cmdline) \in Nat
      BY DEF ArgvTypes, Word
    <2> QED
      BY <2>1 DEF ArgvTypes, ArgvTypeOK, Modes
  <1> QED
    BY <1>1, ArgvTypesHold, PTL

-----------------------------------------------------------------------------
(***************************************************************************)
(* White space in arguments.  Until a character that may bring white space *)
(* in was read, no quote is open and every word is free of it; afterwards  *)
(* nothing has to be kept, since what was read stays read.                 *)
(***************************************************************************)
Barred   == IF convention = "windows" THEN Blank ELSE White
Bringers == IF convention = "windows" THEN {"dq"} ELSE Quotes \cup {"bs"}
Brought  == \E i \in 1 .. cur - 1 : cmdline[i] \in Bringers

Bare(w) == \A i \in DOMAIN w : w[i] \notin Barred

AllBare == mode # "quoted" /\ Bare(arg) /\ \A k \in DOMAIN out : Bare(out[k])

BareIInv ==
  /\ mode = "comment" => convention = "glib"
  /\ Brought \/ AllBare

LEMMA BareAppend ==
  ASSUME NEW w \in Word, NEW c \in Characters, Bare(w), c \notin Barred
  PROVE  Bare(Append(w, c))
  <1>1. w \in Seq(Characters)
    BY DEF Word
  <1>2. \A i \in DOMAIN Append(w, c) : Append(w, c)[i] = c \/ (i \in DOMAIN w /\ Append(w, c)[i] = w[i])
    BY <1>1
  <1> QED
    BY <1>2 DEF Bare

LEMMA BareConcat ==
  ASSUME NEW w \in Word, NEW v \in Word, Bare(w), Bare(v)
  PROVE  Bare(w \o v)
  <1>1. w \in Seq(Characters) /\ v \in Seq(Characters)
    BY DEF Word
  <1>2. ASSUME NEW i \in DOMAIN (w \o v)
        PROVE  (w \o v)[i] \notin Barred
    <2>1. CASE i <= Len(w)
      <3>1. i \in DOMAIN w /\ (w \o v)[i] = w[i]
        BY <1>1, <2>1
      <3> QED
        BY <3>1 DEF Bare
    <2>2. CASE i > Len(w)
      <3>1. i - Len(w) \in DOMAIN v /\ (w \o v)[i] = v[i - Len(w)]
        BY <1>1, <2>2
      <3> QED
        BY <3>1 DEF Bare
    <2>3. i \in Nat /\ Len(w) \in Nat
      BY <1>1
    <2> QED
      BY <2>1, <2>2, <2>3
  <1> QED
    BY <1>2 DEF Bare

LEMMA BareRun ==
  ASSUME NEW n \in Nat
  PROVE  /\ [k \in 1 .. n |-> "bs"] \in Word
         /\ Bare([k \in 1 .. n |-> "bs"])
  <1>1. "bs" \in Characters
    BY DimcliArgvAssumption
  <1>2. [k \in 1 .. n |-> "bs"] \in Word
    BY <1>1, RepeatedIsWord DEF Word
  <1>3. "bs" \notin Barred
    BY DEF Barred, White, Blank
  <1> QED
    BY <1>2, <1>3 DEF Bare

LEMMA BarePending ==
  ASSUME ArgvTypes, Bare(arg)
  PROVE  Bare(Pending)
  <1> DEFINE run == [k \in 1 .. backslashes |-> "bs"]
  <1>1. backslashes \in Nat
    BY DEF ArgvTypes
  <1>2. run \in Word /\ Bare(run)
    BY <1>1, BareRun
  <1>3. Pending = arg \o run
    BY DEF Pending
  <1> HIDE DEF run
  <1> QED
    BY <1>2, <1>3, BareConcat DEF ArgvTypes

LEMMA BareOut ==
  ASSUME ArgvTypes, Bare(arg), \A k \in DOMAIN out : Bare(out[k])
  PROVE  \A k \in DOMAIN Append(out, Pending) : Bare(Append(out, Pending)[k])
  <1>1. Bare(Pending)
    BY BarePending
  <1>2. \A k \in DOMAIN Append(out, Pending) :
          Append(out, Pending)[k] = Pending \/ (k \in DOMAIN out /\ Append(out, Pending)[k] = out[k])
    BY DEF ArgvTypes
  <1> QED
    BY <1>1, <1>2

LEMMA SameBringers ==
  ASSUME Turn
  PROVE  Bringers' = Bringers /\ cmdline' = cmdline
  BY DEF Turn, fixed, Bringers

LEMMA FurtherPlaces ==
  ASSUME NEW m \in Nat, NEW n \in Nat, n >= m
  PROVE  /\ 1 .. m - 1 \subseteq 1 .. n - 1
         /\ m > 0 /\ n > m => m \in 1 .. n - 1
  OBVIOUS

LEMMA CurIsNat ==
  /\ ArgvTypes  => cur \in Nat /\ cur > 0
  /\ ArgvTypes' => cur' \in Nat
  <1>1. ArgvTypes => Len(cmdline) \in Nat
    BY DEF ArgvTypes, Word
  <1>2. ArgvTypes' => Len(cmdline') \in Nat
    BY DEF ArgvTypes, Word
  <1> QED
    BY <1>1, <1>2 DEF ArgvTypes

LEMMA StaysBrought ==
  ASSUME ArgvTypes, Turn, Brought, ArgvTypes', cur' >= cur
  PROVE  Brought'
  <1>1. cur \in Nat /\ cur' \in Nat
    BY CurIsNat
  <1>2. PICK i \in 1 .. cur - 1 : cmdline[i] \in Bringers
    BY DEF Brought
  <1>3. i \in 1 .. cur' - 1
    BY <1>1, <1>2, FurtherPlaces
  <1> QED
    BY <1>2, <1>3, SameBringers DEF Brought

LEMMA IsBrought ==
  ASSUME ArgvTypes, Turn, ArgvTypes', cur' > cur, ch \in Bringers
  PROVE  Brought'
  <1>1. cur \in 1 .. cur' - 1
    BY CurIsNat, FurtherPlaces
  <1>2. cmdline'[cur] \in Bringers'
    BY SameBringers DEF ch
  <1> QED
    BY <1>1, <1>2 DEF Brought

\* Where words of the next state are bare they are by the same convention.
LEMMA SameBarred ==
  ASSUME Turn
  PROVE  Barred' = Barred /\ convention' = convention
  BY DEF Turn, fixed, Barred

LEMMA SeparatorBare ==
  ASSUME ArgvTypes, Turn, ArgvTypes', BareIInv, NEW S, Separator(S)
  PROVE  BareIInv'
  <1>1. mode' = "gap" /\ cur' = cur + 1
    BY DEF Separator
  <1>2. Brought => Brought'
    BY <1>1, StaysBrought DEF ArgvTypes
  <1>3. ASSUME AllBare
        PROVE  AllBare'
    <2>1. \A k \in DOMAIN out' : Bare(out'[k])
      BY <1>3, BareOut DEF AllBare, Separator
    <2>2. Bare(arg')
      BY DEF Bare, Separator
    <2> QED
      BY <1>1, <2>1, <2>2, SameBarred DEF AllBare, Bare
  <1> QED
    BY <1>1, <1>2, <1>3 DEF BareIInv

LEMMA OpenQuoteBare ==
  ASSUME ArgvTypes, Turn, ArgvTypes', BareIInv, convention # "windows", OpenQuote(Quotes)
  PROVE  BareIInv'
  <1>1. mode' = "quoted" /\ cur' = cur + 1 /\ ch \in Bringers
    BY DEF OpenQuote, Bringers
  <1>2. Brought'
    BY <1>1, IsBrought DEF ArgvTypes
  <1> QED
    BY <1>1, <1>2 DEF BareIInv

LEMMA CloseQuoteBare ==
  ASSUME ArgvTypes, Turn, ArgvTypes', BareIInv, CloseQuote
  PROVE  BareIInv'
  <1>1. mode = "quoted" /\ mode' = "unquoted" /\ cur' = cur + 1
    BY DEF CloseQuote
  <1>2. Brought
    BY <1>1 DEF BareIInv, AllBare
  <1>3. Brought'
    BY <1>1, <1>2, StaysBrought DEF ArgvTypes
  <1> QED
    BY <1>1, <1>3 DEF BareIInv

LEMMA LiteralBare ==
  ASSUME ArgvTypes, Turn, ArgvTypes', BareIInv, NEW S, Literal(S),
         mode # "comment", Outside => Barred \subseteq S
  PROVE  BareIInv'
  <1>1. cur' = cur + 1 /\ mode' = InWord /\ out' = out
    BY DEF Literal
  <1>2. mode' # "comment" /\ (mode # "quoted" => mode' # "quoted" /\ Outside)
    BY <1>1 DEF InWord, Outside, ArgvTypes, Modes
  <1>3. Brought => Brought'
    BY <1>1, StaysBrought DEF ArgvTypes
  <1>4. ASSUME AllBare
        PROVE  AllBare'
    <2>1. ch \notin Barred
      BY <1>2, <1>4 DEF AllBare, Literal
    <2>2. Bare(Pending) /\ Pending \in Word /\ ch \in Characters
      BY <1>4, BarePending, TurnTypes DEF AllBare
    <2>3. Bare(Append(Pending, ch))
      BY <2>1, <2>2, BareAppend
    <2>4. Bare(arg')
      BY <2>3 DEF Literal
    <2> QED
      BY <1>1, <1>2, <1>4, <2>4, SameBarred DEF AllBare, Bare
  <1> QED
    BY <1>2, <1>3, <1>4 DEF BareIInv

LEMMA EscapedBare ==
  ASSUME ArgvTypes, Turn, ArgvTypes', BareIInv, convention # "windows",
         NEW s, NEW m, HasNext => m # "comment", Escaped(s, m), mode # "comment"
  PROVE  BareIInv'
  <1>1. ch \in Bringers
    BY DEF Escaped, Bringers
  <1>2. cur' > cur /\ mode' # "comment"
    BY DEF Escaped, ArgvTypes, InWord
  <1>3. Brought'
    BY <1>1, <1>2, IsBrought
  <1> QED
    BY <1>2, <1>3 DEF BareIInv

LEMMA GlibCommentBare ==
  ASSUME ArgvTypes, Turn, ArgvTypes', BareIInv, convention = "glib", GlibComment
  PROVE  BareIInv'
  <1>1. cur' = cur + 1 /\ arg' = arg /\ out' = out /\ mode' # "quoted"
    BY DEF GlibComment
  <1>2. Brought => Brought'
    BY <1>1, StaysBrought DEF ArgvTypes
  <1>3. AllBare => AllBare'
    BY <1>1, SameBarred DEF AllBare, Bare
  <1> QED
    BY <1>2, <1>3, SameBarred DEF BareIInv

LEMMA WindowsBackslashBare ==
  ASSUME ArgvTypes, Turn, ArgvTypes', BareIInv, mode # "comment", WindowsBackslash
  PROVE  BareIInv'
  <1>1. cur' = cur + 1 /\ arg' = arg /\ out' = out /\ mode' = InWord
    BY DEF WindowsBackslash
  <1>2. Brought => Brought'
    BY <1>1, StaysBrought DEF ArgvTypes
  <1>3. mode' # "comment" /\ (mode # "quoted" => mode' # "quoted")
    BY <1>1 DEF InWord
  <1>4. AllBare => AllBare'
    BY <1>1, <1>3, SameBarred DEF AllBare, Bare
  <1> QED
    BY <1>2, <1>3, <1>4 DEF BareIInv

LEMMA WindowsQuoteBare ==
  ASSUME ArgvTypes, Turn, ArgvTypes', BareIInv, convention = "windows", WindowsQuote
  PROVE  BareIInv'
  <1>1. ch \in Bringers /\ cur' = cur + 1
    BY DEF WindowsQuote, Bringers
  <1>2. Brought'
    BY <1>1, IsBrought DEF ArgvTypes
  <1>3. mode' = "comment" => mode = "comment"
    BY DEF WindowsQuote
  <1> QED
    BY <1>2, <1>3, SameBarred DEF BareIInv

LEMMA GlibEscapeBare ==
  ASSUME ArgvTypes, Turn, ArgvTypes', BareIInv, convention = "glib", GlibEscape
  PROVE  BareIInv'
  <1> DEFINE next == cmdline[cur + 1]
             kept == CASE next \in {"$", "sq", "dq", "bs"} -> <<next>>
                       [] next = "nl"                      -> <<>>
                       [] OTHER                            -> <<"bs", next>>
  <1>1. \/ Escaped(<<>>, mode)
        \/ Escaped(<<next>>, InWord)
        \/ Escaped(kept, mode)
    BY DEF GlibEscape
  <1>2. mode # "comment" /\ InWord # "comment"
    BY DEF GlibEscape, Outside, InWord
  <1> HIDE DEF kept, next
  <1> QED
    BY <1>1, <1>2, EscapedBare

LEMMA SplitBare ==
  ASSUME ArgvTypes, ArgvTypes', BareIInv, Split
  PROVE  BareIInv'
  <1>1. Turn
    BY DEF Split, Turn
  <1>2. CASE convention = "gnu" /\ toGnuArgv
    <2>1. mode # "comment" /\ InWord # "comment"
      BY <1>2 DEF BareIInv, InWord
    <2>2. CASE Escaped(<<cmdline[cur + 1]>>, InWord)
      BY <1>1, <1>2, <2>1, <2>2, EscapedBare
    <2>3. CASE OpenQuote(Quotes)
      BY <1>1, <1>2, <2>3, OpenQuoteBare
    <2>4. CASE CloseQuote
      BY <1>1, <2>4, CloseQuoteBare
    <2>5. CASE Separator(White)
      BY <1>1, <2>5, SeparatorBare
    <2>6. CASE Literal({"bs"} \cup IF Outside THEN Quotes \cup White ELSE {quote})
      <3>1. Outside => Barred \subseteq ({"bs"} \cup IF Outside THEN Quotes \cup White ELSE {quote})
        BY <1>2 DEF Barred
      <3> QED
        BY <1>1, <2>1, <2>6, <3>1, LiteralBare
    <2> QED
      BY <1>2, <2>2, <2>3, <2>4, <2>5, <2>6 DEF toGnuArgv
  <1>3. CASE convention = "glib" /\ toGlibArgv
    <2> DEFINE special ==
                 CASE mode = "gap"      -> {"bs", "#"} \cup Quotes \cup White
                   [] mode = "unquoted" -> {"bs"} \cup Quotes \cup White
                   [] mode = "quoted"   -> IF quote = "dq" THEN {"bs", "dq"} ELSE {"sq"}
    <2>1. CASE GlibEscape
      BY <1>1, <1>3, <2>1, GlibEscapeBare
    <2>2. CASE GlibComment
      BY <1>1, <1>3, <2>2, GlibCommentBare
    <2>3. CASE OpenQuote(Quotes)
      BY <1>1, <1>3, <2>3, OpenQuoteBare
    <2>4. CASE CloseQuote
      BY <1>1, <2>4, CloseQuoteBare
    <2>5. CASE Separator(White)
      BY <1>1, <2>5, SeparatorBare
    <2>6. CASE mode # "comment" /\ Literal(special)
      <3>1. Outside => Barred \subseteq special
        BY <1>3 DEF Barred, Outside
      <3> HIDE DEF special
      <3> QED
        BY <1>1, <2>6, <3>1, LiteralBare
    <2> QED
      BY <1>3, <2>1, <2>2, <2>3, <2>4, <2>5, <2>6 DEF toGlibArgv
  <1>4. CASE convention = "windows" /\ toWindowsArgv
    <2>1. mode # "comment"
      BY <1>4 DEF BareIInv
    <2>2. CASE WindowsBackslash
      BY <1>1, <2>1, <2>2, WindowsBackslashBare
    <2>3. CASE WindowsQuote
      BY <1>1, <1>4, <2>3, WindowsQuoteBare
    <2>4. CASE Separator(Blank)
      BY <1>1, <2>4, SeparatorBare
    <2>5. CASE Literal({"bs", "dq"} \cup IF Outside THEN Blank ELSE {})
      <3>1. Outside => Barred \subseteq ({"bs", "dq"} \cup IF Outside THEN Blank ELSE {})
        BY <1>4 DEF Barred
      <3> QED
        BY <1>1, <2>1, <2>5, <3>1, LiteralBare
    <2> QED
      BY <1>4, <2>2, <2>3, <2>4, <2>5 DEF toWindowsArgv
  <1> QED
    BY <1>2, <1>3, <1>4 DEF Split

LEMMA NextBare ==
  ASSUME ArgvTypes, BareIInv, [Next]_argvVars
  PROVE  BareIInv'
  <1>1. CASE toCmdline
    <2>1. mode' = "gap" /\ arg' = <<>> /\ out' = <<>>
      BY <1>1 DEF toCmdline, ArgvTypes
    <2> QED
      BY <2>1 DEF BareIInv, AllBare, Bare
  <1>2. CASE Split
    BY <1>2, NextTypes, SplitBare DEF Next
  <1>3. CASE EndOfLine
    <2>1. UNCHANGED <<convention, cmdline, cur, mode>> /\ arg' = <<>>
      BY <1>3 DEF EndOfLine
    <2>2. Brought => Brought'
      BY <2>1 DEF Brought, Bringers
    <2>3. ASSUME AllBare
          PROVE  AllBare'
      <3>1. \A k \in DOMAIN out' : Bare(out'[k])
        BY <1>3, <2>3, BareOut DEF AllBare, EndOfLine
      <3> QED
        BY <2>1, <2>3, <3>1 DEF AllBare, Bare, Barred
    <2> QED
      BY <2>1, <2>2, <2>3 DEF BareIInv
  <1>4. CASE UNCHANGED argvVars
    BY <1>4 DEF argvVars, BareIInv, Brought, Bringers, AllBare, Bare, Barred
  <1> QED
    BY <1>1, <1>2, <1>3, <1>4 DEF Next

\* For all lines and lists of arguments, white space is in an argument only after a quote
\* or a backslash, for Windows a double quote (toGnuArgv, toGlibArgv, toWindowsArgv).
THEOREM WhiteIsBrought == Spec => []NoBareWhite
  <1>1. Init => BareIInv
    BY DEF Init, BareIInv, AllBare, Bare
  <1>2. ArgvTypes /\ BareIInv /\ [Next]_argvVars => BareIInv'
    BY NextBare
  <1>3. ASSUME ArgvTypes, BareIInv
        PROVE  NoBareWhite
    <2>1. ASSUME NEW w \in {arg} \cup ToSet(out), Bare(w)
          PROVE  ToSet(w) \cap Barred = {}
      BY <2>1 DEF Bare, ToSet
    <2>2. AllBare => \A w \in {arg} \cup ToSet(out) : Bare(w)
      BY DEF AllBare, ToSet
    <2> QED
      BY <1>3, <2>1, <2>2 DEF BareIInv, NoBareWhite, Brought, Bringers, Barred
  <1> QED
    BY <1>1, <1>2, <1>3, ArgvTypesHold, PTL DEF Spec

-----------------------------------------------------------------------------
(***************************************************************************)
(* The rules of GNU.  EscapedAt and Open are functions defined by their    *)
(* value at the place before; both exist and obey their equations.         *)
(***************************************************************************)
EscapedStep(l, e, i) == i > 1 /\ l[i - 1] = "bs" /\ ~e[i - 1]

EscapedUpTo(l, e, n) ==
  /\ e = [i \in 0 .. n |-> e[i]]
  /\ \A i \in 0 .. n : e[i] = EscapedStep(l, e, i)

OpenStep(l, o, i) ==
  CASE i = 0                                     -> "none"
    [] i > 0 /\ l[i] \in Quotes /\ ~EscapedAt(l)[i] /\ o[i - 1] = "none" -> l[i]
    [] i > 0 /\ l[i] = o[i - 1] /\ ~EscapedAt(l)[i]                      -> "none"
    [] OTHER                                     -> o[i - 1]

OpenUpTo(l, o, n) ==
  /\ o = [i \in 0 .. n |-> o[i]]
  /\ \A i \in 0 .. n : o[i] = OpenStep(l, o, i)

LEMMA EscapedMore ==
  ASSUME NEW l, NEW e, NEW n \in Nat, EscapedUpTo(l, e, n)
  PROVE  \E f : EscapedUpTo(l, f, n + 1)
  <1> DEFINE f == [i \in 0 .. n + 1 |-> IF i = n + 1 THEN EscapedStep(l, e, i) ELSE e[i]]
  <1>1. f = [i \in 0 .. n + 1 |-> f[i]]
    OBVIOUS
  <1>2. ASSUME NEW i \in 0 .. n + 1
        PROVE  f[i] = EscapedStep(l, f, i)
    <2>1. f[i] = EscapedStep(l, e, i)
      BY DEF EscapedUpTo
    <2>2. i > 1 => i - 1 \in 0 .. n /\ i - 1 \in 0 .. n + 1 /\ i - 1 # n + 1
      OBVIOUS
    <2>3. i > 1 => f[i - 1] = e[i - 1]
      BY <2>2
    <2> HIDE DEF f
    <2> QED
      BY <2>1, <2>3 DEF EscapedStep
  <1> HIDE DEF f
  <1> QED
    BY <1>1, <1>2 DEF EscapedUpTo

LEMMA OpenMore ==
  ASSUME NEW l, NEW o, NEW n \in Nat, OpenUpTo(l, o, n)
  PROVE  \E f : OpenUpTo(l, f, n + 1)
  <1> DEFINE f == [i \in 0 .. n + 1 |-> IF i = n + 1 THEN OpenStep(l, o, i) ELSE o[i]]
  <1>1. f = [i \in 0 .. n + 1 |-> f[i]]
    OBVIOUS
  <1>2. ASSUME NEW i \in 0 .. n + 1
        PROVE  f[i] = OpenStep(l, f, i)
    <2>1. f[i] = OpenStep(l, o, i)
      BY DEF OpenUpTo
    <2>2. i # 0 => i > 0 /\ i - 1 \in 0 .. n /\ i - 1 \in 0 .. n + 1 /\ i - 1 # n + 1
      OBVIOUS
    <2>3. i # 0 => f[i - 1] = o[i - 1]
      BY <2>2
    <2> HIDE DEF f
    <2> QED
      BY <2>1, <2>2, <2>3 DEF OpenStep
  <1> HIDE DEF f
  <1> QED
    BY <1>1, <1>2 DEF OpenUpTo

LEMMA EscapedAll ==
  ASSUME NEW l, NEW n \in Nat
  PROVE  \E e : EscapedUpTo(l, e, n)
  <1> DEFINE T == {k \in Nat : ~\E e : EscapedUpTo(l, e, k)}
  <1>1. ASSUME T # {}
        PROVE  FALSE
    <2>1. PICK k \in T : \A m \in Nat : m < k => m \notin T
      BY <1>1, LeastOne
    <2>2. CASE k = 0
      <3> DEFINE none == [i \in 0 .. 0 |-> FALSE]
      <3>1. EscapedStep(l, none, 0) = FALSE
        BY DEF EscapedStep
      <3>2. none = [i \in 0 .. 0 |-> none[i]] /\ none[0] = FALSE
        OBVIOUS
      <3> HIDE DEF none
      <3>3. \A i \in 0 .. 0 : i = 0
        OBVIOUS
      <3>4. EscapedUpTo(l, none, 0)
        BY <3>1, <3>2, <3>3 DEF EscapedUpTo
      <3> QED
        BY <2>1, <2>2, <3>4
    <2>3. CASE k > 0
      <3>1. k - 1 \in Nat /\ k - 1 < k /\ (k - 1) + 1 = k
        BY <2>3
      <3>2. PICK e : EscapedUpTo(l, e, k - 1)
        BY <2>1, <3>1
      <3>3. \E f : EscapedUpTo(l, f, (k - 1) + 1)
        BY <3>1, <3>2, EscapedMore
      <3> QED
        BY <2>1, <3>1, <3>3
    <2> QED
      BY <2>1, <2>2, <2>3
  <1> QED
    BY <1>1

LEMMA OpenAll ==
  ASSUME NEW l, NEW n \in Nat
  PROVE  \E o : OpenUpTo(l, o, n)
  <1> DEFINE T == {k \in Nat : ~\E o : OpenUpTo(l, o, k)}
  <1>1. ASSUME T # {}
        PROVE  FALSE
    <2>1. PICK k \in T : \A m \in Nat : m < k => m \notin T
      BY <1>1, LeastOne
    <2>2. CASE k = 0
      <3>1. OpenUpTo(l, [i \in 0 .. 0 |-> "none"], 0)
        BY DEF OpenUpTo, OpenStep
      <3> QED
        BY <2>1, <2>2, <3>1
    <2>3. CASE k > 0
      <3>1. k - 1 \in Nat /\ k - 1 < k /\ (k - 1) + 1 = k
        BY <2>3
      <3>2. PICK o : OpenUpTo(l, o, k - 1)
        BY <2>1, <3>1
      <3>3. \E f : OpenUpTo(l, f, (k - 1) + 1)
        BY <3>1, <3>2, OpenMore
      <3> QED
        BY <2>1, <3>1, <3>3
    <2> QED
      BY <2>1, <2>2, <2>3
  <1> QED
    BY <1>1

LEMMA EscapedEquation ==
  ASSUME NEW l, Len(l) \in Nat
  PROVE  /\ ~EscapedAt(l)[0]
         /\ \A i \in 1 .. Len(l) : EscapedAt(l)[i] <=> i > 1 /\ l[i - 1] = "bs" /\ ~EscapedAt(l)[i - 1]
  <1> DEFINE Is(g) == g = [i \in 0 .. Len(l) |-> i > 1 /\ l[i - 1] = "bs" /\ ~g[i - 1]]
             e == CHOOSE g : Is(g)
  <1>1. PICK g : EscapedUpTo(l, g, Len(l))
    BY EscapedAll
  <1>2. Is(g)
    BY <1>1 DEF EscapedUpTo, EscapedStep
  <1>3. Is(e)
    BY <1>2
  <1>4. EscapedAt(l) = e
    BY DEF EscapedAt
  <1> HIDE DEF e
  <1>5. \A i \in 0 .. Len(l) : e[i] = (i > 1 /\ l[i - 1] = "bs" /\ ~e[i - 1])
    BY <1>3
  <1>6. \A i \in 0 .. Len(l) : e[i] <=> i > 1 /\ l[i - 1] = "bs" /\ ~e[i - 1]
    BY <1>5
  <1>7. 0 \in 0 .. Len(l) /\ ~(0 > 1)
    OBVIOUS
  <1>8. ~e[0]
    BY <1>6, <1>7
  <1>9. \A i \in 1 .. Len(l) : i \in 0 .. Len(l)
    OBVIOUS
  <1> QED
    BY <1>4, <1>6, <1>8, <1>9

LEMMA OpenEquation ==
  ASSUME NEW l, Len(l) \in Nat
  PROVE  \A i \in 0 .. Len(l) : Open(l)[i] = OpenStep(l, Open(l), i)
  <1> DEFINE Is(g) == g = [i \in 0 .. Len(l) |->
        CASE i = 0                                     -> "none"
          [] i > 0 /\ l[i] \in Quotes /\ ~EscapedAt(l)[i] /\ g[i - 1] = "none" -> l[i]
          [] i > 0 /\ l[i] = g[i - 1] /\ ~EscapedAt(l)[i]                      -> "none"
          [] OTHER                                     -> g[i - 1]]
             o == CHOOSE g : Is(g)
  <1>1. PICK g : OpenUpTo(l, g, Len(l))
    BY OpenAll
  <1>2. Is(g)
    BY <1>1 DEF OpenUpTo, OpenStep
  <1>3. Is(o)
    BY <1>2
  <1>4. Open(l) = o
    BY DEF Open
  <1>5. \A i \in 0 .. Len(l) : o[i] = OpenStep(l, o, i)
    BY <1>3 DEF OpenStep
  <1> HIDE DEF o
  <1> QED
    BY <1>4, <1>5

-----------------------------------------------------------------------------
(***************************************************************************)
(* Counting.  Number(S, n) grows by one at each member of S.               *)
(***************************************************************************)
LEMMA NumberIsNat ==
  ASSUME NEW S, S \subseteq Nat, NEW n \in Nat
  PROVE  IsFiniteSet({q \in S : q <= n}) /\ Number(S, n) \in Nat
  <1> DEFINE T == {q \in S : q <= n}
  <1>1. \A q \in S : q <= n => q \in 0 .. n
    OBVIOUS
  <1>2. T \subseteq 0 .. n
    BY <1>1
  <1>3. IsFiniteSet(0 .. n)
    BY FS_Interval
  <1>4. Number(S, n) = Cardinality(T)
    BY DEF Number
  <1> HIDE DEF T
  <1>5. IsFiniteSet(T)
    BY <1>2, <1>3, FS_Subset
  <1>6. Cardinality(T) \in Nat
    BY <1>5, FS_CardinalityType
  <1> QED
    BY <1>4, <1>5, <1>6 DEF T

LEMMA NumberNext ==
  ASSUME NEW S, S \subseteq Nat, NEW n \in Nat
  PROVE  Number(S, n + 1) = IF n + 1 \in S THEN Number(S, n) + 1 ELSE Number(S, n)
  <1> DEFINE T == {q \in S : q <= n}
             U == {q \in S : q <= n + 1}
  <1>1. ~(n + 1 <= n) /\ n + 1 <= n + 1 /\ \A q \in S : q <= n + 1 <=> q <= n \/ q = n + 1
    OBVIOUS
  <1>2. n + 1 \notin T /\ \A q : q \in U <=> q \in T \/ (q \in S /\ q = n + 1)
    BY <1>1
  <1>3. IsFiniteSet(T)
    BY NumberIsNat
  <1>4. Number(S, n) = Cardinality(T) /\ Number(S, n + 1) = Cardinality(U)
    BY DEF Number
  <1> HIDE DEF T, U
  <1>5. CASE n + 1 \in S
    <2>1. U = T \cup {n + 1}
      BY <1>2, <1>5
    <2>2. Cardinality(T \cup {n + 1}) = Cardinality(T) + 1
      BY <1>2, <1>3, FS_AddElement
    <2> QED
      BY <1>4, <1>5, <2>1, <2>2
  <1>6. CASE n + 1 \notin S
    <2>1. U = T
      BY <1>2, <1>6
    <2> QED
      BY <1>4, <1>6, <2>1
  <1> QED
    BY <1>5, <1>6

LEMMA NumberGrows ==
  ASSUME NEW S, S \subseteq Nat, NEW m \in Nat, NEW n \in Nat, m <= n
  PROVE  /\ Number(S, m) <= Number(S, n)
         /\ m < n /\ n \in S => Number(S, m) < Number(S, n)
         /\ n \in S => Number(S, n) >= 1
         /\ (\A q \in S : q <= m \/ q > n) => Number(S, m) = Number(S, n)
  <1> DEFINE A == {q \in S : q <= m}
             B == {q \in S : q <= n}
  <1>1. \A q \in S : /\ q <= m => q <= n
                    /\ (q <= m \/ q > n) => (q <= m <=> q <= n)
    OBVIOUS
  <1>0. n <= n /\ (m < n => ~(n <= m))
    OBVIOUS
  <1>2. IsFiniteSet(A) /\ IsFiniteSet(B)
    BY NumberIsNat
  <1>3. Number(S, m) = Cardinality(A) /\ Number(S, n) = Cardinality(B)
    BY DEF Number
  <1>4. \A q : (q \in A <=> q \in S /\ q <= m) /\ (q \in B <=> q \in S /\ q <= n)
    OBVIOUS
  <1> HIDE DEF A, B
  <1>5. /\ m < n /\ n \in S => n \in B /\ n \notin A
        /\ n \in S => n \in B
    BY <1>0, <1>4
  <1>6. A \subseteq B /\ ((\A q \in S : q <= m \/ q > n) => A = B)
    <2>1. ASSUME NEW q \in A
          PROVE  q \in B
      <3>1. q \in S /\ q <= m
        BY <1>4
      <3> QED
        BY <1>1, <1>4, <3>1
    <2>2. ASSUME \A q \in S : q <= m \/ q > n
          PROVE  \A q \in B : q \in A
      BY <1>1, <1>4, <2>2
    <2> QED
      BY <2>1, <2>2
  <1>7. Cardinality(A) \in Nat /\ Cardinality(B) \in Nat /\ Cardinality(A) <= Cardinality(B)
    BY <1>2, <1>6, FS_CardinalityType, FS_Subset
  <1>8. Cardinality(A) = Cardinality(B) => A = B
    BY <1>2, <1>6, FS_Subset
  <1>9. Cardinality(B) = 0 => B = {}
    BY <1>2, FS_EmptySet
  <1> QED
    BY <1>3, <1>5, <1>6, <1>7, <1>8, <1>9

-----------------------------------------------------------------------------
(***************************************************************************)
(* The words of the first n characters: one for each argument that starts  *)
(* among them, with the characters kept so far.  A further character ends  *)
(* a word, begins one, is dropped or is added to the last.                 *)
(***************************************************************************)
PartAt(w, l, i, n) ==
  /\ Len(w) = Number(Kept(l, i), n)
  /\ \A j \in Kept(l, i) : j <= n => w[Number(Kept(l, i), j)] = l[j]

WordsTo(words, l, n) ==
  /\ words \in Seq(Word)
  /\ Len(words) = Number(Starts(l), n)
  /\ \A i \in Starts(l) : i <= n => PartAt(words[Number(Starts(l), i)], l, i, n)

\* Character n is part of an argument.
InWordAt(l, n) == n # 0 /\ n \notin Separators(l)

LEMMA PlacesAreNats ==
  ASSUME NEW l \in Word
  PROVE  /\ Len(l) \in Nat
         /\ Starts(l) \subseteq Nat /\ \A i \in Starts(l) : i >= 1
         /\ \A i \in Starts(l) : Kept(l, i) \subseteq Nat /\ \A j \in Kept(l, i) : j >= i
  <1>1. Len(l) \in Nat
    BY DEF Word
  <1>2. \A i \in Starts(l) : i \in 1 .. Len(l)
    BY DEF Starts
  <1>3. \A i \in Starts(l) : i \in Nat /\ i >= 1
    BY <1>1, <1>2
  <1>4. ASSUME NEW i \in Starts(l), NEW j \in Kept(l, i)
        PROVE  j \in Nat /\ j >= i
    <2>1. j \in i .. Len(l)
      BY DEF Kept
    <2> QED
      BY <1>1, <1>3, <2>1
  <1> QED
    BY <1>1, <1>3, <1>4

LEMMA PartKeepsNone ==
  ASSUME NEW l \in Word, NEW i \in Starts(l), NEW n \in Nat, NEW w,
         PartAt(w, l, i, n), n + 1 \notin Kept(l, i)
  PROVE  PartAt(w, l, i, n + 1)
  <1>1. Kept(l, i) \subseteq Nat
    BY PlacesAreNats
  <1>2. Number(Kept(l, i), n + 1) = Number(Kept(l, i), n)
    BY <1>1, NumberNext
  <1>3. \A j \in Kept(l, i) : j <= n + 1 => j <= n
    BY <1>1
  <1> QED
    BY <1>2, <1>3 DEF PartAt

LEMMA PartKeepsOne ==
  ASSUME NEW l \in Word, NEW i \in Starts(l), NEW n \in Nat, NEW w \in Word,
         PartAt(w, l, i, n), n + 1 \in Kept(l, i)
  PROVE  PartAt(Append(w, l[n + 1]), l, i, n + 1)
  <1> DEFINE K == Kept(l, i)
             v == Append(w, l[n + 1])
  <1>1. K \subseteq Nat
    BY PlacesAreNats
  <1>2. Number(K, n + 1) = Number(K, n) + 1 /\ Number(K, n) \in Nat
    BY <1>1, NumberNext, NumberIsNat
  <1>3. w \in Seq(Characters) /\ Len(w) = Number(K, n)
    BY DEF PartAt, Word
  <1>4. Len(v) = Len(w) + 1 /\ v[Len(w) + 1] = l[n + 1] /\ \A k \in 1 .. Len(w) : v[k] = w[k]
    BY <1>3
  <1> HIDE DEF v
  <1>5. ASSUME NEW j \in K, j <= n + 1
        PROVE  v[Number(K, j)] = l[j]
    <2>1. CASE j = n + 1
      BY <1>2, <1>3, <1>4, <2>1
    <2>2. CASE j # n + 1
      <3>1. j \in Nat /\ j <= n
        BY <1>1, <1>5, <2>2
      <3>2. Number(K, j) \in Nat /\ Number(K, j) >= 1 /\ Number(K, j) <= Number(K, n)
        <4>1. Number(K, j) \in Nat
          BY <1>1, <3>1, NumberIsNat
        <4>2. j <= j /\ Number(K, j) >= 1
          BY <1>1, <3>1, NumberGrows
        <4>3. Number(K, j) <= Number(K, n)
          BY <1>1, <3>1, NumberGrows
        <4> QED
          BY <4>1, <4>2, <4>3
      <3>3. Number(K, j) \in 1 .. Len(w)
        BY <1>2, <1>3, <3>2
      <3>4. w[Number(K, j)] = l[j]
        BY <3>1 DEF PartAt
      <3> QED
        BY <1>4, <3>3, <3>4
    <2> QED
      BY <2>1, <2>2
  <1> QED
    BY <1>2, <1>3, <1>4, <1>5 DEF PartAt, v

\* The words that have begun keep nothing of a further character that is in no argument
\* or in another one.
LEMMA WordsKeepNone ==
  ASSUME NEW l \in Word, NEW n \in Nat, NEW words, WordsTo(words, l, n),
         \A i \in Starts(l) : i <= n => n + 1 \notin Kept(l, i)
  PROVE  \A i \in Starts(l) : i <= n => PartAt(words[Number(Starts(l), i)], l, i, n + 1)
  <1> SUFFICES ASSUME NEW i \in Starts(l), i <= n
               PROVE  PartAt(words[Number(Starts(l), i)], l, i, n + 1)
    OBVIOUS
  <1>1. PartAt(words[Number(Starts(l), i)], l, i, n)
    BY DEF WordsTo
  <1> QED
    BY <1>1, PartKeepsNone

LEMMA NoStartStep ==
  ASSUME NEW l \in Word, NEW n \in Nat, NEW words, WordsTo(words, l, n),
         n + 1 \notin Starts(l),
         \A i \in Starts(l) : i <= n => n + 1 \notin Kept(l, i)
  PROVE  WordsTo(words, l, n + 1)
  <1>1. \A i \in Starts(l) : i <= n + 1 => i <= n
    BY PlacesAreNats
  <1>2. Number(Starts(l), n + 1) = Number(Starts(l), n)
    BY PlacesAreNats, NumberNext
  <1>3. \A i \in Starts(l) : i <= n => PartAt(words[Number(Starts(l), i)], l, i, n + 1)
    BY WordsKeepNone
  <1> QED
    BY <1>1, <1>2, <1>3 DEF WordsTo

LEMMA SeparatorStep ==
  ASSUME NEW l \in Word, NEW n \in Nat, NEW words, WordsTo(words, l, n),
         n + 1 \in Separators(l)
  PROVE  WordsTo(words, l, n + 1)
  <1>1. n + 1 \notin Starts(l)
    BY DEF Starts
  <1>2. ASSUME NEW i \in Starts(l)
        PROVE  n + 1 \notin Kept(l, i)
    <2>1. ASSUME n + 1 \in Kept(l, i)
          PROVE  n + 1 \in i .. n + 1
      BY <2>1, PlacesAreNats
    <2> QED
      BY <2>1 DEF Kept
  <1> QED
    BY <1>1, <1>2, NoStartStep

LEMMA DropStep ==
  ASSUME NEW l \in Word, NEW n \in Nat, NEW words, WordsTo(words, l, n),
         InWordAt(l, n), n + 1 \in Dropped(l)
  PROVE  WordsTo(words, l, n + 1)
  <1>1. n + 1 \notin Starts(l)
    <2>1. n + 1 # 1 /\ n + 1 - 1 = n
      BY DEF InWordAt
    <2> QED
      BY <2>1 DEF Starts, InWordAt
  <1>2. \A i \in Starts(l) : n + 1 \notin Kept(l, i)
    BY DEF Kept
  <1> QED
    BY <1>1, <1>2, NoStartStep

\* Outside of arguments a character that is no separator starts one.
LEMMA StartStep ==
  ASSUME NEW l \in Word, NEW n \in Nat, NEW words, WordsTo(words, l, n),
         ~InWordAt(l, n), n + 1 \in 1 .. Len(l), n + 1 \notin Separators(l)
  PROVE  /\ n + 1 \in Dropped(l) => WordsTo(Append(words, <<>>), l, n + 1)
         /\ n + 1 \notin Dropped(l) /\ l[n + 1] \in Characters =>
              WordsTo(Append(words, <<l[n + 1]>>), l, n + 1)
  <1> DEFINE S == Starts(l)
             w == IF n + 1 \in Dropped(l) THEN <<>> ELSE <<l[n + 1]>>
  <1>1. S \subseteq Nat /\ \A i \in S : i >= 1 /\ (i <= n + 1 => i <= n \/ i = n + 1)
    BY PlacesAreNats
  <1>2. n + 1 \in S
    <2>1. n + 1 = 1 \/ (n + 1) - 1 \in Separators(l)
      BY DEF InWordAt
    <2> QED
      BY <2>1 DEF Starts
  <1>3. Number(S, n + 1) = Number(S, n) + 1 /\ Number(S, n) \in Nat
    BY <1>1, <1>2, NumberNext, NumberIsNat
  <1>4. ASSUME NEW i \in S, i <= n
        PROVE  n + 1 \notin Kept(l, i)
    <2>1. n \in Separators(l) /\ n \in i .. n + 1
      BY <1>1, <1>4 DEF InWordAt
    <2> QED
      BY <2>1 DEF Kept
  <1>5. ASSUME n + 1 \in Dropped(l) \/ l[n + 1] \in Characters
        PROVE  PartAt(w, l, n + 1, n + 1)
    <2> DEFINE K == Kept(l, n + 1)
    <2>1. K \subseteq Nat /\ \A j \in K : j >= n + 1
      BY <1>2, PlacesAreNats
    <2>2. \A j \in K : ~(j <= n)
      BY <2>1
    <2>3. {q \in K : q <= n} = {}
      BY <2>2
    <2>4. Number(K, n) = 0
      BY <2>3, FS_EmptySet DEF Number
    <2>5. PartAt(<<>>, l, n + 1, n)
      BY <2>2, <2>4 DEF PartAt
    <2>6. CASE n + 1 \in Dropped(l)
      <3>1. n + 1 \notin K
        BY <2>6 DEF Kept
      <3> QED
        BY <1>2, <2>5, <2>6, <3>1, PartKeepsNone
    <2>7. CASE n + 1 \notin Dropped(l)
      <3>1. n + 1 \in n + 1 .. Len(l) /\ \A m \in n + 1 .. n + 1 : m = n + 1
        BY PlacesAreNats
      <3>2. n + 1 \in K
        BY <2>7, <3>1 DEF Kept
      <3>3. <<>> \in Word /\ Append(<<>>, l[n + 1]) = <<l[n + 1]>>
        BY DEF Word
      <3>4. PartAt(Append(<<>>, l[n + 1]), l, n + 1, n + 1)
        BY <1>2, <2>5, <3>2, <3>3, PartKeepsOne
      <3> QED
        BY <2>7, <3>3, <3>4
    <2> QED
      BY <2>6, <2>7
  <1>6. \A i \in S : i <= n => PartAt(words[Number(S, i)], l, i, n + 1)
    BY <1>4, WordsKeepNone
  <1>7. words \in Seq(Word) /\ Len(words) = Number(S, n)
    BY DEF WordsTo
  <1>8. ASSUME n + 1 \in Dropped(l) \/ l[n + 1] \in Characters
        PROVE  WordsTo(Append(words, w), l, n + 1)
    <2>1. w \in Word
      BY <1>8, OneIsWord DEF Word
    <2>2. PartAt(w, l, n + 1, n + 1)
      BY <1>5, <1>8
    <2> HIDE DEF w, S
    <2>3. /\ Append(words, w) \in Seq(Word)
          /\ Len(Append(words, w)) = Len(words) + 1
          /\ Append(words, w)[Len(words) + 1] = w
          /\ \A k \in 1 .. Len(words) : Append(words, w)[k] = words[k]
      BY <1>7, <2>1
    <2>4. ASSUME NEW i \in S, i <= n
          PROVE  PartAt(Append(words, w)[Number(S, i)], l, i, n + 1)
      <3>1. i \in Nat /\ i <= i
        BY <1>1
      <3>2. Number(S, i) \in Nat
        BY <1>1, <3>1, NumberIsNat
      <3>3. Number(S, i) >= 1
        BY <1>1, <3>1, NumberGrows
      <3>4. Number(S, i) <= Number(S, n)
        BY <1>1, <2>4, <3>1, NumberGrows
      <3>5. Number(S, i) \in 1 .. Len(words)
        BY <1>3, <1>7, <3>2, <3>3, <3>4
      <3> QED
        BY <1>6, <2>3, <2>4, <3>5
    <2>5. \A i \in S : i <= n + 1 => PartAt(Append(words, w)[Number(S, i)], l, i, n + 1)
      BY <1>1, <1>3, <1>7, <2>2, <2>3, <2>4
    <2> QED
      BY <1>3, <1>7, <2>3, <2>5 DEF WordsTo, S
  <1> QED
    BY <1>8

\* Inside an argument the last start is after the last separator.
LEMMA LastStart ==
  ASSUME NEW l \in Word, NEW n \in 1 .. Len(l), InWordAt(l, n)
  PROVE  \E s \in Starts(l) :
           /\ s <= n
           /\ \A m \in s .. n : m \notin Separators(l)
           /\ Number(Starts(l), s) = Number(Starts(l), n)
           /\ \A i \in Starts(l) : i <= n /\ i # s => i < s /\ \E m \in i .. n : m \in Separators(l)
  <1> DEFINE S == Starts(l)
             T == {m \in 1 .. n : m \in Separators(l)}
             b == Max({0} \cup T)
             s == b + 1
  <1>1. Len(l) \in Nat /\ n \in Nat /\ S \subseteq Nat /\ \A i \in S : i >= 1
    BY PlacesAreNats
  <1>2. T \subseteq 1 .. n
    OBVIOUS
  <1> HIDE DEF T
  <1>3. b \in 0 .. n /\ b \in {0} \cup T /\ \A x \in T : x <= b
    BY <1>1, <1>2, MaxUpTo
  <1> HIDE DEF b
  <1>4. b \in Nat /\ b <= n
    BY <1>1, <1>3
  <1>5. b = 0 \/ b \in Separators(l)
    BY <1>3 DEF T
  <1>6. b # n
    BY <1>1, <1>5 DEF InWordAt
  <1>7. s \in 1 .. n /\ s \in 1 .. Len(l) /\ s - 1 = b
    BY <1>1, <1>4, <1>6
  <1>8. ASSUME NEW m \in s .. n
        PROVE  m \notin Separators(l)
    <2>1. m \in 1 .. n /\ ~(m <= b)
      BY <1>4, <1>7
    <2> QED
      BY <1>3, <2>1 DEF T
  <1>9. s \in S
    <2>1. s \in s .. n
      BY <1>7
    <2>2. s = 1 \/ s - 1 \in Separators(l)
      BY <1>5, <1>7
    <2> QED
      BY <1>7, <1>8, <2>1, <2>2 DEF Starts
  <1>10. ASSUME NEW i \in S, i <= n, i > s
         PROVE  FALSE
    <2>1. i \in Nat /\ i # 1 /\ i - 1 \in s .. n
      BY <1>1, <1>4, <1>10
    <2>2. i - 1 \in Separators(l)
      BY <2>1 DEF Starts
    <2> QED
      BY <1>8, <2>1, <2>2
  <1>11. ASSUME NEW i \in S, i <= n, i # s
         PROVE  i < s /\ \E m \in i .. n : m \in Separators(l)
    <2>1. i < s
      BY <1>1, <1>4, <1>10, <1>11
    <2>2. b \in i .. n /\ b # 0
      BY <1>1, <1>4, <2>1
    <2> QED
      BY <1>5, <2>1, <2>2
  <1>12. Number(S, s) = Number(S, n)
    <2>1. \A q \in S : q <= s \/ q > n
      BY <1>1, <1>4, <1>10
    <2>2. s \in Nat /\ s <= n
      BY <1>7
    <2> HIDE DEF s, S
    <2> QED
      BY <1>1, <2>1, <2>2, NumberGrows
  <1>13. s <= n
    BY <1>7
  <1> HIDE DEF s
  <1> QED
    BY <1>8, <1>9, <1>11, <1>12, <1>13

LEMMA KeepStep ==
  ASSUME NEW l \in Word, NEW n \in 1 .. Len(l), NEW front \in Seq(Word), NEW w \in Word,
         WordsTo(Append(front, w), l, n), InWordAt(l, n),
         n + 1 \in 1 .. Len(l), n + 1 \notin Separators(l), n + 1 \notin Dropped(l),
         l[n + 1] \in Characters
  PROVE  WordsTo(Append(front, Append(w, l[n + 1])), l, n + 1)
  <1> DEFINE S == Starts(l)
             v == Append(w, l[n + 1])
             old == Append(front, w)
             new == Append(front, v)
  <1>1. Len(l) \in Nat /\ n \in Nat /\ S \subseteq Nat /\ \A i \in S : i >= 1 /\ (i <= n + 1 => i <= n \/ i = n + 1)
    BY PlacesAreNats
  <1>2. PICK s \in S :
           /\ s <= n
           /\ \A m \in s .. n : m \notin Separators(l)
           /\ Number(S, s) = Number(S, n)
           /\ \A i \in S : i <= n /\ i # s => i < s /\ \E m \in i .. n : m \in Separators(l)
    BY LastStart
  <1>3. v \in Word
    BY AppendIsWord DEF Word
  <1>4. n + 1 \notin S
    <2>1. n + 1 # 1 /\ (n + 1) - 1 = n
      BY <1>1
    <2> QED
      BY <2>1 DEF Starts, InWordAt
  <1>5. Number(S, n + 1) = Number(S, n) /\ Number(S, n) \in Nat
    BY <1>1, <1>4, NumberNext, NumberIsNat
  <1>6. n + 1 \in Kept(l, s)
    <2>1. n + 1 \in s .. Len(l) /\ \A m \in s .. n + 1 : m \in s .. n \/ m = n + 1
      BY <1>1, <1>2
    <2> QED
      BY <1>2, <2>1 DEF Kept
  <1>7. ASSUME NEW i \in S, i <= n, i # s
        PROVE  n + 1 \notin Kept(l, i)
    <2>1. PICK m \in i .. n : m \in Separators(l)
      BY <1>2, <1>7
    <2>2. m \in i .. n + 1
      BY <1>1, <2>1
    <2> QED
      BY <2>1, <2>2 DEF Kept
  <1> HIDE DEF v, S
  <1>8. /\ Len(old) = Len(front) + 1 /\ Len(new) = Len(front) + 1 /\ Len(front) \in Nat
        /\ old[Len(front) + 1] = w /\ new[Len(front) + 1] = v
        /\ new \in Seq(Word)
        /\ \A k \in 1 .. Len(front) : new[k] = old[k]
    BY <1>3
  <1> HIDE DEF old, new
  <1>9. /\ Len(old) = Number(S, n)
        /\ \A i \in S : i <= n => PartAt(old[Number(S, i)], l, i, n)
    BY DEF WordsTo, S, old
  <1>10. PartAt(new[Number(S, s)], l, s, n + 1)
    <2>1. PartAt(w, l, s, n)
      BY <1>2, <1>8, <1>9
    <2>2. PartAt(v, l, s, n + 1)
      BY <1>1, <1>2, <1>6, <2>1, PartKeepsOne DEF v, S
    <2> QED
      BY <1>2, <1>8, <1>9, <2>2
  <1>11. ASSUME NEW i \in S, i <= n, i # s
         PROVE  PartAt(new[Number(S, i)], l, i, n + 1)
    <2>1. i \in Nat /\ s \in Nat /\ i < s /\ i <= s /\ i <= i
      BY <1>1, <1>2, <1>11
    <2>2. Number(S, i) \in Nat
      BY <1>1, <2>1, NumberIsNat
    <2>3. Number(S, i) >= 1
      BY <1>1, <2>1, NumberGrows
    <2>4. Number(S, i) < Number(S, s)
      BY <1>1, <1>2, <2>1, NumberGrows
    <2>5. Number(S, i) \in 1 .. Len(front)
      BY <1>2, <1>5, <1>8, <1>9, <2>2, <2>3, <2>4
    <2>6. PartAt(new[Number(S, i)], l, i, n)
      BY <1>8, <1>9, <1>11, <2>5
    <2>7. n + 1 \notin Kept(l, i)
      BY <1>7, <1>11
    <2> QED
      BY <1>1, <2>6, <2>7, PartKeepsNone DEF S
  <1>12. \A i \in S : i <= n + 1 => PartAt(new[Number(S, i)], l, i, n + 1)
    BY <1>1, <1>4, <1>10, <1>11
  <1>13. WordsTo(new, l, n + 1)
    BY <1>5, <1>8, <1>9, <1>12 DEF WordsTo, S
  <1> QED
    BY <1>13 DEF new, v

-----------------------------------------------------------------------------
(***************************************************************************)
(* toGnuArgv follows the rules.  After n characters the mode tells whether *)
(* an argument is going on and which quote is open, the next character is  *)
(* not escaped, and out, with arg if an argument is going on, are the words*)
(* of what was read.                                                       *)
(***************************************************************************)
GnuAt(l, n, m, q, a, o) ==
  /\ m \in {"gap", "unquoted", "quoted"}
  /\ m = "gap" => a = <<>>
  /\ m = "quoted" => q \in Quotes
  /\ m # "gap" <=> InWordAt(l, n)
  /\ n < Len(l) => ~EscapedAt(l)[n + 1]
  /\ Open(l)[n] = IF m = "quoted" THEN q ELSE "none"
  /\ WordsTo(IF m = "gap" THEN o ELSE Append(o, a), l, n)

GnuIInv ==
  convention = "gnu" =>
    /\ pc = "split" => backslashes = 0 /\ GnuAt(cmdline, cur - 1, mode, quote, arg, out)
    /\ pc = "done"  => AreArguments(out, cmdline)

\* What the rules say of character n + 1, after n characters.
LEMMA EscapedNext ==
  ASSUME NEW l \in Word, NEW n \in Nat, n < Len(l), ~EscapedAt(l)[n + 1]
  PROVE  /\ l[n + 1] # "bs" /\ n + 1 < Len(l) => ~EscapedAt(l)[n + 1 + 1]
         /\ l[n + 1] = "bs" /\ n + 1 < Len(l) => EscapedAt(l)[n + 1 + 1]
         /\ l[n + 1] = "bs" /\ n + 1 + 1 < Len(l) => ~EscapedAt(l)[n + 1 + 1 + 1]
  <1>1. Len(l) \in Nat
    BY PlacesAreNats
  <1>2. /\ n + 1 < Len(l) => n + 1 + 1 \in 1 .. Len(l) /\ n + 1 + 1 > 1 /\ (n + 1 + 1) - 1 = n + 1
        /\ n + 1 + 1 < Len(l) => /\ n + 1 + 1 + 1 \in 1 .. Len(l)
                                /\ n + 1 + 1 + 1 > 1 /\ (n + 1 + 1 + 1) - 1 = n + 1 + 1
                                /\ n + 1 < Len(l)
    BY <1>1
  <1> QED
    BY <1>1, <1>2, EscapedEquation

LEMMA OpenNext ==
  ASSUME NEW l \in Word, NEW n \in Nat, n < Len(l)
  PROVE  /\ EscapedAt(l)[n + 1] => Open(l)[n + 1] = Open(l)[n]
         /\ ~EscapedAt(l)[n + 1] =>
              Open(l)[n + 1] = IF l[n + 1] \in Quotes /\ Open(l)[n] = "none" THEN l[n + 1]
                               ELSE IF l[n + 1] = Open(l)[n] THEN "none" ELSE Open(l)[n]
  <1>1. Len(l) \in Nat
    BY PlacesAreNats
  <1>2. n + 1 \in 0 .. Len(l) /\ n + 1 # 0 /\ n + 1 > 0 /\ (n + 1) - 1 = n
    BY <1>1
  <1>3. Open(l)[n + 1] = OpenStep(l, Open(l), n + 1)
    BY <1>1, <1>2, OpenEquation
  <1> QED
    BY <1>2, <1>3 DEF OpenStep, Quotes

LEMMA WordsKeep ==
  ASSUME NEW l \in Word, NEW n \in Nat, n < Len(l), NEW m, NEW a \in Word, NEW o \in Seq(Word),
         m = "gap" => a = <<>>, m # "gap" <=> InWordAt(l, n),
         WordsTo(IF m = "gap" THEN o ELSE Append(o, a), l, n),
         n + 1 \notin Separators(l), n + 1 \notin Dropped(l)
  PROVE  WordsTo(Append(o, Append(a, l[n + 1])), l, n + 1)
  <1>1. Len(l) \in Nat /\ n + 1 \in 1 .. Len(l)
    BY PlacesAreNats
  <1>2. l[n + 1] \in Characters
    BY <1>1 DEF Word
  <1>3. CASE m = "gap"
    <2>1. Append(a, l[n + 1]) = <<l[n + 1]>>
      BY <1>3
    <2>2. WordsTo(Append(o, <<l[n + 1]>>), l, n + 1)
      BY <1>1, <1>2, <1>3, StartStep
    <2> QED
      BY <2>1, <2>2
  <1>4. CASE m # "gap"
    <2>1. n \in 1 .. Len(l)
      BY <1>1, <1>4 DEF InWordAt
    <2> QED
      BY <1>1, <1>2, <1>4, <2>1, KeepStep
  <1> QED
    BY <1>3, <1>4

LEMMA WordsDrop ==
  ASSUME NEW l \in Word, NEW n \in Nat, n < Len(l), NEW m, NEW a \in Word, NEW o \in Seq(Word),
         m = "gap" => a = <<>>, m # "gap" <=> InWordAt(l, n),
         WordsTo(IF m = "gap" THEN o ELSE Append(o, a), l, n),
         n + 1 \notin Separators(l), n + 1 \in Dropped(l)
  PROVE  WordsTo(Append(o, a), l, n + 1)
  <1>1. n + 1 \in 1 .. Len(l)
    BY PlacesAreNats
  <1>2. CASE m = "gap"
    BY <1>1, <1>2, StartStep
  <1>3. CASE m # "gap"
    BY <1>3, DropStep
  <1> QED
    BY <1>2, <1>3

\* A character that is no separator is part of an argument.
LEMMA InWordNext ==
  ASSUME NEW l \in Word, NEW n \in Nat, n < Len(l)
  PROVE  /\ InWordAt(l, n + 1) <=> n + 1 \notin Separators(l)
         /\ n + 1 \in Separators(l) <=>
              l[n + 1] \in White /\ ~EscapedAt(l)[n + 1] /\ Open(l)[n + 1] = "none"
         /\ n + 1 \in Dropped(l) <=>
              ~EscapedAt(l)[n + 1] /\ (\/ l[n + 1] = "bs" /\ n + 1 < Len(l)
                                      \/ Open(l)[n + 1] # Open(l)[n])
  <1>1. n + 1 \in 1 .. Len(l) /\ n + 1 # 0 /\ (n + 1) - 1 = n
    BY PlacesAreNats
  <1> QED
    BY <1>1 DEF InWordAt, Separators, Dropped

LEMMA GnuSeparator ==
  ASSUME NEW l \in Word, NEW n \in Nat, n < Len(l), NEW m, NEW q, NEW a \in Word, NEW o \in Seq(Word),
         GnuAt(l, n, m, q, a, o), m # "quoted", l[n + 1] \in White
  PROVE  GnuAt(l, n + 1, "gap", q, <<>>, IF m = "gap" THEN o ELSE Append(o, a))
  <1>1. ~EscapedAt(l)[n + 1] /\ Open(l)[n] = "none" /\ l[n + 1] # "bs" /\ l[n + 1] \notin Quotes /\ l[n + 1] # "none"
    BY DEF GnuAt, White, Blank, Quotes
  <1>2. Open(l)[n + 1] = "none"
    BY <1>1, OpenNext
  <1>3. n + 1 \in Separators(l) /\ ~InWordAt(l, n + 1)
    BY <1>1, <1>2, InWordNext
  <1>4. n + 1 < Len(l) => ~EscapedAt(l)[n + 1 + 1]
    BY <1>1, EscapedNext
  <1>5. WordsTo(IF m = "gap" THEN o ELSE Append(o, a), l, n + 1)
    BY <1>3, SeparatorStep DEF GnuAt
  <1> QED
    BY <1>2, <1>3, <1>4, <1>5 DEF GnuAt

LEMMA GnuOpen ==
  ASSUME NEW l \in Word, NEW n \in Nat, n < Len(l), NEW m, NEW q, NEW a \in Word, NEW o \in Seq(Word),
         GnuAt(l, n, m, q, a, o), m # "quoted", l[n + 1] \in Quotes
  PROVE  GnuAt(l, n + 1, "quoted", l[n + 1], a, o)
  <1>1. ~EscapedAt(l)[n + 1] /\ Open(l)[n] = "none" /\ l[n + 1] # "bs" /\ l[n + 1] # "none"
    BY DEF GnuAt, Quotes
  <1>2. Open(l)[n + 1] = l[n + 1]
    BY <1>1, OpenNext
  <1>3. n + 1 \notin Separators(l) /\ n + 1 \in Dropped(l) /\ InWordAt(l, n + 1)
    BY <1>1, <1>2, InWordNext
  <1>4. n + 1 < Len(l) => ~EscapedAt(l)[n + 1 + 1]
    BY <1>1, EscapedNext
  <1>5. WordsTo(Append(o, a), l, n + 1)
    BY <1>3, WordsDrop DEF GnuAt
  <1> QED
    BY <1>2, <1>3, <1>4, <1>5 DEF GnuAt

LEMMA GnuClose ==
  ASSUME NEW l \in Word, NEW n \in Nat, n < Len(l), NEW m, NEW q, NEW a \in Word, NEW o \in Seq(Word),
         GnuAt(l, n, m, q, a, o), m = "quoted", l[n + 1] = q
  PROVE  GnuAt(l, n + 1, "unquoted", q, a, o)
  <1>1. ~EscapedAt(l)[n + 1] /\ Open(l)[n] = q /\ q \in Quotes /\ q # "bs" /\ q # "none" /\ q \notin White
    BY DEF GnuAt, Quotes, White, Blank
  <1>2. Open(l)[n + 1] = "none"
    BY <1>1, OpenNext
  <1>3. n + 1 \notin Separators(l) /\ n + 1 \in Dropped(l) /\ InWordAt(l, n + 1)
    BY <1>1, <1>2, InWordNext
  <1>4. n + 1 < Len(l) => ~EscapedAt(l)[n + 1 + 1]
    BY <1>1, EscapedNext
  <1>5. WordsTo(Append(o, a), l, n + 1)
    BY <1>3, WordsDrop DEF GnuAt
  <1> QED
    BY <1>2, <1>3, <1>4, <1>5 DEF GnuAt

LEMMA GnuLiteral ==
  ASSUME NEW l \in Word, NEW n \in Nat, n < Len(l), NEW m, NEW q, NEW a \in Word, NEW o \in Seq(Word),
         GnuAt(l, n, m, q, a, o),
         l[n + 1] # "bs" \/ n + 1 = Len(l),
         l[n + 1] \notin IF m = "quoted" THEN {q} ELSE Quotes \cup White
  PROVE  GnuAt(l, n + 1, IF m = "gap" THEN "unquoted" ELSE m, q, Append(a, l[n + 1]), o)
  <1>0. n \in Nat /\ Len(l) \in Nat /\ (n + 1 = Len(l) => ~(n + 1 < Len(l)))
    BY PlacesAreNats
  <1>1. ~EscapedAt(l)[n + 1] /\ Open(l)[n] = IF m = "quoted" THEN q ELSE "none"
    BY DEF GnuAt
  <1>2. Open(l)[n + 1] = Open(l)[n]
    BY <1>1, OpenNext DEF GnuAt, Quotes
  <1>3. n + 1 \notin Separators(l) /\ n + 1 \notin Dropped(l) /\ InWordAt(l, n + 1)
    BY <1>0, <1>1, <1>2, InWordNext DEF GnuAt, Quotes
  <1>4. n + 1 < Len(l) => ~EscapedAt(l)[n + 1 + 1]
    BY <1>0, <1>1, EscapedNext
  <1>5. WordsTo(Append(o, Append(a, l[n + 1])), l, n + 1)
    BY <1>3, WordsKeep DEF GnuAt
  <1> QED
    BY <1>1, <1>2, <1>3, <1>4, <1>5 DEF GnuAt

LEMMA GnuEscaped ==
  ASSUME NEW l \in Word, NEW n \in Nat, n + 1 < Len(l), NEW m, NEW q, NEW a \in Word, NEW o \in Seq(Word),
         GnuAt(l, n, m, q, a, o), l[n + 1] = "bs"
  PROVE  GnuAt(l, n + 1 + 1, IF m = "gap" THEN "unquoted" ELSE m, q, Append(a, l[n + 1 + 1]), o)
  <1> DEFINE p == n + 1
             mm == IF m = "gap" THEN "unquoted" ELSE m
  <1>0. Len(l) \in Nat /\ p \in Nat /\ n < Len(l) /\ p < Len(l)
    BY PlacesAreNats
  <1>1. ~EscapedAt(l)[p] /\ Open(l)[n] = IF m = "quoted" THEN q ELSE "none"
    BY <1>0 DEF GnuAt
  <1>2. Open(l)[p] = Open(l)[n]
    BY <1>0, <1>1, OpenNext DEF GnuAt, Quotes
  <1>3. EscapedAt(l)[p + 1] /\ (p + 1 < Len(l) => ~EscapedAt(l)[p + 1 + 1])
    BY <1>0, <1>1, EscapedNext
  <1>4. "bs" \notin White
    BY DEF White, Blank
  <1>5. p \notin Separators(l) /\ p \in Dropped(l) /\ InWordAt(l, p)
    BY <1>0, <1>1, <1>4, InWordNext
  <1>6. WordsTo(Append(o, a), l, p)
    BY <1>0, <1>5, WordsDrop DEF GnuAt
  <1>7. Open(l)[p + 1] = Open(l)[p]
    BY <1>0, <1>3, OpenNext
  <1>8. p + 1 \notin Separators(l) /\ p + 1 \notin Dropped(l) /\ InWordAt(l, p + 1)
    BY <1>0, <1>3, InWordNext
  <1> HIDE DEF p
  <1>9. WordsTo(Append(o, Append(a, l[p + 1])), l, p + 1)
    <2>1. "unquoted" # "gap"
      OBVIOUS
    <2> QED
      BY <1>0, <1>5, <1>6, <1>8, <2>1, WordsKeep
  <1>10. mm # "gap" /\ (mm = "quoted" <=> m = "quoted") /\ mm \in {"gap", "unquoted", "quoted"}
    BY DEF GnuAt
  <1>11. m = "quoted" => q \in Quotes
    BY DEF GnuAt
  <1> HIDE DEF mm
  <1>12. GnuAt(l, p + 1, mm, q, Append(a, l[p + 1]), o)
    BY <1>1, <1>2, <1>3, <1>7, <1>8, <1>9, <1>10, <1>11 DEF GnuAt
  <1> QED
    BY <1>12 DEF p, mm

LEMMA GnuBegins ==
  ASSUME NEW l \in Word, NEW q
  PROVE  GnuAt(l, 0, "gap", q, <<>>, <<>>)
  <1>1. Len(l) \in Nat /\ Starts(l) \subseteq Nat /\ \A i \in Starts(l) : i >= 1
    BY PlacesAreNats
  <1>2. 0 < Len(l) => ~EscapedAt(l)[0 + 1]
    <2>1. 0 < Len(l) => 0 + 1 \in 1 .. Len(l) /\ ~(0 + 1 > 1)
      BY <1>1
    <2> QED
      BY <1>1, <2>1, EscapedEquation
  <1>3. Open(l)[0] = "none"
    <2>1. 0 \in 0 .. Len(l)
      BY <1>1
    <2> QED
      BY <1>1, <2>1, OpenEquation DEF OpenStep
  <1>4. \A i \in Starts(l) : ~(i <= 0)
    BY <1>1
  <1>5. {i \in Starts(l) : i <= 0} = {}
    BY <1>4
  <1>6. Number(Starts(l), 0) = 0
    BY <1>5, FS_EmptySet DEF Number
  <1>7. WordsTo(<<>>, l, 0)
    BY <1>4, <1>6 DEF WordsTo
  <1> QED
    BY <1>2, <1>3, <1>7 DEF GnuAt, InWordAt

LEMMA GnuEnds ==
  ASSUME NEW l \in Word, NEW words, WordsTo(words, l, Len(l))
  PROVE  AreArguments(words, l)
  <1>1. Len(l) \in Nat
    BY PlacesAreNats
  <1>2. \A i \in Starts(l) : i <= Len(l)
    BY <1>1 DEF Starts
  <1>3. {i \in Starts(l) : i <= Len(l)} = Starts(l)
    BY <1>2
  <1>4. Len(words) = Cardinality(Starts(l))
    BY <1>3 DEF WordsTo, Number
  <1>5. ASSUME NEW i \in Starts(l)
        PROVE  IsWordAt(words[Number(Starts(l), i)], l, i)
    <2>1. PartAt(words[Number(Starts(l), i)], l, i, Len(l))
      BY <1>2 DEF WordsTo
    <2>2. \A j \in Kept(l, i) : j <= Len(l)
      <3>1. i \in Nat
        BY PlacesAreNats
      <3>2. \A j \in Kept(l, i) : j \in i .. Len(l)
        BY DEF Kept
      <3> QED
        BY <1>1, <3>1, <3>2
    <2>3. {j \in Kept(l, i) : j <= Len(l)} = Kept(l, i)
      BY <2>2
    <2>4. Number(Kept(l, i), Len(l)) = Cardinality(Kept(l, i))
      BY <2>3 DEF Number
    <2> QED
      BY <2>1, <2>2, <2>4 DEF PartAt, IsWordAt
  <1> QED
    BY <1>4, <1>5 DEF AreArguments

\* The turns of toGnuArgv.
LEMMA PendingIsArg ==
  ASSUME ArgvTypes, backslashes = 0
  PROVE  Pending = arg
  <1>1. [k \in 1 .. 0 |-> "bs"] = <<>>
    OBVIOUS
  <1>2. arg \in Seq(Characters)
    BY DEF ArgvTypes, Word
  <1>3. arg \o <<>> = arg
    BY <1>2
  <1> QED
    BY <1>1, <1>3 DEF Pending

LEMMA GnuTurn ==
  ASSUME ArgvTypes, Turn, convention = "gnu", GnuIInv, toGnuArgv
  PROVE  GnuIInv'
  <1> DEFINE l == cmdline
             n == cur - 1
  <1>1. /\ l \in Word /\ Len(l) \in Nat /\ arg \in Word /\ out \in Seq(Word)
        /\ n \in Nat /\ n < Len(l) /\ cur = n + 1 /\ cur + 1 = n + 1 + 1
    <2>1. l \in Word /\ Len(l) \in Nat /\ arg \in Word /\ out \in Seq(Word)
      BY DEF ArgvTypes, Word
    <2> QED
      BY <2>1 DEF ArgvTypes, Turn
  <1>2. backslashes = 0 /\ GnuAt(l, n, mode, quote, arg, out)
    BY DEF GnuIInv, Turn
  <1>3. Pending = arg
    BY <1>2, PendingIsArg
  <1>4. pc' = "split" /\ l' = l /\ convention' = "gnu"
    BY DEF Turn, fixed
  <1>5. mode \in {"gap", "unquoted", "quoted"} /\ (Outside <=> mode # "quoted")
    BY <1>2 DEF GnuAt, Outside
  <1>6. ch = l[n + 1]
    BY <1>1 DEF ch
  <1> HIDE DEF n
  <1>7. \A k \in Nat : cur' = k + 1 => cur' - 1 = k
    OBVIOUS
  <1>8. SUFFICES backslashes' = 0 /\ GnuAt(l, cur' - 1, mode', quote', arg', out')
    BY <1>4 DEF GnuIInv
  <1>9. CASE Escaped(<<cmdline[cur + 1]>>, InWord)
    <2>1. CASE HasNext
      <3>1. n + 1 < Len(l) /\ l[n + 1] = "bs" /\ cur' - 1 = n + 1 + 1
        BY <1>1, <1>6, <1>9, <2>1 DEF Escaped, HasNext
      <3>2. arg' = Append(arg, l[n + 1 + 1])
        <4>1. arg' = arg \o <<l[n + 1 + 1]>>
          BY <1>1, <1>9, <2>1 DEF Escaped
        <4>2. arg \in Seq(Characters) /\ l[n + 1 + 1] \in Characters
          BY <1>1, <3>1 DEF Word
        <4> QED
          BY <4>1, <4>2
      <3>3. /\ mode' = IF mode = "gap" THEN "unquoted" ELSE mode
            /\ quote' = quote /\ out' = out /\ backslashes' = 0
        BY <1>2, <1>9, <2>1 DEF Escaped, InWord
      <3> QED
        BY <1>1, <1>2, <3>1, <3>2, <3>3, GnuEscaped
    <2>2. CASE ~HasNext
      <3>1. n + 1 = Len(l) /\ l[n + 1] = "bs" /\ cur' - 1 = n + 1
        BY <1>1, <1>6, <1>9, <2>2 DEF Escaped, HasNext
      <3>2. /\ arg' = Append(arg, l[n + 1])
            /\ mode' = IF mode = "gap" THEN "unquoted" ELSE mode
            /\ quote' = quote /\ out' = out /\ backslashes' = 0
        BY <1>2, <1>9, <2>2, <3>1 DEF Escaped, InWord
      <3>3. l[n + 1] \notin IF mode = "quoted" THEN {quote} ELSE Quotes \cup White
        BY <1>2, <3>1 DEF GnuAt, Quotes, White, Blank
      <3> QED
        BY <1>1, <1>2, <3>1, <3>2, <3>3, GnuLiteral
    <2> QED
      BY <2>1, <2>2
  <1>10. CASE OpenQuote(Quotes)
    <2>1. /\ mode # "quoted" /\ l[n + 1] \in Quotes /\ cur' - 1 = n + 1
          /\ mode' = "quoted" /\ quote' = l[n + 1] /\ arg' = arg /\ out' = out /\ backslashes' = 0
      BY <1>1, <1>2, <1>5, <1>6, <1>10 DEF OpenQuote
    <2> QED
      BY <1>1, <1>2, <2>1, GnuOpen
  <1>11. CASE CloseQuote
    <2>1. /\ mode = "quoted" /\ l[n + 1] = quote /\ cur' - 1 = n + 1
          /\ mode' = "unquoted" /\ quote' = quote /\ arg' = arg /\ out' = out /\ backslashes' = 0
      BY <1>1, <1>2, <1>6, <1>11 DEF CloseQuote
    <2> QED
      BY <1>1, <1>2, <2>1, GnuClose
  <1>12. CASE Separator(White)
    <2>1. /\ mode # "quoted" /\ l[n + 1] \in White /\ cur' - 1 = n + 1
          /\ mode' = "gap" /\ quote' = quote /\ arg' = <<>> /\ backslashes' = 0
          /\ out' = IF mode = "gap" THEN out ELSE Append(out, arg)
      BY <1>1, <1>3, <1>5, <1>6, <1>12 DEF Separator
    <2> QED
      BY <1>1, <1>2, <2>1, GnuSeparator
  <1>13. CASE Literal({"bs"} \cup IF Outside THEN Quotes \cup White ELSE {quote})
    <2>1. /\ l[n + 1] # "bs" /\ cur' - 1 = n + 1
          /\ l[n + 1] \notin IF mode = "quoted" THEN {quote} ELSE Quotes \cup White
          /\ mode' = IF mode = "gap" THEN "unquoted" ELSE mode
          /\ quote' = quote /\ arg' = Append(arg, l[n + 1]) /\ out' = out /\ backslashes' = 0
      BY <1>1, <1>3, <1>5, <1>6, <1>13 DEF Literal, InWord
    <2> QED
      BY <1>1, <1>2, <2>1, GnuLiteral
  <1> QED
    BY <1>9, <1>10, <1>11, <1>12, <1>13 DEF toGnuArgv

LEMMA GnuNext ==
  ASSUME ArgvTypes, ArgvTypes', GnuIInv, [Next]_argvVars
  PROVE  GnuIInv'
  <1>1. CASE toCmdline
    <2>1. /\ pc' = "split" /\ cur' = 1 /\ mode' = "gap" /\ arg' = <<>> /\ out' = <<>>
          /\ cmdline' \in Word /\ backslashes' \in 0 .. cur' - 1
      BY <1>1 DEF toCmdline, ArgvTypes
    <2>2. backslashes' = 0 /\ cur' - 1 = 0
      BY <2>1
    <2>3. GnuAt(cmdline', 0, "gap", quote', <<>>, <<>>)
      BY <2>1, GnuBegins
    <2> QED
      BY <2>1, <2>2, <2>3 DEF GnuIInv
  <1>2. CASE Split
    <2>1. Turn /\ convention' = convention
      BY <1>2 DEF Split, Turn, fixed
    <2>2. convention = "gnu" => toGnuArgv
      BY <1>2 DEF Split
    <2>3. convention # "gnu" => GnuIInv'
      BY <2>1 DEF GnuIInv
    <2> QED
      BY <2>1, <2>2, <2>3, GnuTurn
  <1>3. CASE EndOfLine
    <2>1. CASE convention = "gnu"
      <3>1. /\ pc' = "done" /\ cmdline' = cmdline /\ cmdline \in Word
            /\ backslashes = 0 /\ GnuAt(cmdline, cur - 1, mode, quote, arg, out)
        BY <1>3, <2>1 DEF EndOfLine, GnuIInv, ArgvTypes
      <3>2. cur - 1 = Len(cmdline)
        <4>1. Len(cmdline) \in Nat
          BY DEF ArgvTypes, Word
        <4> QED
          BY <1>3, <4>1 DEF ArgvTypes, EndOfLine
      <3>3. Pending = arg
        BY <3>1, PendingIsArg
      <3>4. out' = IF mode = "gap" THEN out ELSE Append(out, arg)
        BY <1>3, <3>1, <3>3 DEF EndOfLine, GnuAt
      <3>5. WordsTo(out', cmdline, Len(cmdline))
        BY <3>1, <3>2, <3>4 DEF GnuAt
      <3>6. AreArguments(out', cmdline)
        BY <3>1, <3>5, GnuEnds
      <3> QED
        BY <3>1, <3>6 DEF GnuIInv
    <2>2. CASE convention # "gnu"
      BY <1>3, <2>2 DEF EndOfLine, GnuIInv
    <2> QED
      BY <2>1, <2>2
  <1>4. CASE UNCHANGED argvVars
    BY <1>4 DEF argvVars, GnuIInv
  <1> QED
    BY <1>1, <1>2, <1>3, <1>4 DEF Next

\* For every line toGnuArgv finds the arguments that the rules of buildargv define: it ends
\* them at white space outside quotes and leaves out the quotes and the escaping backslashes,
\* and nothing else (cli.cpp:1538).
THEOREM GnuFollowsRules == Spec => []GnuRules
  <1>1. Init => GnuIInv
    <2> SUFFICES ASSUME Init, convention = "gnu", pc = "split"
                 PROVE  backslashes = 0 /\ GnuAt(cmdline, cur - 1, mode, quote, arg, out)
      BY DEF Init, GnuIInv
    <2>1. cmdline \in Word
      BY InitTypes DEF ArgvTypes
    <2>2. GnuAt(cmdline, 0, "gap", quote, <<>>, <<>>)
      BY <2>1, GnuBegins
    <2> QED
      BY <2>2 DEF Init
  <1>2. ArgvTypes /\ ArgvTypes' /\ GnuIInv /\ [Next]_argvVars => GnuIInv'
    BY GnuNext
  <1>3. GnuIInv => GnuRules
    BY DEF GnuIInv, GnuRules
  <1> QED
    BY <1>1, <1>2, <1>3, ArgvTypesHold, PTL DEF Spec

-----------------------------------------------------------------------------
(***************************************************************************)
(* Where the arguments stand on a joined line.  FlattenSeq puts its        *)
(* sequences one after the other, so each character of an argument has its *)
(* place, escaped or not, and Separated puts a space between two           *)
(* arguments.  A, E and P are the places before and behind an argument and *)
(* after each of its characters.                                           *)
(***************************************************************************)
\* What holds at 0 and is kept by each step up to n holds up to n.
LEMMA UpTo ==
  ASSUME NEW n \in Nat, NEW G, 0 \in G, \A i \in 1 .. n : i - 1 \in G => i \in G
  PROVE  \A i \in 0 .. n : i \in G
  <1> DEFINE T == {i \in 0 .. n : i \notin G}
  <1>1. ASSUME T # {}
        PROVE  FALSE
    <2>1. T \subseteq Nat
      OBVIOUS
    <2>2. PICK i \in T : \A m \in Nat : m < i => m \notin T
      BY <1>1, <2>1, LeastOne
    <2>3. i \in 1 .. n /\ i - 1 \in Nat /\ i - 1 < i /\ i - 1 \in 0 .. n
      BY <2>2
    <2> QED
      BY <2>2, <2>3
  <1> QED
    BY <1>1

LEMMA Concatenated ==
  ASSUME NEW W, NEW s \in Seq(W), NEW t \in Seq(W), NEW r, r = s \o t
  PROVE  /\ r \in Seq(W) /\ Len(s) \in Nat /\ Len(t) \in Nat
         /\ Len(r) = Len(s) + Len(t)
         /\ \A m \in 1 .. Len(s) : r[m] = s[m]
         /\ \A m \in 1 .. Len(t) : r[Len(s) + m] = t[m]
  OBVIOUS

\* s consists of the sequences of parts: the i-th stands from p[i - 1] + 1 to p[i].
Parted(p, s, parts) ==
  /\ p \in [0 .. Len(parts) -> Nat] /\ p[0] = 0 /\ p[Len(parts)] = Len(s)
  /\ \A i \in 1 .. Len(parts) :
       /\ p[i] = p[i - 1] + Len(parts[i]) /\ p[i] <= Len(s)
       /\ \A m \in 1 .. Len(parts[i]) : s[p[i - 1] + m] = parts[i][m]

\* f[i] is the concatenation of the first i of parts.
SumsOf(f, parts, W) ==
  /\ f \in [0 .. Len(parts) -> Seq(W)] /\ f[0] = <<>> /\ f[Len(parts)] = FlattenSeq(parts)
  /\ \A i \in 1 .. Len(parts) : f[i] = f[i - 1] \o parts[i]

\* The concatenations of the first parts of a sequence, taken from the function of FlattenSeq.
LEMMA SumsExist ==
  ASSUME NEW W, NEW parts \in Seq(Seq(W))
  PROVE  \E f : SumsOf(f, parts, W)
  <1> DEFINE n == Len(parts)
             Is(g) == g = [i \in 1 .. n |-> IF i = 1 THEN parts[i] ELSE g[i - 1] \o parts[i]]
             g == CHOOSE x : Is(x)
             f == [i \in 0 .. n |-> IF i = 0 THEN <<>> ELSE g[i]]
  <1>1. n \in Nat /\ \A i \in 1 .. n : parts[i] \in Seq(W)
    OBVIOUS
  <1>2. PICK x : Flattens(x, parts, n)
    BY <1>1, FlattensAll
  <1>3. Is(x)
    BY <1>2 DEF Flattens, FlatStep
  <1>4. Is(g)
    BY <1>3
  <1>5. Flattens(g, parts, n)
    <2>1. ASSUME NEW h, Is(h)
          PROVE  Flattens(h, parts, n)
      BY <2>1 DEF Flattens, FlatStep
    <2> HIDE DEF g, Is
    <2> QED
      BY <1>4, <2>1
  <1>6. FlattenSeq(parts) = IF n = 0 THEN parts ELSE g[n]
    BY DEF FlattenSeq
  <1> HIDE DEF g, Is
  <1>7. \A i \in 1 .. n : g[i] \in Seq(W)
    BY <1>1, <1>5, FlattensWords
  <1>8. f \in [0 .. n -> Seq(W)] /\ f[0] = <<>>
    <2>1. <<>> \in Seq(W) /\ 0 \in 0 .. n /\ \A i \in 0 .. n : i # 0 => i \in 1 .. n
      BY <1>1
    <2> QED
      BY <1>7, <2>1
  <1>9. f[n] = FlattenSeq(parts)
    <2>1. n = 0 => parts = <<>>
      OBVIOUS
    <2> QED
      BY <1>1, <1>6, <2>1
  <1>10. ASSUME NEW i \in 1 .. n
         PROVE  f[i] = f[i - 1] \o parts[i]
    <2>1. f[i] = g[i] /\ g[i] = FlatStep(g, parts, i) /\ i - 1 \in 0 .. n
      BY <1>1, <1>5 DEF Flattens
    <2>2. CASE i = 1
      <3>1. f[i - 1] = <<>> /\ parts[i] \in Seq(W)
        BY <1>1, <1>8, <2>2
      <3>2. <<>> \o parts[i] = parts[i]
        BY <3>1
      <3> QED
        BY <2>1, <2>2, <3>1, <3>2 DEF FlatStep
    <2>3. CASE i # 1
      <3>1. i - 1 # 0 /\ f[i - 1] = g[i - 1]
        BY <1>1, <2>1, <2>3
      <3> QED
        BY <2>1, <2>3, <3>1 DEF FlatStep
    <2> QED
      BY <2>2, <2>3
  <1> HIDE DEF f, n
  <1>11. SumsOf(f, parts, W)
    BY <1>8, <1>9, <1>10 DEF SumsOf, n
  <1> QED
    BY <1>11

\* Each sum begins the ones after it.
LEMMA SumsBegin ==
  ASSUME NEW W, NEW parts \in Seq(Seq(W)), NEW f, SumsOf(f, parts, W), NEW i \in 0 .. Len(parts)
  PROVE  /\ Len(f[i]) <= Len(FlattenSeq(parts))
         /\ \A m \in 1 .. Len(f[i]) : FlattenSeq(parts)[m] = f[i][m]
  <1> DEFINE n == Len(parts)
             Begins(x) == Len(f[i]) <= Len(f[x]) /\ \A m \in 1 .. Len(f[i]) : f[x][m] = f[i][m]
             G == {x \in 0 .. n : x <= i \/ Begins(x)}
  <1>0. n \in Nat /\ i \in Nat /\ i <= n /\ \A x \in 1 .. n : parts[x] \in Seq(W) /\ x - 1 \in 0 .. n
    OBVIOUS
  <1>1. /\ n \in Nat /\ i \in Nat /\ i <= n /\ f \in [0 .. n -> Seq(W)]
        /\ \A x \in 1 .. n : f[x] = f[x - 1] \o parts[x] /\ parts[x] \in Seq(W) /\ x - 1 \in 0 .. n
    BY <1>0 DEF SumsOf
  <1>2. 0 \in G
    BY <1>1
  <1>3. ASSUME NEW x \in 1 .. n, x - 1 \in G
        PROVE  x \in G
    <2>1. CASE x <= i
      BY <1>1, <2>1
    <2>2. CASE x > i
      <3>1. Begins(x - 1)
        <4>1. CASE x - 1 <= i
          <5>1. x - 1 = i
            BY <1>1, <2>2, <4>1
          <5> QED
            BY <1>1, <5>1
        <4>2. CASE ~(x - 1 <= i)
          BY <1>3, <4>2
        <4> QED
          BY <4>1, <4>2
      <3>2. f[x - 1] \in Seq(W) /\ parts[x] \in Seq(W) /\ f[x] = f[x - 1] \o parts[x] /\ f[i] \in Seq(W)
        BY <1>1
      <3> DEFINE u == f[x - 1]
                 v == parts[x]
                 r == f[x]
                 w == f[i]
      <3>3. u \in Seq(W) /\ v \in Seq(W) /\ r = u \o v /\ w \in Seq(W)
        BY <3>2
      <3>4. Len(w) <= Len(u) /\ \A m \in 1 .. Len(w) : u[m] = w[m]
        BY <3>1
      <3> HIDE DEF u, v, r, w
      <3>5. Len(w) <= Len(r) /\ \A m \in 1 .. Len(w) : r[m] = w[m]
        <4>1. Len(r) = Len(u) + Len(v) /\ \A m \in 1 .. Len(u) : r[m] = u[m]
          BY ONLY <3>3, Concatenated
        <4>2. Len(u) \in Nat /\ Len(v) \in Nat /\ Len(w) \in Nat
          BY ONLY <3>3
        <4>3. \A m \in 1 .. Len(w) : m \in 1 .. Len(u)
          BY ONLY <3>4, <4>2
        <4>4. Len(w) <= Len(r)
          BY ONLY <3>4, <4>1, <4>2
        <4> QED
          BY ONLY <3>4, <4>1, <4>3, <4>4
      <3>6. Begins(x)
        BY <3>5 DEF w, r
      <3> QED
        BY <1>1, <3>6
    <2> QED
      BY <1>1, <2>1, <2>2
  <1>4. n \in G
    <2> HIDE DEF G
    <2>1. n \in 0 .. n
      BY <1>1
    <2> QED
      BY <1>1, <1>2, <1>3, <2>1, UpTo
  <1>5. Begins(n)
    <2>1. CASE n <= i
      <3>1. n = i
        BY <1>1, <2>1
      <3> QED
        BY <1>1, <3>1
    <2> QED
      BY <1>4, <2>1
  <1>6. f[n] = FlattenSeq(parts)
    BY DEF SumsOf
  <1> QED
    BY <1>5, <1>6

\* FlattenSeq puts its parts one after the other.
LEMMA PartsExist ==
  ASSUME NEW W, NEW parts \in Seq(Seq(W))
  PROVE  \E p : Parted(p, FlattenSeq(parts), parts)
  <1> DEFINE n == Len(parts)
             s == FlattenSeq(parts)
  <1>1. PICK f : SumsOf(f, parts, W)
    BY SumsExist
  <1> DEFINE p == [i \in 0 .. n |-> Len(f[i])]
  <1>2. /\ n \in Nat /\ f \in [0 .. n -> Seq(W)] /\ f[0] = <<>> /\ f[n] = s
        /\ \A x \in 1 .. n : f[x] = f[x - 1] \o parts[x] /\ parts[x] \in Seq(W) /\ x - 1 \in 0 .. n
    <2>1. n \in Nat /\ \A x \in 1 .. n : parts[x] \in Seq(W) /\ x - 1 \in 0 .. n
      OBVIOUS
    <2>2. f \in [0 .. n -> Seq(W)] /\ f[0] = <<>> /\ f[n] = s /\ \A x \in 1 .. n : f[x] = f[x - 1] \o parts[x]
      BY <1>1 DEF SumsOf
    <2> HIDE DEF n, s
    <2> QED
      BY <2>1, <2>2
  <1>3. \A x \in 0 .. n : Len(f[x]) \in Nat
    BY <1>2
  <1>4. p \in [0 .. n -> Nat] /\ p[0] = 0 /\ p[n] = Len(s)
    BY <1>2, <1>3
  <1>5. ASSUME NEW i \in 1 .. n
        PROVE  /\ p[i] = p[i - 1] + Len(parts[i]) /\ p[i] <= Len(s)
               /\ \A m \in 1 .. Len(parts[i]) : s[p[i - 1] + m] = parts[i][m]
    <2>1. i \in 0 .. n /\ i - 1 \in 0 .. n /\ p[i] = Len(f[i]) /\ p[i - 1] = Len(f[i - 1])
      BY <1>2
    <2>2. f[i - 1] \in Seq(W) /\ parts[i] \in Seq(W) /\ f[i] = f[i - 1] \o parts[i]
      BY <1>2, <2>1
    <2>3. Len(f[i]) <= Len(s) /\ \A m \in 1 .. Len(f[i]) : s[m] = f[i][m]
      BY <1>1, <2>1, SumsBegin
    <2> DEFINE u == f[i - 1]
               v == parts[i]
               r == f[i]
    <2>4. u \in Seq(W) /\ v \in Seq(W) /\ r = u \o v
      BY <2>2
    <2>5. Len(r) <= Len(s) /\ \A m \in 1 .. Len(r) : s[m] = r[m]
      BY <2>3
    <2>6. p[i] = Len(r) /\ p[i - 1] = Len(u)
      BY <2>1
    <2> HIDE DEF u, v, r, s, p
    <2>7. /\ Len(r) = Len(u) + Len(v) /\ Len(u) \in Nat /\ Len(v) \in Nat
          /\ \A m \in 1 .. Len(v) : r[Len(u) + m] = v[m]
      BY ONLY <2>4, Concatenated
    <2>8. \A m \in 1 .. Len(v) : s[Len(u) + m] = v[m]
      <3>1. \A m \in 1 .. Len(v) : Len(u) + m \in 1 .. Len(r)
        BY ONLY <2>7
      <3> QED
        BY ONLY <2>5, <2>7, <3>1
    <2> QED
      BY <2>5, <2>6, <2>7, <2>8 DEF v
  <1> HIDE DEF p, s
  <1>6. Parted(p, s, parts)
    BY <1>4, <1>5 DEF Parted
  <1> QED
    BY <1>6 DEF s

\* A word of these tokens stands between the places a and e of the line, in quotes if q is 1;
\* p[j] is the place after j tokens.
WordAt(line, toks, q, a, e, p) ==
  /\ a \in Nat /\ e \in Nat /\ e <= Len(line)
  /\ p[0] = a + q /\ e = p[Len(toks)] + q
  /\ \A j \in 0 .. Len(toks) : p[j] \in Nat /\ p[j] + q <= e
  /\ \A j \in 1 .. Len(toks) :
       /\ p[j] = p[j - 1] + Len(toks[j])
       /\ \A m \in 1 .. Len(toks[j]) : line[p[j - 1] + m] = toks[j][m]
  /\ q = 1 => a + 1 <= e /\ line[a + 1] = "dq" /\ line[e] = "dq"

InQuotes(s, q) == IF q = 1 THEN <<"dq">> \o s \o <<"dq">> ELSE s

LEMMA InQuotesIs ==
  ASSUME NEW s \in Word, NEW q \in {0, 1}
  PROVE  /\ InQuotes(s, q) \in Word /\ Len(s) \in Nat /\ Len(InQuotes(s, q)) = Len(s) + q + q
         /\ \A m \in 1 .. Len(s) : InQuotes(s, q)[q + m] = s[m]
         /\ q = 1 => InQuotes(s, q)[1] = "dq" /\ InQuotes(s, q)[Len(s) + 2] = "dq"
  <1>1. "dq" \in Characters
    BY DimcliArgvAssumption DEF Quotes
  <1>2. s \in Seq(Characters) /\ <<"dq">> \in Seq(Characters)
    BY <1>1 DEF Word
  <1> QED
    BY <1>2 DEF InQuotes, Word

\* What the line has after place a is w.
Stands(line, a, w) == a + Len(w) <= Len(line) /\ \A m \in 1 .. Len(w) : line[a + m] = w[m]

Shifted(p, r, c, n) == \A j \in 0 .. n : p[j] = c + r[j]

\* Where w stands on the line, its tokens stand.
LEMMA WordIsAt ==
  ASSUME NEW line, Len(line) \in Nat, NEW toks \in Seq(Word), NEW q \in {0, 1}, NEW a \in Nat,
         NEW s \in Word, NEW r, Parted(r, s, toks),
         Stands(line, a, InQuotes(s, q)), NEW e, e = a + Len(s) + q + q,
         NEW p, Shifted(p, r, a + q, Len(toks))
  PROVE  WordAt(line, toks, q, a, e, p)
  <1> DEFINE n == Len(toks)
             z == Len(s)
             w == InQuotes(s, q)
  <1>1. /\ z \in Nat /\ \A m \in 1 .. z : w[q + m] = s[m]
        /\ q = 1 => w[1] = "dq" /\ w[z + 2] = "dq"
    BY InQuotesIs
  <1>2. n \in Nat /\ \A j \in 1 .. n : toks[j] \in Word /\ Len(toks[j]) \in Nat
    BY DEF Word
  <1>3. /\ r \in [0 .. n -> Nat] /\ r[0] = 0 /\ r[n] = z
        /\ \A j \in 1 .. n : /\ r[j] = r[j - 1] + Len(toks[j]) /\ r[j] <= z
                             /\ \A m \in 1 .. Len(toks[j]) : s[r[j - 1] + m] = toks[j][m]
    BY DEF Parted
  <1>4. e = a + z + q + q /\ e <= Len(line) /\ \A m \in 1 .. z + q + q : line[a + m] = w[m]
    <2>1. Len(w) = z + q + q /\ z \in Nat
      BY InQuotesIs
    <2>2. a + Len(w) <= Len(line) /\ \A m \in 1 .. Len(w) : line[a + m] = w[m]
      BY DEF Stands
    <2> HIDE DEF w
    <2> QED
      BY <2>1, <2>2
  <1>5. \A j \in 0 .. n : p[j] = a + q + r[j] /\ r[j] \in Nat /\ r[j] <= z
    BY <1>1, <1>3 DEF Shifted
  <1> HIDE DEF w, z, n
  <1>6. e \in Nat /\ e = a + z + q + q
    BY <1>1 DEF z
  <1>7. p[0] = a + q /\ p[n] + q = e
    <2>1. 0 \in 0 .. n /\ n \in 0 .. n
      BY <1>2
    <2>2. p[0] = a + q + 0 /\ p[n] = a + q + z
      BY <1>3, <1>5, <2>1
    <2> QED
      BY <1>1, <1>6, <2>2
  <1>8. ASSUME NEW j \in 0 .. n
        PROVE  p[j] \in Nat /\ p[j] + q <= e
    <2> DEFINE x == p[j]
               y == r[j]
    <2>1. x = a + q + y /\ y \in Nat /\ y <= z
      BY <1>5
    <2> HIDE DEF x, y
    <2>2. x \in Nat /\ x + q <= e
      BY <1>1, <1>6, <2>1
    <2> QED
      BY <2>2 DEF x
  <1>9. ASSUME NEW j \in 1 .. n
        PROVE  /\ p[j] = p[j - 1] + Len(toks[j])
               /\ \A m \in 1 .. Len(toks[j]) : line[p[j - 1] + m] = toks[j][m]
    <2> DEFINE i == j - 1
               b == Len(toks[j])
    <2>1. i \in 0 .. n /\ j \in 0 .. n
      BY <1>2
    <2>2. b \in Nat /\ r[j] = r[i] + b /\ \A m \in 1 .. b : s[r[i] + m] = toks[j][m]
      BY <1>2, <1>3
    <2>3. p[j] = a + q + r[j] /\ p[i] = a + q + r[i] /\ r[i] \in Nat /\ r[j] \in Nat /\ r[j] <= z
      BY <1>5, <2>1
    <2> HIDE DEF i, b
    <2>4. p[j] = p[i] + b
      BY <2>2, <2>3
    <2>5. ASSUME NEW m \in 1 .. b
          PROVE  line[p[i] + m] = toks[j][m]
      <3> DEFINE x == r[i] + m
      <3>1. x \in 1 .. z /\ q + x \in 1 .. z + q + q /\ p[i] + m = a + (q + x)
        <4> DEFINE y == r[i]
                   v == p[i]
                   u == r[j]
        <4>1. /\ v = a + q + y /\ y \in Nat /\ u \in Nat /\ u <= z /\ u = y + b /\ b \in Nat
              /\ x = y + m /\ m \in 1 .. b /\ q \in {0, 1} /\ a \in Nat /\ z \in Nat
          BY <1>1, <2>2, <2>3
        <4> HIDE DEF y, v, u, x
        <4>2. x \in 1 .. z /\ q + x \in 1 .. z + q + q /\ v + m = a + (q + x)
          BY ONLY <4>1
        <4> QED
          BY <4>2 DEF v
      <3>2. s[x] = toks[j][m]
        BY <2>2
      <3> HIDE DEF x
      <3>3. line[a + (q + x)] = w[q + x] /\ w[q + x] = s[x]
        BY <1>1, <1>4, <3>1
      <3> QED
        BY <3>1, <3>2, <3>3
    <2> QED
      BY <2>4, <2>5 DEF i, b
  <1>10. q = 1 => a + 1 <= e /\ line[a + 1] = "dq" /\ line[e] = "dq"
    <2>1. q = 1 => 1 \in 1 .. z + q + q /\ z + 2 \in 1 .. z + q + q /\ e = a + (z + 2)
      <3>1. z \in Nat /\ a \in Nat /\ e = a + z + q + q
        BY <1>1, <1>6
      <3> QED
        BY ONLY <3>1
    <2> QED
      BY <1>1, <1>4, <2>1
  <1> QED
    BY <1>4, <1>6, <1>7, <1>8, <1>9, <1>10 DEF WordAt, n

Margin(Q, k) == IF k \in Q THEN 1 ELSE 0

\* The words of these tokens stand one after the other, a space between two.
LaidOut(line, toks, Q, A, E, P) ==
  /\ \A k \in 1 .. Len(toks) : WordAt(line, toks[k], Margin(Q, k), A[k], E[k], P[k])
  /\ Len(toks) = 0 => line = <<>>
  /\ Len(toks) # 0 => A[1] = 0 /\ E[Len(toks)] = Len(line)
  /\ \A k \in 1 .. Len(toks) :
       k # Len(toks) => E[k] < Len(line) /\ line[E[k] + 1] = "sp" /\ A[k + 1] = E[k] + 1

\* Separated puts the words one after the other, a space between two.
LEMMA SeparatedIsLaidOut ==
  ASSUME NEW toks \in Seq(Seq(Word)), NEW Q, NEW line,
         line = Separated([k \in 1 .. Len(toks) |-> InQuotes(FlattenSeq(toks[k]), Margin(Q, k))])
  PROVE  \E A, E, P : LaidOut(line, toks, Q, A, E, P)
  <1> DEFINE n == Len(toks)
             s(k) == FlattenSeq(toks[k])
             q(k) == Margin(Q, k)
             words == [k \in 1 .. n |-> InQuotes(s(k), q(k))]
             parts == [k \in 1 .. n |-> IF k = 1 THEN words[k] ELSE <<"sp">> \o words[k]]
             r(k) == CHOOSE x : Parted(x, s(k), toks[k])
  <1>1. n \in Nat /\ \A k \in 1 .. n : toks[k] \in Seq(Seq(Characters)) /\ q(k) \in {0, 1}
    BY DEF Word, Margin
  <1>2. \A k \in 1 .. n : s(k) \in Word /\ Len(s(k)) \in Nat
    BY <1>1, FlatFunction DEF Word
  <1>3. \A k \in 1 .. n : Parted(r(k), s(k), toks[k])
    <2> TAKE k \in 1 .. n
    <2>1. \E x : Parted(x, s(k), toks[k])
      BY <1>1, PartsExist
    <2> QED
      BY <2>1
  <1>4. \A k \in 1 .. n : words[k] = InQuotes(s(k), q(k)) /\ words[k] \in Word
                          /\ Len(words[k]) = Len(s(k)) + q(k) + q(k)
    BY <1>1, <1>2, InQuotesIs
  <1>5. line = FlattenSeq(parts)
    <2>1. DOMAIN words = 1 .. n
      OBVIOUS
    <2> QED
      BY <2>1 DEF Separated
  <1> HIDE DEF words
  <1> DEFINE lead(k) == IF k = 1 THEN 0 ELSE 1
  <1>6. \A k \in 1 .. n : /\ parts[k] \in Word /\ Len(parts[k]) = lead(k) + Len(words[k])
                          /\ \A m \in 1 .. Len(words[k]) : parts[k][lead(k) + m] = words[k][m]
                          /\ k # 1 => parts[k][1] = "sp"
    <2>1. "sp" \in Characters
      BY DimcliArgvAssumption DEF White, Blank
    <2> TAKE k \in 1 .. n
    <2>2. words[k] \in Seq(Characters) /\ <<"sp">> \in Seq(Characters)
      BY <1>4, <2>1 DEF Word
    <2>3. CASE k = 1
      BY <2>2, <2>3 DEF Word
    <2>4. CASE k # 1
      BY <2>2, <2>4 DEF Word
    <2> QED
      BY <2>3, <2>4
  <1> DEFINE ps == parts
  <1>14. ps = [k \in 1 .. n |-> ps[k]]
    OBVIOUS
  <1> HIDE DEF parts
  <1>7. parts \in Seq(Seq(Characters)) /\ Len(parts) = n
    <2>1. n \in Nat /\ \A k \in 1 .. n : parts[k] \in Seq(Characters)
      BY <1>1, <1>6 DEF Word
    <2>2. parts = [k \in 1 .. n |-> parts[k]]
      BY <1>14
    <2> HIDE DEF n
    <2> QED
      BY ONLY <2>1, <2>2
  <1>8. PICK d : Parted(d, line, parts)
    BY <1>5, <1>7, PartsExist
  <1>9. /\ d \in [0 .. n -> Nat] /\ d[0] = 0 /\ d[n] = Len(line)
        /\ \A k \in 1 .. n : /\ d[k] = d[k - 1] + Len(parts[k]) /\ d[k] <= Len(line)
                             /\ \A m \in 1 .. Len(parts[k]) : line[d[k - 1] + m] = parts[k][m]
    BY <1>7, <1>8 DEF Parted
  <1> DEFINE A == [k \in 1 .. n |-> d[k - 1] + lead(k)]
             E == d
             P == [k \in 1 .. n |-> [j \in 0 .. Len(toks[k]) |-> A[k] + q(k) + r(k)[j]]]
  <1>10. Len(line) \in Nat
    <2>1. n \in 0 .. n
      BY <1>1
    <2> QED
      BY <1>9, <2>1
  <1>11. ASSUME NEW k \in 1 .. n
         PROVE  /\ WordAt(line, toks[k], q(k), A[k], E[k], P[k])
                /\ k # 1 => A[k] = E[k - 1] + 1 /\ line[E[k - 1] + 1] = "sp" /\ E[k - 1] < Len(line)
                /\ k = 1 => A[k] = 0
    <2> DEFINE i == k - 1
               u == parts[k]
               w == words[k]
               a == A[k]
               l == lead(k)
               z == Len(s(k))
               x == q(k)
    <2>1. i \in 0 .. n /\ k \in 0 .. n /\ d[i] \in Nat /\ d[k] \in Nat
      BY <1>1, <1>9
    <2>2. l \in {0, 1} /\ x \in {0, 1} /\ a = d[i] + l /\ z \in Nat
      BY <1>1, <1>2
    <2>3. Len(w) = z + x + x /\ Len(u) = l + Len(w)
      BY <1>4, <1>6
    <2>4. /\ \A m \in 1 .. Len(w) : u[l + m] = w[m]
          /\ k # 1 => u[1] = "sp"
      BY <1>6
    <2>5. d[k] = d[i] + Len(u) /\ d[k] <= Len(line) /\ \A m \in 1 .. Len(u) : line[d[i] + m] = u[m]
      BY <1>9
    <2>6. w = InQuotes(s(k), x) /\ P[k] = [j \in 0 .. Len(toks[k]) |-> a + x + r(k)[j]] /\ E[k] = d[k]
      BY <1>4
    <2>7. (k = 1 => l = 0 /\ i = 0) /\ (k # 1 => l = 1)
      OBVIOUS
    <2>8. Parted(r(k), s(k), toks[k]) /\ s(k) \in Word /\ toks[k] \in Seq(Word)
      BY <1>1, <1>2, <1>3 DEF Word
    <2> HIDE DEF i, u, w, a, l, z, x
    <2>9. a \in Nat /\ d[k] = a + z + x + x /\ a + z + x + x <= Len(line)
      <3> DEFINE di == d[i]
                 dk == d[k]
                 lw == Len(w)
                 lu == Len(u)
                 ll == Len(line)
      <3>1. /\ di \in Nat /\ dk = di + lu /\ dk <= ll /\ lw = z + x + x /\ lu = l + lw /\ a = di + l
            /\ l \in {0, 1} /\ x \in {0, 1} /\ z \in Nat
        BY <2>1, <2>2, <2>3, <2>5
      <3> HIDE DEF di, dk, lw, lu, ll
      <3>2. a \in Nat /\ dk = a + z + x + x /\ a + z + x + x <= ll
        BY ONLY <3>1
      <3> QED
        BY <3>2 DEF dk, ll
    <2>10. ASSUME NEW m, m \in 1 .. z + x + x
           PROVE  line[a + m] = w[m]
      <3>1. m \in 1 .. Len(w) /\ l + m \in 1 .. Len(u) /\ a + m = d[i] + (l + m)
        <4> DEFINE di == d[i]
                   lw == Len(w)
                   lu == Len(u)
        <4>1. /\ di \in Nat /\ lw = z + x + x /\ lu = l + lw /\ a = di + l
              /\ l \in {0, 1} /\ x \in {0, 1} /\ z \in Nat /\ m \in 1 .. z + x + x
          BY <2>1, <2>2, <2>3, <2>10
        <4> HIDE DEF di, lw, lu
        <4>2. m \in 1 .. lw /\ l + m \in 1 .. lu /\ a + m = di + (l + m)
          BY ONLY <4>1
        <4> QED
          BY <4>2 DEF di, lw, lu
      <3> QED
        BY <2>4, <2>5, <3>1
    <2>11. WordAt(line, toks[k], x, a, d[k], P[k])
      <3> DEFINE sk == s(k)
                 rk == r(k)
                 tk == toks[k]
                 p == [j \in 0 .. Len(tk) |-> a + x + rk[j]]
      <3>1. Parted(rk, sk, tk) /\ sk \in Word /\ tk \in Seq(Word) /\ z = Len(sk) /\ P[k] = p
        BY <2>6, <2>8 DEF z
      <3> HIDE DEF sk, rk, tk
      <3>4. Stands(line, a, InQuotes(sk, x))
        <4>1. InQuotes(sk, x) = w /\ Len(w) = z + x + x
          BY <2>3, <2>6 DEF sk
        <4> DEFINE c == Len(w)
                   ll == Len(line)
        <4>2. c = z + x + x /\ a \in Nat /\ z \in Nat /\ x \in {0, 1} /\ a + z + x + x <= ll
          BY <2>2, <2>9, <4>1
        <4> HIDE DEF c, ll
        <4>3. a + c <= ll /\ \A m \in 1 .. c : m \in 1 .. z + x + x
          BY ONLY <4>2
        <4>4. \A m \in 1 .. c : line[a + m] = w[m]
          BY <2>10, <4>3
        <4> QED
          BY <4>1, <4>3, <4>4 DEF Stands, c, ll
      <3>3. WordAt(line, tk, x, a, a + Len(sk) + x + x, p)
        <4> DEFINE e == a + Len(sk) + x + x
        <4>1. e = a + Len(sk) + x + x /\ Shifted(p, rk, a + x, Len(tk))
          BY DEF Shifted
        <4> HIDE DEF e, p
        <4>2. WordAt(line, tk, x, a, e, p)
          BY ONLY <1>10, <2>2, <2>9, <3>1, <3>4, <4>1, WordIsAt
        <4> QED
          BY <4>2 DEF e
      <3> HIDE DEF p
      <3> QED
        BY <2>9, <3>1, <3>3 DEF tk
    <2>12. k # 1 => a = d[i] + 1 /\ line[d[i] + 1] = "sp" /\ d[i] < Len(line)
      <3> SUFFICES ASSUME k # 1
                   PROVE  a = d[i] + 1 /\ line[d[i] + 1] = "sp" /\ d[i] < Len(line)
        OBVIOUS
      <3>1. Len(u) \in Nat /\ 1 \in 1 .. Len(u) /\ l = 1
        BY <2>2, <2>3, <2>7
      <3>2. line[d[i] + 1] = "sp"
        BY <2>4, <2>5, <3>1
      <3>3. d[i] < Len(line)
        BY <1>10, <2>1, <2>5, <3>1
      <3> QED
        BY <2>2, <3>1, <3>2, <3>3
    <2>13. k = 1 => a = 0
      BY <1>9, <2>2, <2>7
    <2> QED
      BY <2>11, <2>12, <2>13 DEF a, x, i
  <1> HIDE DEF A, P
  <1>12. n # 0 => A[1] = 0 /\ E[n] = Len(line)
    <2>1. n # 0 => 1 \in 1 .. n
      BY <1>1
    <2> QED
      BY <1>9, <1>11, <2>1
  <1>13. n = 0 => line = <<>>
    <2>1. n = 0 => parts = <<>>
      BY <1>7
    <2> QED
      BY <1>5, <2>1 DEF FlattenSeq
  <1>15. ASSUME NEW k \in 1 .. n, k # n
         PROVE  E[k] < Len(line) /\ line[E[k] + 1] = "sp" /\ A[k + 1] = E[k] + 1
    <2>1. k + 1 \in 1 .. n /\ k + 1 # 1 /\ (k + 1) - 1 = k
      BY <1>1, <1>15
    <2> QED
      BY <1>11, <2>1
  <1> HIDE DEF E
  <1>16. LaidOut(line, toks, Q, A, E, P)
    BY <1>11, <1>12, <1>13, <1>15 DEF LaidOut
  <1> QED
    BY <1>16

-----------------------------------------------------------------------------
(***************************************************************************)
(* Joined by backslashes, for buildargv and the shell.  At the place of a  *)
(* character, the argument being put together is what was read of the one  *)
(* given and the arguments found are those before it, unless an empty one  *)
(* or, for glib, a line feed was lost on the way; what was lost never      *)
(* comes back.                                                             *)
(***************************************************************************)
EscapedToken(c, S) == IF c \in S THEN <<"bs", c>> ELSE <<c>>

EscapedTokens(args, S) ==
  [k \in 1 .. Len(args) |-> [j \in 1 .. Len(args[k]) |-> EscapedToken(args[k][j], S)]]

LEMMA TokensAreWords ==
  ASSUME NEW args \in Seq(Word), NEW S
  PROVE  /\ EscapedTokens(args, S) \in Seq(Seq(Word)) /\ Len(EscapedTokens(args, S)) = Len(args)
         /\ \A k \in 1 .. Len(args) :
              /\ Len(EscapedTokens(args, S)[k]) = Len(args[k])
              /\ \A j \in 1 .. Len(args[k]) :
                   EscapedTokens(args, S)[k][j] = EscapedToken(args[k][j], S)
  <1> DEFINE toks == EscapedTokens(args, S)
             row(k) == [j \in 1 .. Len(args[k]) |-> EscapedToken(args[k][j], S)]
  <1>1. "bs" \in Characters
    BY DimcliArgvAssumption
  <1>2. ASSUME NEW k \in 1 .. Len(args)
        PROVE  row(k) \in Seq(Word) /\ Len(row(k)) = Len(args[k])
    <2>1. args[k] \in Seq(Characters) /\ Len(args[k]) \in Nat
      BY DEF Word
    <2>2. \A j \in 1 .. Len(args[k]) : EscapedToken(args[k][j], S) \in Word
      BY <1>1, <2>1 DEF EscapedToken, Word
    <2> QED
      BY <2>1, <2>2
  <1>3. Len(args) \in Nat /\ toks = [k \in 1 .. Len(args) |-> row(k)]
    BY DEF EscapedTokens
  <1>4. \A k \in 1 .. Len(args) : \A j \in 1 .. Len(args[k]) :
          row(k)[j] = EscapedToken(args[k][j], S)
    OBVIOUS
  <1> HIDE DEF row, toks
  <1>5. toks \in Seq(Seq(Word)) /\ Len(toks) = Len(args) /\ \A k \in 1 .. Len(args) : toks[k] = row(k)
    BY <1>2, <1>3
  <1> QED
    BY <1>2, <1>4, <1>5 DEF toks

\* The places of a line joined by backslashes.
LEMMA EscapedIsLaidOut ==
  ASSUME NEW args \in Seq(Word), NEW S
  PROVE  \E A, E, P : LaidOut(Separated([i \in DOMAIN args |-> Escape(args[i], S)]),
                              EscapedTokens(args, S), {}, A, E, P)
  <1> DEFINE toks == EscapedTokens(args, S)
             words == [i \in DOMAIN args |-> Escape(args[i], S)]
             same == [k \in 1 .. Len(toks) |-> InQuotes(FlattenSeq(toks[k]), Margin({}, k))]
  <1>1. DOMAIN args = 1 .. Len(args) /\ Len(toks) = Len(args) /\ toks \in Seq(Seq(Word))
    BY TokensAreWords
  <1>2. ASSUME NEW k \in 1 .. Len(args)
        PROVE  InQuotes(FlattenSeq(toks[k]), Margin({}, k)) = Escape(args[k], S)
    <2>1. toks[k] = [j \in 1 .. Len(args[k]) |-> EscapedToken(args[k][j], S)]
      BY DEF EscapedTokens
    <2>2. DOMAIN args[k] = 1 .. Len(args[k])
      BY DEF Word
    <2>3. FlattenSeq(toks[k]) = Escape(args[k], S)
      BY <2>1, <2>2 DEF Escape, EscapedToken
    <2> QED
      BY <2>3 DEF InQuotes, Margin
  <1>3. words = same
    BY <1>1, <1>2
  <1> DEFINE line == Separated(words)
  <1>4. line = Separated(same)
    BY <1>3
  <1> HIDE DEF toks, words, line
  <1>5. \E A, E, P : LaidOut(line, toks, {}, A, E, P)
    BY <1>1, <1>4, SeparatedIsLaidOut
  <1> QED
    BY <1>5 DEF line, words, toks

\* What is known of a line after j characters of argument k, in mode m with argument a and
\* arguments o before it: no argument is empty, glib has none with a line feed, and if that
\* can be said of what was read, they are the arguments given.
Fine(cnv, w) == w # <<>> /\ (cnv = "glib" => \A i \in DOMAIN w : w[i] # "nl")

SameSoFar(cnv, args, k, j, m, a, o) ==
  /\ m \in {"gap", "unquoted"} /\ (m = "gap" <=> a = <<>>)
  /\ cnv = "glib" => \A i \in DOMAIN a : a[i] # "nl"
  /\ \A i \in DOMAIN o : Fine(cnv, o[i])
  /\ \/ \E i \in 1 .. k - 1 : ~Fine(cnv, args[i])
     \/ cnv = "glib" /\ \E i \in 1 .. j : args[k][i] = "nl"
     \/ a = SubSeq(args[k], 1, j) /\ o = SubSeq(args, 1, k - 1)

LEMMA PrefixGrows ==
  ASSUME NEW W, NEW s \in Seq(W), NEW j \in 0 .. Len(s), j < Len(s)
  PROVE  j + 1 \in 1 .. Len(s) /\ SubSeq(s, 1, j + 1) = Append(SubSeq(s, 1, j), s[j + 1])
  OBVIOUS

LEMMA Appended ==
  ASSUME NEW W, NEW s \in Seq(W), NEW c \in W, NEW b, b = Append(s, c)
  PROVE  b # <<>> /\ \A i \in DOMAIN b : b[i] = c \/ (i \in DOMAIN s /\ b[i] = s[i])
  <1>1. Len(b) = Len(s) + 1 /\ Len(s) \in Nat /\ DOMAIN b = 1 .. Len(b) /\ DOMAIN s = 1 .. Len(s)
    OBVIOUS
  <1>2. b # <<>>
    OBVIOUS
  <1>3. \A i \in 1 .. Len(s) + 1 : IF i = Len(s) + 1 THEN b[i] = c ELSE b[i] = s[i]
    OBVIOUS
  <1>4. \A i \in 1 .. Len(s) + 1 : b[i] = c \/ (i \in 1 .. Len(s) /\ b[i] = s[i])
    <2> DEFINE n == Len(s)
    <2>1. n \in Nat /\ \A i \in 1 .. n + 1 : IF i = n + 1 THEN b[i] = c ELSE b[i] = s[i]
      BY <1>1, <1>3
    <2> HIDE DEF n
    <2>2. \A i \in 1 .. n + 1 : b[i] = c \/ (i \in 1 .. n /\ b[i] = s[i])
      <3>1. \A i \in 1 .. n + 1 : i # n + 1 => i \in 1 .. n
        BY ONLY <2>1
      <3> QED
        BY ONLY <2>1, <3>1
    <2> QED
      BY <2>2 DEF n
  <1> QED
    BY ONLY <1>1, <1>2, <1>4

\* One more character was read, ...
LEMMA SameAfterCharacter ==
  ASSUME NEW cnv, NEW args \in Seq(Word), NEW k \in 1 .. Len(args), NEW j \in 0 .. Len(args[k]),
         j < Len(args[k]), NEW m, NEW a \in Word, NEW o \in Seq(Word),
         SameSoFar(cnv, args, k, j, m, a, o),
         cnv = "glib" => args[k][j + 1] # "nl"
  PROVE  SameSoFar(cnv, args, k, j + 1, "unquoted", Append(a, args[k][j + 1]), o)
  <1> DEFINE w == args[k]
             c == w[j + 1]
             b == Append(a, c)
  <1>1. w \in Seq(Characters) /\ a \in Seq(Characters) /\ Len(a) \in Nat
    BY DEF Word
  <1>2. j + 1 \in 1 .. Len(w) /\ SubSeq(w, 1, j + 1) = Append(SubSeq(w, 1, j), c)
    BY <1>1, PrefixGrows
  <1>3. c \in Characters
    BY <1>1, <1>2
  <1> HIDE DEF c
  <1>4. b # <<>> /\ \A i \in DOMAIN b : b[i] = c \/ (i \in DOMAIN a /\ b[i] = a[i])
    <2>1. b = Append(a, c) /\ a \in Seq(Characters) /\ c \in Characters
      BY <1>1, <1>3
    <2> HIDE DEF b
    <2>2. b # <<>>
      BY ONLY <2>1, Appended
    <2>3. \A i \in DOMAIN b : b[i] = c \/ (i \in DOMAIN a /\ b[i] = a[i])
      BY ONLY <2>1, Appended
    <2> QED
      BY <2>2, <2>3
  <1>5. \A i \in 1 .. j : i \in 1 .. j + 1
    OBVIOUS
  <1>6. cnv = "glib" => c # "nl"
    BY DEF c
  <1> HIDE DEF b, w
  <1>7. \/ \E i \in 1 .. k - 1 : ~Fine(cnv, args[i])
        \/ cnv = "glib" /\ \E i \in 1 .. j : args[k][i] = "nl"
        \/ a = SubSeq(args[k], 1, j) /\ o = SubSeq(args, 1, k - 1)
    BY DEF SameSoFar
  <1>8. \/ \E i \in 1 .. k - 1 : ~Fine(cnv, args[i])
        \/ cnv = "glib" /\ \E i \in 1 .. j + 1 : args[k][i] = "nl"
        \/ b = SubSeq(args[k], 1, j + 1) /\ o = SubSeq(args, 1, k - 1)
    BY <1>2, <1>5, <1>7 DEF b, w
  <1>9. cnv = "glib" => \A i \in DOMAIN b : b[i] # "nl"
    BY <1>4, <1>6 DEF SameSoFar
  <1>10. SameSoFar(cnv, args, k, j + 1, "unquoted", b, o)
    BY <1>4, <1>8, <1>9 DEF SameSoFar
  <1> QED
    BY <1>10 DEF b, c, w

\* ... a line feed was lost by glib, ...
LEMMA SameAfterLineFeed ==
  ASSUME NEW args \in Seq(Word), NEW k \in 1 .. Len(args), NEW j \in 0 .. Len(args[k]),
         NEW m, NEW a, NEW o, SameSoFar("glib", args, k, j, m, a, o), args[k][j + 1] = "nl"
  PROVE  SameSoFar("glib", args, k, j + 1, m, a, o)
  <1>1. j + 1 \in 1 .. j + 1
    BY DEF Word
  <1> QED
    BY <1>1 DEF SameSoFar

\* The same of the arguments p found when k arguments were read.
SameUpTo(cnv, args, k, p) ==
  /\ \A i \in DOMAIN p : Fine(cnv, p[i])
  /\ (\E i \in 1 .. k : ~Fine(cnv, args[i])) \/ p = SubSeq(args, 1, k)

\* ... or an argument has ended.
LEMMA SameAfterArgument ==
  ASSUME NEW cnv, NEW args \in Seq(Word), NEW k \in 1 .. Len(args), NEW m, NEW a \in Word,
         NEW o \in Seq(Word), SameSoFar(cnv, args, k, Len(args[k]), m, a, o),
         NEW p, p = IF m = "gap" THEN o ELSE Append(o, a)
  PROVE  SameUpTo(cnv, args, k, p)
  <1> DEFINE w == args[k]
  <1>1. w \in Seq(Characters) /\ Len(w) \in Nat /\ DOMAIN w = 1 .. Len(w) /\ SubSeq(w, 1, Len(w)) = w
    BY DEF Word
  <1>2. ASSUME NEW i \in DOMAIN p
        PROVE  Fine(cnv, p[i])
    <2>1. CASE m = "gap"
      BY <2>1 DEF SameSoFar
    <2>2. CASE m # "gap"
      <3>1. Fine(cnv, a)
        BY <2>2 DEF SameSoFar, Fine
      <3>2. p[i] = a \/ (i \in DOMAIN o /\ p[i] = o[i])
        <4>1. p = Append(o, a)
          BY <2>2
        <4> QED
          BY <1>2, <4>1, Appended
      <3> QED
        BY <3>1, <3>2 DEF SameSoFar
    <2> QED
      BY <2>1, <2>2
  <1>3. ASSUME \A i \in 1 .. k : Fine(cnv, args[i])
        PROVE  p = SubSeq(args, 1, k)
    <2>1. k \in 1 .. k /\ \A i \in 1 .. k - 1 : i \in 1 .. k
      OBVIOUS
    <2>2. Fine(cnv, w)
      BY <1>3, <2>1
    <2>3. a = w /\ o = SubSeq(args, 1, k - 1)
      BY <1>1, <1>3, <2>1, <2>2 DEF SameSoFar, Fine
    <2>4. m # "gap"
      BY <2>2, <2>3 DEF SameSoFar, Fine
    <2>5. k - 1 \in 0 .. Len(args) /\ k - 1 < Len(args) /\ (k - 1) + 1 = k
      OBVIOUS
    <2>6. SubSeq(args, 1, k) = Append(SubSeq(args, 1, k - 1), args[k])
      BY <2>5, PrefixGrows
    <2> QED
      BY <2>3, <2>4, <2>6
  <1> QED
    BY <1>2, <1>3 DEF SameUpTo

OfBackslashes == convention \in {"gnu", "glib"}
GluesOn == OfBackslashes /\ mode \in {"gap", "unquoted"} /\ backslashes = 0

\* With no backslashes to put back, the argument is as it stands.
LEMMA NoPending ==
  ASSUME ArgvTypes, backslashes = 0
  PROVE  Pending = arg
  <1>1. arg \in Seq(Characters) /\ [k \in 1 .. 0 |-> "bs"] = <<>>
    BY DEF ArgvTypes, Word
  <1> QED
    BY <1>1 DEF Pending

\* An escaped character is taken, save a line feed by glib.
LEMMA EscapeTurn ==
  ASSUME ArgvTypes, Split, GluesOn, ch = "bs", HasNext
  PROVE  /\ cur' = cur + 2 /\ backslashes' = 0 /\ UNCHANGED out
         /\ IF convention = "glib" /\ cmdline[cur + 1] = "nl"
            THEN UNCHANGED <<arg, mode>>
            ELSE arg' = Append(arg, cmdline[cur + 1]) /\ mode' = "unquoted"
  <1> DEFINE x == cmdline[cur + 1]
  <1>1. arg \in Seq(Characters) /\ x \in Characters
    BY TurnTypes DEF ArgvTypes, Word, Turn, Split
  <1>2. arg \o <<x>> = Append(arg, x) /\ arg \o <<>> = arg
    BY <1>1
  <1>3. ~OpenQuote(Quotes) /\ ~Separator(White) /\ ~CloseQuote /\ ~GlibComment
    BY DEF OpenQuote, Separator, CloseQuote, GlibComment, GluesOn, Quotes, White, Blank
  <1>4. InWord = "unquoted" /\ Outside
    BY DEF InWord, GluesOn, Outside
  <1>5. CASE convention = "gnu"
    <2>1. Escaped(<<x>>, InWord)
      BY <1>3, <1>5 DEF Split, toGnuArgv, Literal
    <2> QED
      BY <1>2, <1>4, <1>5, <2>1 DEF Escaped, GluesOn
  <1>6. CASE convention = "glib"
    <2>1. GlibEscape
      BY <1>3, <1>6 DEF Split, toGlibArgv, Literal, GluesOn
    <2>2. IF x = "nl" THEN Escaped(<<>>, mode) ELSE Escaped(<<x>>, InWord)
      BY <2>1 DEF GlibEscape, GluesOn
    <2> QED
      BY <1>2, <1>4, <1>6, <2>2 DEF Escaped, GluesOn
  <1> QED
    BY <1>5, <1>6 DEF GluesOn, OfBackslashes

\* A character that needs no backslash stands for itself.
LEMMA PlainTurn ==
  ASSUME ArgvTypes, Split, GluesOn, ch \notin White \cup Quotes \cup {"bs"},
         convention = "glib" => ch # "#"
  PROVE  cur' = cur + 1 /\ backslashes' = 0 /\ UNCHANGED out /\ arg' = Append(arg, ch) /\ mode' = "unquoted"
  <1>1. ~OpenQuote(Quotes) /\ ~Separator(White) /\ ~CloseQuote
    BY DEF OpenQuote, Separator, CloseQuote, GluesOn
  <1>2. \A s, m : ~Escaped(s, m)
    BY DEF Escaped
  <1>3. ~(convention = "glib" /\ (GlibEscape \/ GlibComment))
    BY <1>2 DEF GlibEscape, GlibComment, GluesOn
  <1>4. \E S : Literal(S)
    BY <1>1, <1>2, <1>3 DEF Split, toGnuArgv, toGlibArgv, GluesOn, OfBackslashes
  <1>5. InWord = "unquoted"
    BY DEF InWord, GluesOn
  <1>6. Pending = arg
    BY NoPending DEF GluesOn
  <1> QED
    BY <1>4, <1>5, <1>6 DEF Literal

\* A space outside quotes separates, by every convention.
LEMMA SpaceTurn ==
  ASSUME ArgvTypes, Split, Outside, ch = "sp"
  PROVE  /\ cur' = cur + 1 /\ backslashes' = 0 /\ arg' = <<>> /\ mode' = "gap"
         /\ out' = IF mode = "gap" THEN out ELSE Append(out, Pending)
  <1>1. ~OpenQuote(Quotes) /\ ~CloseQuote /\ ~GlibComment /\ ~WindowsBackslash /\ ~WindowsQuote
    BY DEF OpenQuote, CloseQuote, GlibComment, WindowsBackslash, WindowsQuote, Outside, Quotes
  <1>2. \A s, m : ~Escaped(s, m)
    BY DEF Escaped
  <1>3. ~GlibEscape
    BY <1>2 DEF GlibEscape
  <1>4. "sp" \in White /\ "sp" \in Blank
    BY DEF White, Blank
  <1>5. Separator(White) \/ Separator(Blank)
    BY <1>1, <1>2, <1>3, <1>4 DEF Split, toGnuArgv, toGlibArgv, toWindowsArgv, Literal, Outside
  <1> QED
    BY <1>5 DEF Separator

EscapedHere == White \cup Quotes \cup {"bs"} \cup IF convention = "glib" THEN {"$", "#"} ELSE {}

LEMMA JoinedByEscapes ==
  ASSUME given \in Seq(Word), OfBackslashes
  PROVE  \E A, E, P : LaidOut(Joined(given), EscapedTokens(given, EscapedHere), {}, A, E, P)
  <1>1. Joined(given) = Separated([i \in DOMAIN given |-> Escape(given[i], EscapedHere)])
    <2>1. CASE convention = "gnu"
      <3>1. EscapedHere = White \cup Quotes \cup {"bs"}
        BY <2>1 DEF EscapedHere
      <3> QED
        BY <2>1, <3>1 DEF Joined, toGnuCmdline
    <2>2. CASE convention = "glib"
      <3>1. EscapedHere = White \cup Quotes \cup {"bs", "$", "#"}
        BY <2>2 DEF EscapedHere
      <3> QED
        BY <2>2, <3>1 DEF Joined, toGlibCmdline
    <2> QED
      BY <2>1, <2>2 DEF OfBackslashes
  <1> QED
    BY <1>1, EscapedIsLaidOut

\* The place n is after j characters of argument k.
EscapedTo(cnv, line, args, S, n, m, a, o) ==
  \E A, E, P :
    /\ LaidOut(line, EscapedTokens(args, S), {}, A, E, P)
    /\ IF Len(args) = 0 THEN m = "gap" /\ o = <<>>
       ELSE \E k \in 1 .. Len(args) : \E j \in 0 .. Len(args[k]) :
              n = P[k][j] + 1 /\ SameSoFar(cnv, args, k, j, m, a, o)

FineNow == \A i \in DOMAIN given : Fine(convention, given[i])

EscapedIInv ==
  joined /\ OfBackslashes =>
    /\ pc = "join" => quote = "none" /\ backslashes = 0 /\ cur = 1
    /\ pc = "split" =>
         /\ backslashes = 0 /\ mode \in {"gap", "unquoted"}
         /\ EscapedTo(convention, cmdline, given, EscapedHere, cur, mode, arg, out)
    /\ pc = "done" => (out = given <=> FineNow)

\* What the line has at n, the place where j characters of argument k have been read: the next
\* of them, after a backslash when it is one of S; the space after the argument; or the end.
EscapedPlace(line, args, S, P, k, j, n) ==
  /\ j < Len(args[k]) =>
       IF args[k][j + 1] \in S
       THEN /\ n < Len(line) /\ line[n] = "bs" /\ line[n + 1] = args[k][j + 1]
            /\ n + 2 = P[k][j + 1] + 1
       ELSE n <= Len(line) /\ line[n] = args[k][j + 1] /\ n + 1 = P[k][j + 1] + 1
  /\ j = Len(args[k]) /\ k < Len(args) =>
       /\ n <= Len(line) /\ line[n] = "sp"
       /\ k + 1 \in 1 .. Len(args) /\ n + 1 = P[k + 1][0] + 1
  /\ j = Len(args[k]) /\ k = Len(args) => n = Len(line) + 1

\* What the line has at a place of the layout.
LEMMA EscapedAtPlace ==
  ASSUME NEW args \in Seq(Word), NEW S, NEW line, Len(line) \in Nat, NEW A, NEW E, NEW P,
         LaidOut(line, EscapedTokens(args, S), {}, A, E, P),
         NEW k \in 1 .. Len(args), NEW j \in 0 .. Len(args[k]), NEW n, n = P[k][j] + 1
  PROVE  EscapedPlace(line, args, S, P, k, j, n)
  <1> DEFINE toks == EscapedTokens(args, S)
             N == Len(args)
             L == Len(args[k])
  <1>1. /\ toks \in Seq(Seq(Word)) /\ Len(toks) = N /\ Len(toks[k]) = L
        /\ \A i \in 1 .. L : toks[k][i] = EscapedToken(args[k][i], S)
    BY TokensAreWords
  <1> HIDE DEF toks
  <1>2. N \in Nat /\ L \in Nat /\ k \in Nat /\ j \in Nat /\ j <= L
    BY DEF Word
  <1>3. \A i \in 1 .. N : WordAt(line, toks[i], 0, A[i], E[i], P[i])
    BY <1>1 DEF LaidOut, Margin, toks
  <1>4. /\ E[k] \in Nat /\ E[k] <= Len(line) /\ E[k] = P[k][L] + 0
        /\ \A i \in 0 .. L : P[k][i] \in Nat /\ P[k][i] + 0 <= E[k]
        /\ \A i \in 1 .. L : /\ P[k][i] = P[k][i - 1] + Len(toks[k][i])
                             /\ \A m \in 1 .. Len(toks[k][i]) : line[P[k][i - 1] + m] = toks[k][i][m]
    <2>1. WordAt(line, toks[k], 0, A[k], E[k], P[k]) /\ Len(toks[k]) = L
      BY <1>1, <1>3
    <2> DEFINE tk == toks[k]
               Ek == E[k]
               Ak == A[k]
               Pk == P[k]
    <2>2. WordAt(line, tk, 0, Ak, Ek, Pk) /\ Len(tk) = L
      BY <2>1
    <2> HIDE DEF tk, Ek, Ak, Pk, L
    <2>3. /\ Ek \in Nat /\ Ek <= Len(line) /\ Ek = Pk[L] + 0
          /\ \A i \in 0 .. L : Pk[i] \in Nat /\ Pk[i] + 0 <= Ek
      BY ONLY <2>2 DEF WordAt
    <2>4. \A i \in 1 .. L : /\ Pk[i] = Pk[i - 1] + Len(tk[i])
                            /\ \A m \in 1 .. Len(tk[i]) : line[Pk[i - 1] + m] = tk[i][m]
      BY ONLY <2>2 DEF WordAt
    <2> QED
      BY <2>3, <2>4 DEF tk, Ek, Pk
  <1>5. ASSUME j < L
        PROVE  IF args[k][j + 1] \in S
               THEN /\ n < Len(line) /\ line[n] = "bs" /\ line[n + 1] = args[k][j + 1]
                    /\ n + 2 = P[k][j + 1] + 1
               ELSE n <= Len(line) /\ line[n] = args[k][j + 1] /\ n + 1 = P[k][j + 1] + 1
    <2> DEFINE c == args[k][j + 1]
               t == EscapedToken(c, S)
               a == P[k][j]
               b == P[k][j + 1]
               z == Len(line)
    <2>1. j + 1 \in 1 .. L /\ (j + 1) - 1 = j /\ j + 1 \in 0 .. L /\ j \in 0 .. L
      BY <1>2, <1>5
    <2>2. /\ a \in Nat /\ b \in Nat /\ b + 0 <= E[k] /\ b = a + Len(t)
          /\ \A m \in 1 .. Len(t) : line[a + m] = t[m]
      <3>1. toks[k][j + 1] = t
        BY <1>1, <2>1
      <3>2. a \in Nat /\ b \in Nat /\ b + 0 <= E[k]
        BY <1>4, <2>1
      <3>3. /\ b = a + Len(toks[k][j + 1])
            /\ \A m \in 1 .. Len(toks[k][j + 1]) : line[a + m] = toks[k][j + 1][m]
        <4> HIDE DEF L
        <4> QED
          BY ONLY <1>4, <2>1
      <3> HIDE DEF t, a, b
      <3> QED
        BY ONLY <3>1, <3>2, <3>3
    <2>3. b <= z /\ z \in Nat /\ n = a + 1
      <3> DEFINE e == E[k]
      <3>1. e \in Nat /\ e <= z /\ z \in Nat /\ b \in Nat /\ b + 0 <= e
        BY <1>4, <2>2
      <3>2. n = a + 1
        OBVIOUS
      <3> HIDE DEF a, b, z, e
      <3> QED
        BY ONLY <3>1, <3>2
    <2> HIDE DEF a, b, c
    <2>4. CASE c \in S
      <3>1. t = <<"bs", c>> /\ Len(t) = 2
        BY <2>4 DEF EscapedToken
      <3>2. line[a + 1] = "bs" /\ line[a + 2] = c /\ b = a + 2
        BY <2>2, <3>1
      <3> HIDE DEF z, t
      <3>3. n < z /\ n + 1 = a + 2 /\ n + 2 = b + 1
        BY <2>2, <2>3, <3>2
      <3> QED
        BY <2>3, <2>4, <3>2, <3>3 DEF c, b, z
    <2>5. CASE c \notin S
      <3>1. t = <<c>> /\ Len(t) = 1
        BY <2>5 DEF EscapedToken
      <3>2. line[a + 1] = c /\ b = a + 1
        BY <2>2, <3>1
      <3> HIDE DEF z, t
      <3>3. n <= z /\ n + 1 = b + 1
        BY <2>2, <2>3, <3>2
      <3> QED
        BY <2>3, <2>5, <3>2, <3>3 DEF c, b, z
    <2> QED
      BY <2>4, <2>5
  <1>6. ASSUME j = L, k < N
        PROVE  /\ n <= Len(line) /\ line[n] = "sp"
               /\ k + 1 \in 1 .. N /\ n + 1 = P[k + 1][0] + 1
    <2>1. E[k] < Len(line) /\ line[E[k] + 1] = "sp" /\ A[k + 1] = E[k] + 1 /\ k + 1 \in 1 .. N
      BY <1>1, <1>2, <1>6 DEF LaidOut, toks
    <2>2. P[k + 1][0] = A[k + 1] + 0
      BY <1>3, <2>1 DEF WordAt
    <2>3. n = E[k] + 1
      BY <1>4, <1>6
    <2> DEFINE e == E[k]
               d == A[k + 1]
               q == P[k + 1][0]
    <2>4. e \in Nat /\ e < Len(line) /\ line[e + 1] = "sp" /\ d = e + 1 /\ q = d + 0 /\ n = e + 1
      BY <1>4, <2>1, <2>2, <2>3
    <2> HIDE DEF e, d, q
    <2>5. n <= Len(line) /\ line[n] = "sp" /\ n + 1 = q + 1
      BY <2>4
    <2> QED
      BY <2>1, <2>5 DEF q
  <1>7. ASSUME j = L, k = N
        PROVE  n = Len(line) + 1
    <2>1. E[k] = Len(line)
      BY <1>1, <1>2, <1>7 DEF LaidOut, toks
    <2>2. n = E[k] + 1
      BY <1>4, <1>7
    <2> QED
      BY <2>1, <2>2
  <1> QED
    BY ONLY <1>5, <1>6, <1>7 DEF EscapedPlace

\* A turn goes on to the place of the next character, or of the next argument.
LEMMA EscapedSplitKeeps ==
  ASSUME ArgvTypes, EscapedIInv, joined, OfBackslashes, Split
  PROVE  backslashes' = 0 /\ mode' \in {"gap", "unquoted"}
         /\ EscapedTo(convention, cmdline, given, EscapedHere, cur', mode', arg', out')
  <1> DEFINE cnv == convention
             S == EscapedHere
             Is(A, E, P) == LaidOut(cmdline, EscapedTokens(given, S), {}, A, E, P)
  <1>1. /\ pc = "split" /\ cur <= Len(cmdline) /\ given \in Seq(Word) /\ Len(given) \in Nat
        /\ Len(cmdline) \in Nat /\ cur \in Nat /\ cur >= 1
    BY DEF Split, ArgvTypes, Word
  <1>2. GluesOn /\ EscapedTo(cnv, cmdline, given, S, cur, mode, arg, out)
    BY <1>1 DEF EscapedIInv, GluesOn
  <1>3. PICK A, E, P :
          /\ Is(A, E, P)
          /\ IF Len(given) = 0 THEN mode = "gap" /\ out = <<>>
             ELSE \E k \in 1 .. Len(given) : \E j \in 0 .. Len(given[k]) :
                    cur = P[k][j] + 1 /\ SameSoFar(cnv, given, k, j, mode, arg, out)
    BY <1>2 DEF EscapedTo
  <1>4. Len(given) # 0
    <2>1. Len(given) = 0 => cmdline = <<>>
      <3>1. Len(EscapedTokens(given, S)) = Len(given)
        BY <1>1, TokensAreWords
      <3> QED
        BY <1>3, <3>1 DEF LaidOut
    <2> QED
      BY <1>1, <2>1
  <1>5. PICK k \in 1 .. Len(given) : \E j \in 0 .. Len(given[k]) :
          cur = P[k][j] + 1 /\ SameSoFar(cnv, given, k, j, mode, arg, out)
    BY <1>3, <1>4
  <1>6. PICK j \in 0 .. Len(given[k]) :
          cur = P[k][j] + 1 /\ SameSoFar(cnv, given, k, j, mode, arg, out)
    BY <1>5
  <1> DEFINE w == given[k]
             L == Len(w)
             c == w[j + 1]
  <1>7. w \in Seq(Characters) /\ L \in Nat /\ k \in Nat /\ j \in Nat /\ j <= L /\ arg \in Word /\ out \in Seq(Word)
    BY DEF Word, ArgvTypes
  <1>8. /\ j < L => IF c \in S
                    THEN /\ cur < Len(cmdline) /\ cmdline[cur] = "bs" /\ cmdline[cur + 1] = c
                         /\ cur + 2 = P[k][j + 1] + 1
                    ELSE /\ cur <= Len(cmdline) /\ cmdline[cur] = c /\ cur + 1 = P[k][j + 1] + 1
        /\ j = L /\ k < Len(given) =>
             /\ cur <= Len(cmdline) /\ cmdline[cur] = "sp"
             /\ k + 1 \in 1 .. Len(given) /\ cur + 1 = P[k + 1][0] + 1
        /\ j = L /\ k = Len(given) => cur = Len(cmdline) + 1
    <2>1. /\ given \in Seq(Word) /\ Len(cmdline) \in Nat /\ k \in 1 .. Len(given)
          /\ j \in 0 .. Len(given[k]) /\ cur = P[k][j] + 1
          /\ LaidOut(cmdline, EscapedTokens(given, S), {}, A, E, P)
      BY <1>1, <1>3, <1>6
    <2> HIDE DEF S
    <2>2. EscapedPlace(cmdline, given, S, P, k, j, cur)
      BY ONLY <2>1, EscapedAtPlace
    <2> QED
      BY ONLY <2>2 DEF EscapedPlace, L, w, c
  <1>9. ASSUME NEW l \in 1 .. Len(given), NEW i \in 0 .. Len(given[l]), cur' = P[l][i] + 1,
               NEW m, NEW a, NEW o, mode' = m, arg' = a, out' = o,
               SameSoFar(cnv, given, l, i, m, a, o)
        PROVE  /\ mode' \in {"gap", "unquoted"}
               /\ EscapedTo(cnv, cmdline, given, S, cur', mode', arg', out')
    BY <1>3, <1>4, <1>9 DEF EscapedTo, SameSoFar
  <1> HIDE DEF Is
  <1>10. CASE j < L
    <2>1. j + 1 \in 0 .. L /\ j + 1 \in 1 .. L /\ c \in Characters
      BY <1>7, <1>10
    <2>2. CASE c \in S /\ ~(cnv = "glib" /\ c = "nl")
      <3>1. ch = "bs" /\ HasNext /\ cmdline[cur + 1] = c /\ cur + 2 = P[k][j + 1] + 1
        BY <1>8, <1>10, <2>2 DEF ch, HasNext
      <3>2. /\ cur' = cur + 2 /\ backslashes' = 0 /\ out' = out /\ arg' = Append(arg, c)
            /\ mode' = "unquoted"
        BY <1>2, <2>2, <3>1, EscapeTurn
      <3>3. SameSoFar(cnv, given, k, j + 1, "unquoted", Append(arg, c), out)
        BY <1>1, <1>6, <1>7, <1>10, <2>2, SameAfterCharacter
      <3>4. cur' = P[k][j + 1] + 1
        BY <3>1, <3>2
      <3> HIDE DEF c, L
      <3> QED
        BY <1>9, <2>1, <3>2, <3>3, <3>4 DEF L
    <2>3. CASE c \in S /\ cnv = "glib" /\ c = "nl"
      <3>1. ch = "bs" /\ HasNext /\ cmdline[cur + 1] = c /\ cur + 2 = P[k][j + 1] + 1
        BY <1>8, <1>10, <2>3 DEF ch, HasNext
      <3>2. cur' = cur + 2 /\ backslashes' = 0 /\ out' = out /\ arg' = arg /\ mode' = mode
        BY <1>2, <2>3, <3>1, EscapeTurn
      <3>3. SameSoFar(cnv, given, k, j + 1, mode, arg, out)
        BY <1>1, <1>6, <1>7, <2>3, SameAfterLineFeed
      <3>4. cur' = P[k][j + 1] + 1
        BY <3>1, <3>2
      <3> HIDE DEF c, L
      <3> QED
        BY <1>9, <2>1, <3>2, <3>3, <3>4 DEF L
    <2>4. CASE c \notin S
      <3>1. ch = c /\ cur + 1 = P[k][j + 1] + 1
        BY <1>8, <1>10, <2>4 DEF ch
      <3>2. ch \notin White \cup Quotes \cup {"bs"} /\ (cnv = "glib" => ch # "#" /\ c # "nl")
        BY <2>4, <3>1 DEF S, EscapedHere, White, Blank
      <3>3. /\ cur' = cur + 1 /\ backslashes' = 0 /\ out' = out /\ arg' = Append(arg, c)
            /\ mode' = "unquoted"
        BY <1>2, <3>1, <3>2, PlainTurn
      <3>4. SameSoFar(cnv, given, k, j + 1, "unquoted", Append(arg, c), out)
        BY <1>1, <1>6, <1>7, <1>10, <3>2, SameAfterCharacter
      <3>5. cur' = P[k][j + 1] + 1
        BY <3>1, <3>3
      <3> HIDE DEF c, L
      <3> QED
        BY <1>9, <2>1, <3>3, <3>4, <3>5 DEF L
    <2> QED
      BY <2>2, <2>3, <2>4
  <1>11. CASE j = L
    <2>1. k < Len(given)
      BY <1>1, <1>8, <1>11
    <2>2. ch = "sp" /\ k + 1 \in 1 .. Len(given) /\ cur + 1 = P[k + 1][0] + 1
      BY <1>8, <1>11, <2>1 DEF ch
    <2>3. Outside /\ Pending = arg
      BY <1>2, NoPending DEF GluesOn, Outside
    <2> DEFINE p == IF mode = "gap" THEN out ELSE Append(out, arg)
    <2>4. cur' = cur + 1 /\ backslashes' = 0 /\ arg' = <<>> /\ mode' = "gap" /\ out' = p
      BY <2>2, <2>3, SpaceTurn
    <2>5. SameSoFar(cnv, given, k, L, mode, arg, out)
      BY <1>6, <1>11
    <2>6. SameUpTo(cnv, given, k, p)
      <3>1. p = IF mode = "gap" THEN out ELSE Append(out, arg)
        OBVIOUS
      <3> HIDE DEF p
      <3> QED
        BY <1>1, <1>7, <2>5, <3>1, SameAfterArgument
    <2> HIDE DEF p
    <2>7. SameSoFar(cnv, given, k + 1, 0, "gap", <<>>, p)
      <3>1. (k + 1) - 1 = k /\ SubSeq(given[k + 1], 1, 0) = <<>>
        BY <1>1, <1>7, <2>2 DEF Word
      <3> QED
        BY <2>6, <3>1 DEF SameSoFar, SameUpTo
    <2>8. 0 \in 0 .. Len(given[k + 1])
      BY <1>1, <2>2 DEF Word
    <2>9. cur' = P[k + 1][0] + 1
      BY <2>2, <2>4
    <2> QED
      BY <1>9, <2>2, <2>4, <2>7, <2>8, <2>9
  <1> QED
    BY <1>7, <1>10, <1>11 DEF S

\* The line ends behind the last character of the last argument.
LEMMA EscapedEnds ==
  ASSUME ArgvTypes, EscapedIInv, joined, OfBackslashes, EndOfLine
  PROVE  out' = given <=> FineNow
  <1> DEFINE cnv == convention
             S == EscapedHere
             p == IF mode = "gap" THEN out ELSE Append(out, arg)
  <1>1. /\ pc = "split" /\ cur > Len(cmdline) /\ given \in Seq(Word) /\ Len(given) \in Nat
        /\ Len(cmdline) \in Nat /\ arg \in Word /\ out \in Seq(Word) /\ cur \in Nat
    BY DEF EndOfLine, ArgvTypes, Word
  <1>2. /\ backslashes = 0 /\ mode \in {"gap", "unquoted"}
        /\ EscapedTo(cnv, cmdline, given, S, cur, mode, arg, out)
    BY <1>1 DEF EscapedIInv
  <1>3. out' = p
    BY <1>2, NoPending DEF EndOfLine
  <1>4. PICK A, E, P :
          /\ LaidOut(cmdline, EscapedTokens(given, S), {}, A, E, P)
          /\ IF Len(given) = 0 THEN mode = "gap" /\ out = <<>>
             ELSE \E k \in 1 .. Len(given) : \E j \in 0 .. Len(given[k]) :
                    cur = P[k][j] + 1 /\ SameSoFar(cnv, given, k, j, mode, arg, out)
    BY <1>2 DEF EscapedTo
  <1>5. CASE Len(given) = 0
    BY <1>1, <1>3, <1>4, <1>5 DEF FineNow
  <1>6. CASE Len(given) # 0
    <2>1. PICK k \in 1 .. Len(given) : \E j \in 0 .. Len(given[k]) :
            cur = P[k][j] + 1 /\ SameSoFar(cnv, given, k, j, mode, arg, out)
      BY <1>4, <1>6
    <2>2. PICK j \in 0 .. Len(given[k]) :
            cur = P[k][j] + 1 /\ SameSoFar(cnv, given, k, j, mode, arg, out)
      BY <2>1
    <2>3. Len(given[k]) \in Nat /\ k \in Nat /\ j \in Nat /\ j <= Len(given[k]) /\ k <= Len(given)
      BY <1>1 DEF Word
    <2> DEFINE z == Len(cmdline)
               L == Len(given[k])
               N == Len(given)
    <2>4. /\ j < L => cur <= z
          /\ j = L /\ k < N => cur <= z
      <3> DEFINE c == given[k][j + 1]
      <3>1. /\ j < L => IF c \in S
                        THEN /\ cur < Len(cmdline) /\ cmdline[cur] = "bs" /\ cmdline[cur + 1] = c
                             /\ cur + 2 = P[k][j + 1] + 1
                        ELSE /\ cur <= Len(cmdline) /\ cmdline[cur] = c /\ cur + 1 = P[k][j + 1] + 1
            /\ j = L /\ k < Len(given) =>
                 /\ cur <= Len(cmdline) /\ cmdline[cur] = "sp"
                 /\ k + 1 \in 1 .. Len(given) /\ cur + 1 = P[k + 1][0] + 1
        <4>1. /\ given \in Seq(Word) /\ Len(cmdline) \in Nat /\ k \in 1 .. Len(given)
              /\ j \in 0 .. Len(given[k]) /\ cur = P[k][j] + 1
              /\ LaidOut(cmdline, EscapedTokens(given, S), {}, A, E, P)
          BY <1>1, <1>4, <2>2
        <4> HIDE DEF S
        <4>2. EscapedPlace(cmdline, given, S, P, k, j, cur)
          BY ONLY <4>1, EscapedAtPlace
        <4> QED
          BY ONLY <4>2 DEF EscapedPlace, L, c
      <3> QED
        BY <1>1, <3>1
    <2>5. j = L /\ k = N
      <3> HIDE DEF z, L, N
      <3>1. cur > z /\ z \in Nat /\ L \in Nat /\ N \in Nat /\ j <= L /\ k <= N
        BY <1>1, <2>3 DEF z, L, N
      <3> QED
        BY <1>1, <2>3, <2>4, <3>1
    <2>6. SameUpTo(cnv, given, N, p)
      <3>1. SameSoFar(cnv, given, k, Len(given[k]), mode, arg, out)
        BY <2>2, <2>5
      <3>2. SameUpTo(cnv, given, k, p)
        <4>1. p = IF mode = "gap" THEN out ELSE Append(out, arg)
          OBVIOUS
        <4> HIDE DEF p
        <4> QED
          BY <1>1, <3>1, <4>1, SameAfterArgument
      <3> QED
        BY <2>5, <3>2
    <2>7. SubSeq(given, 1, N) = given /\ DOMAIN given = 1 .. N
      BY <1>1
    <2> HIDE DEF p
    <2> QED
      BY <1>3, <2>6, <2>7 DEF FineNow, SameUpTo
  <1> QED
    BY <1>5, <1>6

\* A joined line is read from before its first argument.
LEMMA EscapedStarts ==
  ASSUME ArgvTypes, EscapedIInv, joined, OfBackslashes, toCmdline
  PROVE  EscapedIInv'
  <1> DEFINE S == EscapedHere
             line == Joined(given)
  <1>1. given \in Seq(Word) /\ Len(given) \in Nat /\ cmdline' = line
    BY DEF ArgvTypes, toCmdline
  <1>2. cur = 1 /\ mode = "gap" /\ arg = <<>> /\ out = <<>> /\ backslashes = 0 /\ pc' = "split"
    BY DEF toCmdline, EscapedIInv, ArgvTypes
  <1>3. PICK A, E, P : LaidOut(line, EscapedTokens(given, S), {}, A, E, P)
    BY <1>1, JoinedByEscapes
  <1>4. Len(given) # 0 => /\ 1 \in 1 .. Len(given) /\ 0 \in 0 .. Len(given[1]) /\ 1 = P[1][0] + 1
                          /\ SameSoFar(convention, given, 1, 0, "gap", <<>>, <<>>)
    <2> SUFFICES ASSUME Len(given) # 0
                 PROVE  /\ 1 \in 1 .. Len(given) /\ 0 \in 0 .. Len(given[1]) /\ 1 = P[1][0] + 1
                        /\ SameSoFar(convention, given, 1, 0, "gap", <<>>, <<>>)
      OBVIOUS
    <2>1. 1 \in 1 .. Len(given) /\ 0 \in 0 .. Len(given[1])
      BY <1>1 DEF Word
    <2>2. Len(EscapedTokens(given, S)) = Len(given)
      BY <1>1, TokensAreWords
    <2>3. WordAt(line, EscapedTokens(given, S)[1], Margin({}, 1), A[1], E[1], P[1]) /\ A[1] = 0
      BY <1>3, <2>1, <2>2 DEF LaidOut
    <2>4. P[1][0] = 0
      BY <2>3 DEF WordAt, Margin
    <2>5. SubSeq(given[1], 1, 0) = <<>> /\ SubSeq(given, 1, 1 - 1) = <<>>
      BY <1>1, <2>1 DEF Word
    <2> QED
      BY <2>1, <2>4, <2>5 DEF SameSoFar
  <1>5. EscapedTo(convention, line, given, S, 1, "gap", <<>>, <<>>)
    BY <1>3, <1>4 DEF EscapedTo
  <1> HIDE DEF line
  <1>6. UNCHANGED <<given, convention, joined, cur, mode, arg, out, backslashes>> /\ EscapedHere' = S
    BY DEF toCmdline, EscapedHere
  <1> HIDE DEF S
  <1>7. EscapedTo(convention', cmdline', given', EscapedHere', cur', mode', arg', out')
    BY <1>1, <1>2, <1>5, <1>6
  <1> QED
    BY <1>2, <1>6, <1>7 DEF EscapedIInv, EscapedTo

\* The invariant for gnu and glib is kept, ...
LEMMA EscapedKept ==
  ASSUME ArgvTypes, EscapedIInv, [Next]_argvVars
  PROVE  EscapedIInv'
  <1>1. UNCHANGED <<convention, given, joined>>
    BY DEF Next, toCmdline, Split, EndOfLine, fixed, argvVars
  <1>2. (OfBackslashes <=> OfBackslashes') /\ EscapedHere' = EscapedHere /\ (FineNow <=> FineNow')
    BY <1>1 DEF OfBackslashes, EscapedHere, FineNow
  <1>3. CASE ~(joined /\ OfBackslashes)
    BY <1>1, <1>2, <1>3 DEF EscapedIInv
  <1>4. CASE joined /\ OfBackslashes
    <2>1. CASE toCmdline
      BY <1>4, <2>1, EscapedStarts
    <2>2. CASE Split
      <3>1. pc' = "split" /\ cmdline' = cmdline
        BY <2>2 DEF Split, fixed
      <3>2. /\ backslashes' = 0 /\ mode' \in {"gap", "unquoted"}
            /\ EscapedTo(convention, cmdline, given, EscapedHere, cur', mode', arg', out')
        BY <1>4, <2>2, EscapedSplitKeeps
      <3>3. EscapedTo(convention', cmdline', given', EscapedHere', cur', mode', arg', out')
        BY <1>1, <1>2, <3>1, <3>2
      <3> QED
        BY <3>1, <3>2, <3>3 DEF EscapedIInv, EscapedTo
    <2>3. CASE EndOfLine
      <3>1. pc' = "done"
        BY <2>3 DEF EndOfLine
      <3>2. out' = given <=> FineNow
        BY <1>4, <2>3, EscapedEnds
      <3> QED
        BY <1>1, <1>2, <3>1, <3>2 DEF EscapedIInv
    <2>4. CASE UNCHANGED argvVars
      BY <2>4 DEF argvVars, EscapedIInv, EscapedTo, OfBackslashes, EscapedHere, FineNow
    <2> QED
      BY <2>1, <2>2, <2>3, <2>4 DEF Next
  <1> QED
    BY <1>3, <1>4

-----------------------------------------------------------------------------
(***************************************************************************)
(* Joined for Windows: a double quote gets one backslash more than are     *)
(* before it, which are doubled, and an argument with a space is put       *)
(* between quotes.                                                         *)
(***************************************************************************)
\* The backslashes that end the first j characters of w.
RunAt(w, j) == BackslashesBefore(w, j + 1)

LEMMA RunIs ==
  ASSUME NEW w \in Word, NEW j \in 0 .. Len(w)
  PROVE  /\ RunAt(w, j) \in 0 .. j
         /\ \A i \in j - RunAt(w, j) + 1 .. j : w[i] = "bs"
         /\ RunAt(w, j) # j => w[j - RunAt(w, j)] # "bs"
  <1> DEFINE S == {i \in 1 .. j : w[i] # "bs"}
             m == Max({0} \cup S)
  <1>1. j \in Nat /\ S \subseteq 1 .. j
    BY DEF Word
  <1>2. RunAt(w, j) = j - m
    <2>1. (j + 1) - 1 = j
      BY <1>1
    <2> QED
      BY <2>1 DEF RunAt, BackslashesBefore
  <1>3. \A i \in 1 .. j : w[i] = "bs" \/ i \in S
    OBVIOUS
  <1>4. \A i \in S : w[i] # "bs"
    OBVIOUS
  <1> HIDE DEF S
  <1>5. m \in 0 .. j /\ m \in {0} \cup S /\ \A x \in S : x <= m
    BY <1>1, MaxUpTo
  <1> HIDE DEF m
  <1> DEFINE r == RunAt(w, j)
  <1>6. r \in 0 .. j /\ j - r = m
    BY <1>1, <1>2, <1>5
  <1> HIDE DEF r
  <1>7. \A i \in j - r + 1 .. j : w[i] = "bs"
    <2>1. \A i \in j - r + 1 .. j : i \in 1 .. j /\ ~(i <= m)
      BY <1>1, <1>5, <1>6
    <2> QED
      BY <1>3, <1>5, <2>1
  <1>8. r # j => w[j - r] # "bs"
    BY <1>1, <1>4, <1>5, <1>6
  <1> QED
    BY <1>6, <1>7, <1>8 DEF r

LEMMA RunBegins ==
  ASSUME NEW w \in Word
  PROVE  RunAt(w, 0) = 0
  <1>1. 0 \in 0 .. Len(w)
    BY DEF Word
  <1> QED
    BY <1>1, RunIs

\* A further character makes the run longer or ends it.
LEMMA RunGoesOn ==
  ASSUME NEW w \in Word, NEW j \in 0 .. Len(w), j < Len(w)
  PROVE  RunAt(w, j + 1) = IF w[j + 1] = "bs" THEN RunAt(w, j) + 1 ELSE 0
  <1> DEFINE r == RunAt(w, j)
             s == RunAt(w, j + 1)
             n == j + 1
  <1>1. n \in 0 .. Len(w) /\ j \in Nat /\ Len(w) \in Nat
    BY DEF Word
  <1>2. r \in 0 .. j /\ (\A i \in j - r + 1 .. j : w[i] = "bs") /\ (r # j => w[j - r] # "bs")
    BY RunIs
  <1>3. s \in 0 .. n /\ (\A i \in n - s + 1 .. n : w[i] = "bs") /\ (s # n => w[n - s] # "bs")
    BY <1>1, RunIs
  <1> HIDE DEF r, s
  <1>4. CASE w[n] = "bs"
    <2>1. \A i \in j - r + 1 .. n : w[i] = "bs"
      <3>1. \A i \in j - r + 1 .. n : i = n \/ i \in j - r + 1 .. j
        BY <1>1, <1>2
      <3> QED
        BY <1>2, <1>4, <3>1
    <2>2. ~(s < r + 1)
      <3>1. s < r + 1 => n - s \in j - r + 1 .. n /\ s # n
        BY <1>1, <1>2, <1>3
      <3> QED
        BY <1>3, <2>1, <3>1
    <2>3. ~(s > r + 1)
      <3>1. s > r + 1 => r # j /\ j - r \in n - s + 1 .. n
        BY <1>1, <1>2, <1>3
      <3> QED
        BY <1>2, <1>3, <3>1
    <2>4. s = r + 1
      BY <1>2, <1>3, <2>2, <2>3
    <2> QED
      BY <1>4, <2>4 DEF r, s
  <1>5. CASE w[n] # "bs"
    <2>1. s # 0 => n \in n - s + 1 .. n
      BY <1>1, <1>3
    <2>2. s = 0
      BY <1>3, <1>5, <2>1
    <2> QED
      BY <1>5, <2>2 DEF s
  <1> QED
    BY <1>4, <1>5

WindowsToken(w, j) ==
  IF w[j] = "dq" THEN [i \in 1 .. BackslashesBefore(w, j) + 1 |-> "bs"] \o <<"dq">> ELSE <<w[j]>>

WindowsTokens(args) ==
  [k \in 1 .. Len(args) |-> [j \in 1 .. Len(args[k]) |-> WindowsToken(args[k], j)]]

QuotedOnes(args) == {k \in 1 .. Len(args) : "sp" \in ToSet(args[k])}

LEMMA WindowsTokenIs ==
  ASSUME NEW w \in Word, NEW j \in 0 .. Len(w), j < Len(w)
  PROVE  /\ WindowsToken(w, j + 1) \in Word
         /\ IF w[j + 1] = "dq"
            THEN /\ Len(WindowsToken(w, j + 1)) = RunAt(w, j) + 2
                 /\ \A t \in 1 .. RunAt(w, j) + 1 : WindowsToken(w, j + 1)[t] = "bs"
                 /\ WindowsToken(w, j + 1)[RunAt(w, j) + 2] = "dq"
            ELSE WindowsToken(w, j + 1) = <<w[j + 1]>>
  <1> DEFINE r == RunAt(w, j)
             run == [i \in 1 .. r + 1 |-> "bs"]
             c == w[j + 1]
             u == run \o <<"dq">>
  <1>1. r \in Nat
    BY RunIs
  <1>2. "bs" \in Characters /\ "dq" \in Characters /\ c \in Characters
    <2>1. w \in Seq(Characters) /\ j + 1 \in 1 .. Len(w)
      BY DEF Word
    <2> QED
      BY <2>1, DimcliArgvAssumption DEF Quotes
  <1>3. WindowsToken(w, j + 1) = IF c = "dq" THEN u ELSE <<c>>
    BY DEF WindowsToken, RunAt
  <1> HIDE DEF r, c
  <1>4. run \in Seq(Characters) /\ Len(run) = r + 1 /\ \A t \in 1 .. r + 1 : run[t] = "bs"
    BY <1>1, <1>2
  <1>5. <<"dq">> \in Seq(Characters) /\ <<c>> \in Seq(Characters) /\ Len(<<"dq">>) = 1 /\ <<"dq">>[1] = "dq"
    BY <1>2
  <1> DEFINE one == <<"dq">>
  <1> HIDE DEF run, one
  <1>6. /\ u \in Seq(Characters) /\ Len(u) = Len(run) + Len(one)
        /\ \A m \in 1 .. Len(run) : u[m] = run[m]
        /\ \A m \in 1 .. Len(one) : u[Len(run) + m] = one[m]
    <2>1. run \in Seq(Characters) /\ u = run \o one /\ one \in Seq(Characters)
      BY <1>4, <1>5 DEF one
    <2> HIDE DEF u
    <2>2. u \in Seq(Characters) /\ Len(u) = Len(run) + Len(one)
      BY ONLY <2>1, Concatenated
    <2>3. \A m \in 1 .. Len(run) : u[m] = run[m]
      BY ONLY <2>1, Concatenated
    <2>4. \A m \in 1 .. Len(one) : u[Len(run) + m] = one[m]
      BY ONLY <2>1, Concatenated
    <2> QED
      BY <2>2, <2>3, <2>4
  <1>7. Len(one) = 1 /\ one[1] = "dq" /\ 1 \in 1 .. Len(one)
    BY <1>5 DEF one
  <1> HIDE DEF u
  <1>8. Len(u) = r + 2 /\ u[r + 2] = "dq" /\ \A t \in 1 .. r + 1 : u[t] = "bs"
    <2>1. Len(u) = (r + 1) + 1 /\ u[(r + 1) + 1] = "dq" /\ (r + 1) + 1 = r + 2
      BY <1>1, <1>4, <1>6, <1>7
    <2> QED
      BY <1>4, <1>6, <2>1
  <1>9. WindowsToken(w, j + 1) \in Word
    BY <1>3, <1>5, <1>6 DEF Word
  <1>10. CASE c = "dq"
    <2>1. WindowsToken(w, j + 1) = u
      BY <1>3, <1>10
    <2> QED
      BY <1>8, <1>9, <1>10, <2>1 DEF r, c
  <1>11. CASE c # "dq"
    BY <1>3, <1>9, <1>11 DEF c
  <1> QED
    BY <1>10, <1>11

LEMMA WindowsTokensAreWords ==
  ASSUME NEW args \in Seq(Word)
  PROVE  /\ WindowsTokens(args) \in Seq(Seq(Word)) /\ Len(WindowsTokens(args)) = Len(args)
         /\ \A k \in 1 .. Len(args) :
              /\ Len(WindowsTokens(args)[k]) = Len(args[k])
              /\ \A j \in 1 .. Len(args[k]) : WindowsTokens(args)[k][j] = WindowsToken(args[k], j)
  <1> DEFINE toks == WindowsTokens(args)
             row(k) == [j \in 1 .. Len(args[k]) |-> WindowsToken(args[k], j)]
  <1>1. ASSUME NEW k \in 1 .. Len(args)
        PROVE  row(k) \in Seq(Word) /\ Len(row(k)) = Len(args[k])
    <2>1. args[k] \in Word /\ Len(args[k]) \in Nat
      BY DEF Word
    <2>2. ASSUME NEW j \in 1 .. Len(args[k])
          PROVE  WindowsToken(args[k], j) \in Word
      <3> DEFINE i == j - 1
      <3>1. i \in 0 .. Len(args[k]) /\ i < Len(args[k]) /\ i + 1 = j
        BY <2>1
      <3> HIDE DEF i
      <3>2. WindowsToken(args[k], i + 1) \in Word
        BY <2>1, <3>1, WindowsTokenIs
      <3> QED
        BY <3>1, <3>2
    <2> QED
      BY <2>1, <2>2
  <1>2. Len(args) \in Nat /\ toks = [k \in 1 .. Len(args) |-> row(k)]
    BY DEF WindowsTokens
  <1>3. \A k \in 1 .. Len(args) : \A j \in 1 .. Len(args[k]) : row(k)[j] = WindowsToken(args[k], j)
    OBVIOUS
  <1> HIDE DEF row, toks
  <1>4. toks \in Seq(Seq(Word)) /\ Len(toks) = Len(args) /\ \A k \in 1 .. Len(args) : toks[k] = row(k)
    BY <1>1, <1>2
  <1> QED
    BY <1>1, <1>3, <1>4 DEF toks

\* The places of a line joined for Windows.
LEMMA QuotedIsLaidOut ==
  ASSUME NEW args \in Seq(Word)
  PROVE  \E A, E, P : LaidOut(toWindowsCmdline(args), WindowsTokens(args), QuotedOnes(args), A, E, P)
  <1> DEFINE toks == WindowsTokens(args)
             Q == QuotedOnes(args)
             words == [i \in DOMAIN args |-> WindowsQuoted(args[i])]
             same == [k \in 1 .. Len(toks) |-> InQuotes(FlattenSeq(toks[k]), Margin(Q, k))]
  <1>1. DOMAIN args = 1 .. Len(args) /\ Len(toks) = Len(args) /\ toks \in Seq(Seq(Word))
    BY WindowsTokensAreWords
  <1>2. ASSUME NEW k \in 1 .. Len(args)
        PROVE  InQuotes(FlattenSeq(toks[k]), Margin(Q, k)) = WindowsQuoted(args[k])
    <2>1. toks[k] = [j \in 1 .. Len(args[k]) |-> WindowsToken(args[k], j)]
      BY DEF WindowsTokens
    <2>2. DOMAIN args[k] = 1 .. Len(args[k])
      BY DEF Word
    <2> DEFINE body == FlattenSeq([i \in DOMAIN args[k] |->
                 IF args[k][i] = "dq"
                 THEN [x \in 1 .. BackslashesBefore(args[k], i) + 1 |-> "bs"] \o <<"dq">>
                 ELSE <<args[k][i]>>])
    <2>3. FlattenSeq(toks[k]) = body
      BY <2>1, <2>2 DEF WindowsToken
    <2>4. WindowsQuoted(args[k]) = IF "sp" \in ToSet(args[k]) THEN <<"dq">> \o body \o <<"dq">> ELSE body
      BY DEF WindowsQuoted
    <2> HIDE DEF body
    <2>5. Margin(Q, k) = IF "sp" \in ToSet(args[k]) THEN 1 ELSE 0
      BY DEF Margin, QuotedOnes
    <2> QED
      BY <2>3, <2>4, <2>5 DEF InQuotes
  <1>3. words = same
    BY <1>1, <1>2
  <1> DEFINE line == Separated(words)
  <1>4. line = Separated(same)
    BY <1>3
  <1>5. line = toWindowsCmdline(args)
    BY DEF toWindowsCmdline
  <1> HIDE DEF toks, words, line, Q
  <1>6. \E A, E, P : LaidOut(line, toks, Q, A, E, P)
    BY <1>1, <1>4, SeparatedIsLaidOut
  <1> QED
    BY <1>5, <1>6 DEF toks, Q

QuotedLine(line, args, A, E, P) ==
  Len(line) \in Nat /\ LaidOut(line, WindowsTokens(args), QuotedOnes(args), A, E, P)

\* What a line joined for Windows has inside an argument, where c is the next character, r the
\* run before it, a and b the places before and after it: c itself or, t of its backslashes
\* having been read, the next of these or c; ...
NextIs(line, c, r, a, b, t, n) ==
  IF c = "dq"
  THEN /\ t <= r => n <= Len(line) /\ line[n] = "bs" /\ n + 1 = a + (t + 1) + 1
       /\ t = r + 1 => n <= Len(line) /\ line[n] = "dq" /\ n + 1 = b + 0 + 1
  ELSE t = 0 => n <= Len(line) /\ line[n] = c /\ n + 1 = b + 0 + 1

LEMMA InsideArgument ==
  ASSUME NEW args \in Seq(Word), NEW line, NEW A, NEW E, NEW P, QuotedLine(line, args, A, E, P),
         NEW k \in 1 .. Len(args), NEW j \in 0 .. Len(args[k]), j < Len(args[k]),
         NEW t \in Nat, NEW n, n = P[k][j] + t + 1
  PROVE  NextIs(line, args[k][j + 1], RunAt(args[k], j), P[k][j], P[k][j + 1], t, n)
  <1> DEFINE toks == WindowsTokens(args)
             w == args[k]
             L == Len(w)
             i == j + 1
             x == WindowsToken(w, i)
             r == RunAt(w, j)
             q == Margin(QuotedOnes(args), k)
             a == P[k][j]
             b == P[k][i]
             z == Len(line)
             c == w[i]
  <1>1. w \in Word /\ L \in Nat /\ j \in Nat /\ i \in 1 .. L /\ i - 1 = j /\ i \in 0 .. L
    BY DEF Word
  <1>2. Len(toks[k]) = L /\ toks[k][i] = x /\ Len(toks) = Len(args)
    BY <1>1, WindowsTokensAreWords
  <1>3. WordAt(line, toks[k], q, A[k], E[k], P[k]) /\ z \in Nat
    BY <1>2 DEF QuotedLine, LaidOut
  <1>4. q \in {0, 1}
    BY DEF Margin
  <1>5. /\ x \in Word
        /\ IF c = "dq"
           THEN Len(x) = r + 2 /\ (\A m \in 1 .. r + 1 : x[m] = "bs") /\ x[r + 2] = "dq"
           ELSE x = <<c>>
    BY <1>1, WindowsTokenIs
  <1>6. r \in Nat
    BY <1>1, RunIs
  <1> HIDE DEF toks, x, r, q, L, c
  <1>7. /\ a \in Nat /\ b \in Nat /\ b + q <= E[k] /\ E[k] <= z /\ E[k] \in Nat /\ b = a + Len(x)
        /\ \A m \in 1 .. Len(x) : line[a + m] = x[m]
    <2>1. /\ E[k] \in Nat /\ E[k] <= z
          /\ \A y \in 0 .. Len(toks[k]) : P[k][y] \in Nat /\ P[k][y] + q <= E[k]
          /\ \A y \in 1 .. Len(toks[k]) :
               /\ P[k][y] = P[k][y - 1] + Len(toks[k][y])
               /\ \A m \in 1 .. Len(toks[k][y]) : line[P[k][y - 1] + m] = toks[k][y][m]
      BY <1>3 DEF WordAt
    <2>2. i \in 1 .. Len(toks[k]) /\ i \in 0 .. Len(toks[k]) /\ j \in 0 .. Len(toks[k])
      BY <1>1, <1>2
    <2>3. /\ P[k][i] = P[k][i - 1] + Len(toks[k][i])
          /\ \A m \in 1 .. Len(toks[k][i]) : line[P[k][i - 1] + m] = toks[k][i][m]
          /\ P[k][i] \in Nat /\ P[k][i] + q <= E[k] /\ P[k][j] \in Nat
      BY ONLY <2>1, <2>2
    <2> HIDE DEF i
    <2> QED
      BY <1>1, <1>2, <2>1, <2>3
  <1>8. n = a + t + 1
    OBVIOUS
  <1> HIDE DEF a, b, i, z
  <1>9. b <= z
    BY <1>3, <1>4, <1>7
  <1>10. CASE c = "dq"
    <2>1. Len(x) = r + 2 /\ (\A m \in 1 .. r + 1 : x[m] = "bs") /\ x[r + 2] = "dq" /\ b = a + (r + 2)
      BY <1>5, <1>7, <1>10
    <2>2. ASSUME t <= r
          PROVE  n <= z /\ line[n] = "bs" /\ n + 1 = a + (t + 1) + 1
      <3>1. t + 1 \in 1 .. r + 1 /\ t + 1 \in 1 .. Len(x) /\ n = a + (t + 1)
        BY <1>6, <1>7, <1>8, <2>1, <2>2
      <3>2. line[n] = "bs"
        BY <1>7, <2>1, <3>1
      <3>3. n <= z /\ n + 1 = a + (t + 1) + 1
        BY <1>3, <1>6, <1>7, <1>9, <2>1, <2>2, <3>1
      <3> QED
        BY <3>2, <3>3
    <2>3. ASSUME t = r + 1
          PROVE  n <= z /\ line[n] = "dq" /\ n + 1 = b + 0 + 1
      <3>1. r + 2 \in 1 .. Len(x) /\ n = a + (r + 2)
        <4> DEFINE l == Len(x)
        <4>1. /\ r \in Nat /\ a \in Nat /\ n = a + t + 1 /\ t = r + 1 /\ l = r + 2
          BY <1>6, <1>7, <1>8, <2>1, <2>3
        <4> HIDE DEF l
        <4>2. r + 2 \in 1 .. l /\ n = a + (r + 2)
          BY ONLY <4>1
        <4> QED
          BY <4>2 DEF l
      <3>2. line[n] = "dq"
        BY <1>7, <2>1, <3>1
      <3>3. n <= z /\ n + 1 = b + 0 + 1
        BY <1>3, <1>6, <1>7, <1>9, <2>1, <3>1
      <3> QED
        BY <3>2, <3>3
    <2> QED
      BY <1>10, <2>2, <2>3 DEF NextIs, c, i, r, a, b, z
  <1>11. CASE c # "dq"
    <2>1. x = <<c>> /\ Len(x) = 1 /\ x[1] = c
      BY <1>5, <1>11
    <2>2. ASSUME t = 0
          PROVE  n <= z /\ line[n] = c /\ n + 1 = b + 0 + 1
      <3>1. n = a + 1 /\ b = a + 1 /\ 1 \in 1 .. Len(x)
        BY <1>7, <1>8, <2>1, <2>2
      <3>2. line[n] = c
        BY <1>7, <2>1, <3>1
      <3>3. n <= z /\ n + 1 = b + 0 + 1
        BY <1>3, <1>7, <1>9, <3>1
      <3> QED
        BY <3>2, <3>3
    <2> QED
      BY <1>11, <2>2 DEF NextIs, c, i, b, z
  <1> QED
    BY <1>10, <1>11

\* ... and at its ends and after it.
LEMMA EndsOfArgument ==
  ASSUME NEW args \in Seq(Word), NEW line, NEW A, NEW E, NEW P, QuotedLine(line, args, A, E, P),
         NEW k \in 1 .. Len(args)
  PROVE  /\ A[k] \in Nat /\ E[k] \in Nat /\ \A j \in 0 .. Len(args[k]) : P[k][j] \in Nat
         /\ IF k \in QuotedOnes(args)
            THEN /\ A[k] < Len(line) /\ line[A[k] + 1] = "dq" /\ P[k][0] = A[k] + 1
                 /\ P[k][Len(args[k])] < Len(line) /\ line[P[k][Len(args[k])] + 1] = "dq"
                 /\ E[k] = P[k][Len(args[k])] + 1
            ELSE P[k][0] = A[k] /\ E[k] = P[k][Len(args[k])]
         /\ IF k = Len(args) THEN E[k] = Len(line)
            ELSE /\ E[k] < Len(line) /\ line[E[k] + 1] = "sp"
                 /\ k + 1 \in 1 .. Len(args) /\ A[k + 1] = E[k] + 1
  <1> DEFINE toks == WindowsTokens(args)
             L == Len(args[k])
             q == Margin(QuotedOnes(args), k)
  <1>1. L \in Nat /\ 0 \in 0 .. L /\ L \in 0 .. L
    BY DEF Word
  <1>2. Len(toks[k]) = L /\ Len(toks) = Len(args)
    BY WindowsTokensAreWords
  <1>3. WordAt(line, toks[k], q, A[k], E[k], P[k]) /\ Len(line) \in Nat
    BY <1>2 DEF QuotedLine, LaidOut
  <1> HIDE DEF toks, L, q
  <1>4. /\ A[k] \in Nat /\ E[k] \in Nat /\ E[k] <= Len(line) /\ P[k][0] = A[k] + q /\ E[k] = P[k][L] + q
        /\ \A j \in 0 .. L : P[k][j] \in Nat
        /\ q = 1 => A[k] + 1 <= E[k] /\ line[A[k] + 1] = "dq" /\ line[E[k]] = "dq"
    BY <1>2, <1>3 DEF WordAt
  <1>5. IF k \in QuotedOnes(args)
        THEN /\ A[k] < Len(line) /\ line[A[k] + 1] = "dq" /\ P[k][0] = A[k] + 1
             /\ P[k][L] < Len(line) /\ line[P[k][L] + 1] = "dq" /\ E[k] = P[k][L] + 1
        ELSE P[k][0] = A[k] /\ E[k] = P[k][L]
    <2>1. P[k][0] \in Nat /\ P[k][L] \in Nat
      BY <1>1, <1>4
    <2>2. CASE k \in QuotedOnes(args)
      <3>1. q = 1
        BY <2>2 DEF q, Margin
      <3>2. E[k] = P[k][L] + 1 /\ P[k][0] = A[k] + 1 /\ A[k] < Len(line) /\ P[k][L] < Len(line)
        BY <1>3, <1>4, <2>1, <3>1
      <3> QED
        BY <1>4, <2>2, <3>1, <3>2
    <2>3. CASE k \notin QuotedOnes(args)
      <3>1. q = 0
        BY <2>3 DEF q, Margin
      <3> QED
        BY <1>4, <2>1, <2>3, <3>1
    <2> QED
      BY <2>2, <2>3
  <1>6. IF k = Len(args) THEN E[k] = Len(line)
        ELSE /\ E[k] < Len(line) /\ line[E[k] + 1] = "sp"
             /\ k + 1 \in 1 .. Len(args) /\ A[k + 1] = E[k] + 1
    <2>1. Len(args) # 0 /\ (k # Len(args) => k + 1 \in 1 .. Len(args))
      OBVIOUS
    <2>2. LaidOut(line, toks, QuotedOnes(args), A, E, P)
      BY DEF QuotedLine, toks
    <2> QED
      BY <1>2, <2>1, <2>2 DEF LaidOut
  <1> QED
    BY <1>4, <1>5, <1>6 DEF L

\* A turn of toWindowsArgv, by the character read.
LEMMA WindowsTurn ==
  ASSUME ArgvTypes, Split, convention = "windows"
  PROVE  /\ cur' = cur + 1
         /\ ch = "bs" =>
              /\ backslashes' = backslashes + 1 /\ UNCHANGED <<arg, out>>
              /\ mode' = IF mode = "gap" THEN "unquoted" ELSE mode
         /\ ch = "dq" => WindowsQuote
         /\ Outside /\ ch \in Blank =>
              /\ backslashes' = 0 /\ arg' = <<>> /\ mode' = "gap"
              /\ out' = IF mode = "gap" THEN out ELSE Append(out, Pending)
         /\ ch \notin {"bs", "dq"} /\ ~(Outside /\ ch \in Blank) =>
              /\ backslashes' = 0 /\ arg' = Append(Pending, ch) /\ UNCHANGED out
              /\ mode' = IF mode = "gap" THEN "unquoted" ELSE mode
  <1>1. toWindowsArgv
    BY DEF Split
  <1>2. "bs" \notin Blank /\ "dq" \notin Blank
    BY DEF Blank
  <1>3. CASE ch = "bs"
    <2>1. WindowsBackslash
      BY <1>1, <1>2, <1>3 DEF toWindowsArgv, WindowsQuote, Separator, Literal
    <2> QED
      BY <1>2, <1>3, <2>1 DEF WindowsBackslash, InWord
  <1>4. CASE ch = "dq"
    <2>1. WindowsQuote
      BY <1>1, <1>2, <1>4 DEF toWindowsArgv, WindowsBackslash, Separator, Literal
    <2> QED
      BY <1>2, <1>4, <2>1 DEF WindowsQuote
  <1>5. CASE Outside /\ ch \in Blank
    <2>1. Separator(Blank)
      BY <1>1, <1>2, <1>5 DEF toWindowsArgv, WindowsBackslash, WindowsQuote, Literal
    <2> QED
      BY <1>2, <1>5, <2>1 DEF Separator
  <1>6. CASE ch \notin {"bs", "dq"} /\ ~(Outside /\ ch \in Blank)
    <2>1. \E S : Literal(S)
      BY <1>1, <1>6 DEF toWindowsArgv, WindowsBackslash, WindowsQuote, Separator
    <2> QED
      BY <1>6, <2>1 DEF Literal, InWord
  <1> QED
    BY <1>3, <1>4, <1>5, <1>6

-----------------------------------------------------------------------------
(***************************************************************************)
(* Joined for Windows, when a quoted argument ends in a backslash: the     *)
(* closing quote then takes that backslash, and from there on the reader   *)
(* may take what is outside quotes for inside.  Whatever it does with the  *)
(* rest, it loses a backslash, and no other turn adds one: the arguments   *)
(* found have fewer than those given and are not the same.                 *)
(***************************************************************************)
\* How many backslashes a word has, ...
BackslashesOf(w) == {i \in 1 .. Len(w) : w[i] = "bs"}
Bs(w) == Cardinality(BackslashesOf(w))

Run(n) == [i \in 1 .. n |-> "bs"]

LEMMA BsIsNat ==
  ASSUME NEW w \in Word
  PROVE  Bs(w) \in Nat /\ IsFiniteSet(BackslashesOf(w))
  <1>1. Len(w) \in Nat /\ IsFiniteSet(1 .. Len(w))
    BY FS_Interval DEF Word
  <1>2. BackslashesOf(w) \subseteq 1 .. Len(w)
    BY DEF BackslashesOf
  <1>3. IsFiniteSet(BackslashesOf(w))
    BY <1>1, <1>2, FS_Subset
  <1> QED
    BY <1>3, FS_CardinalityType DEF Bs

LEMMA BsOfNone == Bs(<<>>) = 0
  <1>1. BackslashesOf(<<>>) = {}
    BY DEF BackslashesOf
  <1> QED
    BY <1>1, FS_EmptySet DEF Bs

LEMMA BsAppend ==
  ASSUME NEW w \in Word, NEW c \in Characters, NEW b, b = Append(w, c)
  PROVE  b \in Word /\ Bs(b) = IF c = "bs" THEN Bs(w) + 1 ELSE Bs(w)
  <1> DEFINE n == Len(w)
             S == BackslashesOf(w)
             T == BackslashesOf(b)
  <1>1. w \in Seq(Characters) /\ n \in Nat
    BY DEF Word
  <1>2. b \in Seq(Characters) /\ Len(b) = n + 1 /\ b[n + 1] = c /\ \A i \in 1 .. n : b[i] = w[i]
    BY <1>1
  <1>3. 1 .. n + 1 = (1 .. n) \cup {n + 1} /\ n + 1 \notin 1 .. n
    BY <1>1
  <1>4. T = IF c = "bs" THEN S \cup {n + 1} ELSE S
    BY <1>2, <1>3 DEF BackslashesOf
  <1>5. n + 1 \notin S
    BY <1>3 DEF BackslashesOf
  <1> HIDE DEF S, T
  <1>6. IsFiniteSet(S)
    BY BsIsNat DEF S
  <1>7. Cardinality(S \cup {n + 1}) = Cardinality(S) + 1
    BY <1>5, <1>6, FS_AddElement
  <1> QED
    BY <1>2, <1>4, <1>7 DEF Bs, S, T, Word

LEMMA RunOfNone ==
  ASSUME NEW a \in Word
  PROVE  a \o Run(0) = a /\ Run(0) = <<>>
  <1>1. Run(0) = <<>>
    BY DEF Run
  <1>2. a \o <<>> = a
    BY DEF Word
  <1> QED
    BY <1>1, <1>2

LEMMA RunGrows ==
  ASSUME NEW a \in Word, NEW n \in Nat
  PROVE  a \o Run(n) \in Word /\ a \o Run(n + 1) = Append(a \o Run(n), "bs")
  <1>1. "bs" \in Characters /\ a \in Seq(Characters)
    BY DimcliArgvAssumption DEF Word
  <1>2. Run(n) \in Seq(Characters) /\ Run(n + 1) \in Seq(Characters)
    BY <1>1 DEF Run
  <1>4. Run(n + 1) = Append(Run(n), "bs")
    BY <1>1 DEF Run
  <1> DEFINE u == Run(n)
  <1> HIDE DEF u
  <1>5. u \in Seq(Characters) /\ Run(n + 1) = Append(u, "bs")
    BY <1>2, <1>4 DEF u
  <1>6. a \o Append(u, "bs") = Append(a \o u, "bs") /\ a \o u \in Seq(Characters)
    BY <1>1, <1>5
  <1> QED
    BY <1>5, <1>6 DEF u, Word

\* Each backslash put back counts.
LEMMA BsRun ==
  ASSUME NEW a \in Word, NEW n \in Nat
  PROVE  Bs(a \o Run(n)) = Bs(a) + n
  <1> DEFINE G == {i \in 0 .. n : Bs(a \o Run(i)) = Bs(a) + i}
  <1>1. Bs(a) \in Nat
    BY BsIsNat
  <1>2. 0 \in G
    <2>1. a \o Run(0) = a /\ 0 \in 0 .. n /\ Bs(a) + 0 = Bs(a)
      BY <1>1, RunOfNone
    <2>2. Bs(a \o Run(0)) = Bs(a) + 0
      BY <2>1
    <2> QED
      BY <2>1, <2>2
  <1>3. ASSUME NEW i \in 1 .. n, i - 1 \in G
        PROVE  i \in G
    <2> DEFINE k == i - 1
    <2>1. k \in Nat /\ k + 1 = i /\ i \in 0 .. n
      OBVIOUS
    <2>2. Bs(a \o Run(k)) = Bs(a) + k
      BY <1>3
    <2> HIDE DEF k, G
    <2>3. a \o Run(k) \in Word /\ a \o Run(k + 1) = Append(a \o Run(k), "bs")
      BY <2>1, RunGrows
    <2>4. Bs(a \o Run(k + 1)) = Bs(a \o Run(k)) + 1
      BY <2>3, BsAppend, DimcliArgvAssumption
    <2>5. Bs(a \o Run(i)) = Bs(a) + i
      BY <1>1, <2>1, <2>2, <2>4
    <2> QED
      BY <2>1, <2>5 DEF G
  <1> HIDE DEF G
  <1>4. n \in G
    BY <1>2, <1>3, UpTo
  <1> QED
    BY <1>4 DEF G

\* ... and a list of words: f[i] is the number of the first i.
CountsOf(f, s) ==
  /\ f \in [0 .. Len(s) -> Nat] /\ f[0] = 0
  /\ \A i \in 1 .. Len(s) : f[i] = f[i - 1] + Bs(s[i])

\* An argument found adds its backslashes.
LEMMA CountsAppend ==
  ASSUME NEW s \in Seq(Word), NEW f, CountsOf(f, s), NEW a \in Word, NEW b, b = Append(s, a)
  PROVE  \E h : CountsOf(h, b) /\ h[Len(b)] = f[Len(s)] + Bs(a)
  <1> DEFINE n == Len(s)
             h == [i \in 0 .. n + 1 |-> IF i = n + 1 THEN f[n] + Bs(a) ELSE f[i]]
  <1>1. n \in Nat /\ Len(b) = n + 1 /\ b[n + 1] = a /\ \A i \in 1 .. n : b[i] = s[i]
    OBVIOUS
  <1>2. /\ \A i \in 0 .. n : f[i] \in Nat
        /\ f[0] = 0 /\ \A i \in 1 .. n : f[i] = f[i - 1] + Bs(s[i])
    BY DEF CountsOf
  <1>3. f[n] \in Nat /\ Bs(a) \in Nat
    BY <1>1, <1>2, BsIsNat
  <1>4. h \in [0 .. n + 1 -> Nat]
    <2>1. \A i \in 0 .. n + 1 : i # n + 1 => i \in 0 .. n
      BY <1>1
    <2> QED
      BY <1>2, <1>3, <2>1
  <1>5. /\ h[0] = f[0] /\ h[n + 1] = f[n] + Bs(a) /\ \A i \in 0 .. n : h[i] = f[i]
    BY <1>1
  <1> HIDE DEF n, h
  <1>6. ASSUME NEW i \in 1 .. n + 1
        PROVE  h[i] = h[i - 1] + Bs(b[i])
    <2>1. CASE i = n + 1
      <3>1. i - 1 = n /\ n \in 0 .. n
        BY <1>1, <2>1
      <3> QED
        BY <1>1, <1>5, <2>1, <3>1
    <2>2. CASE i # n + 1
      <3>1. i \in 1 .. n /\ i \in 0 .. n /\ i - 1 \in 0 .. n
        BY <1>1, <2>2
      <3> QED
        BY <1>1, <1>2, <1>5, <3>1
    <2> QED
      BY <2>1, <2>2
  <1> QED
    BY <1>1, <1>2, <1>4, <1>5, <1>6 DEF CountsOf, n

LEMMA CountsOfNone ==
  \E f : CountsOf(f, <<>>) /\ f[0] = 0
  <1>1. CountsOf([i \in 0 .. 0 |-> 0], <<>>)
    BY DEF CountsOf
  <1> QED
    BY <1>1 DEF CountsOf

LEMMA CountsExist ==
  ASSUME NEW s \in Seq(Word)
  PROVE  \E f : CountsOf(f, s)
  <1> DEFINE n == Len(s)
             G == {k \in 0 .. n : \E f : CountsOf(f, SubSeq(s, 1, k))}
  <1>1. n \in Nat /\ SubSeq(s, 1, 0) = <<>> /\ SubSeq(s, 1, n) = s
    OBVIOUS
  <1>2. 0 \in G
    <2>1. \E f : CountsOf(f, SubSeq(s, 1, 0))
      BY ONLY <1>1, CountsOfNone
    <2>2. 0 \in 0 .. n
      BY <1>1
    <2> QED
      BY <2>1, <2>2
  <1>3. ASSUME NEW k \in 1 .. n, k - 1 \in G
        PROVE  k \in G
    <2> DEFINE j == k - 1
               u == SubSeq(s, 1, j)
               v == SubSeq(s, 1, j + 1)
    <2>1. j \in 0 .. n /\ j < n /\ j + 1 = k /\ k \in 0 .. n
      BY <1>1
    <2>2. PICK f : CountsOf(f, u)
      BY <1>3
    <2>3. v = Append(u, s[j + 1]) /\ j + 1 \in 1 .. n
      BY <2>1, PrefixGrows
    <2>4. u \in Seq(Word) /\ s[j + 1] \in Word
      BY <2>1, <2>3
    <2> HIDE DEF u, v
    <2>5. \E h : CountsOf(h, v)
      BY <2>2, <2>3, <2>4, CountsAppend
    <2> QED
      BY <2>1, <2>5 DEF v
  <1> HIDE DEF G
  <1>4. n \in G
    <2>1. \A k \in 1 .. n : k - 1 \in G => k \in G
      BY <1>3
    <2> HIDE DEF n
    <2> QED
      BY <1>1, <1>2, <2>1, UpTo
  <1> QED
    BY <1>1, <1>4 DEF G

\* The same words have the same number.
LEMMA CountsSame ==
  ASSUME NEW s \in Seq(Word), NEW f, CountsOf(f, s), NEW g, CountsOf(g, s)
  PROVE  f[Len(s)] = g[Len(s)]
  <1> DEFINE n == Len(s)
             G == {i \in 0 .. n : f[i] = g[i]}
  <1>1. n \in Nat /\ n \in 0 .. n /\ 0 \in G
    BY DEF CountsOf
  <1>2. ASSUME NEW i \in 1 .. n, i - 1 \in G
        PROVE  i \in G
    <2>1. f[i] = f[i - 1] + Bs(s[i]) /\ g[i] = g[i - 1] + Bs(s[i]) /\ i \in 0 .. n
      BY DEF CountsOf
    <2> QED
      BY <1>2, <2>1
  <1> HIDE DEF G
  <1>3. n \in G
    BY <1>1, <1>2, UpTo
  <1> QED
    BY <1>3 DEF G

\* What reading the character c makes of the mode m, the argument a, the pending backslashes b
\* and the arguments o.
Goes(m) == IF m = "gap" THEN "unquoted" ELSE m

Reads(c, m, a, b, o, mm, aa, bb, oo) ==
  /\ c = "bs" => mm = Goes(m) /\ aa = a /\ bb = b + 1 /\ oo = o
  /\ c = "dq" =>
       /\ bb = 0 /\ oo = o
       /\ IF b % 2 = 1
          THEN mm = m /\ aa = Append(a \o Run(b \div 2), "dq")
          ELSE mm = (IF m = "quoted" THEN "unquoted" ELSE "quoted") /\ aa = a \o Run(b \div 2)
  /\ m # "quoted" /\ c \in Blank =>
       mm = "gap" /\ aa = <<>> /\ bb = 0 /\ oo = IF m = "gap" THEN o ELSE Append(o, a \o Run(b))
  /\ c \notin {"bs", "dq"} /\ ~(m # "quoted" /\ c \in Blank) =>
       mm = Goes(m) /\ aa = Append(a \o Run(b), c) /\ bb = 0 /\ oo = o

\* Between arguments nothing is pending.
Sane(m, a, b) == m \in {"gap", "unquoted", "quoted"} /\ (m = "gap" => a = <<>> /\ b = 0)

LEMMA SaneAfter ==
  ASSUME NEW c, NEW m, NEW a, NEW b, NEW o, NEW mm, NEW aa, NEW bb, NEW oo, b \in Nat,
         Reads(c, m, a, b, o, mm, aa, bb, oo), Sane(m, a, b)
  PROVE  Sane(mm, aa, bb)
  <1>1. b % 2 = 1 => m # "gap"
    BY DEF Sane
  <1>2. Goes(m) \in {"unquoted", "quoted"}
    BY DEF Goes, Sane
  <1>3. mm \in {"unquoted", "quoted"} \/ (mm = "gap" /\ aa = <<>> /\ bb = 0)
    BY <1>1, <1>2 DEF Reads, Sane
  <1> QED
    BY <1>3 DEF Sane

\* The arguments found, the one being put together and the pending have x backslashes.
Total(x, a, b, o) == \E f : CountsOf(f, o) /\ x = f[Len(o)] + Bs(a) + b

LEMMA TotalIsNat ==
  ASSUME NEW a \in Word, NEW b \in Nat, NEW o \in Seq(Word), NEW x, Total(x, a, b, o)
  PROVE  x \in Nat /\ x >= b
  <1>1. PICK f : CountsOf(f, o) /\ x = f[Len(o)] + Bs(a) + b
    BY DEF Total
  <1>2. Bs(a) \in Nat
    BY BsIsNat
  <1>3. f[Len(o)] \in Nat
    <2>1. Len(o) \in 0 .. Len(o)
      OBVIOUS
    <2> QED
      BY <1>1, <2>1 DEF CountsOf
  <1> QED
    BY <1>1, <1>2, <1>3

LEMMA HalfOf ==
  ASSUME NEW b \in Nat
  PROVE  b \div 2 \in Nat /\ b \div 2 <= b /\ (b # 0 => b \div 2 < b)
  OBVIOUS

\* A turn keeps the number, but for the backslash read and those a double quote halves.
LEMMA TotalAfter ==
  ASSUME NEW c \in Characters, NEW m, NEW a \in Word, NEW b \in Nat, NEW o \in Seq(Word),
         NEW mm, NEW aa, NEW bb, NEW oo,
         Reads(c, m, a, b, o, mm, aa, bb, oo), Sane(m, a, b), NEW x, Total(x, a, b, o),
         NEW y, y = IF c = "bs" THEN x + 1 ELSE IF c = "dq" THEN x - b + b \div 2 ELSE x
  PROVE  Total(y, aa, bb, oo)
  <1>1. PICK f : CountsOf(f, o) /\ x = f[Len(o)] + Bs(a) + b
    BY DEF Total
  <1>2. Bs(a) \in Nat /\ Bs(<<>>) = 0
    BY BsIsNat, BsOfNone
  <1>3. f[Len(o)] \in Nat
    <2>1. Len(o) \in 0 .. Len(o)
      OBVIOUS
    <2> QED
      BY <1>1, <2>1 DEF CountsOf
  <1> DEFINE p == a \o Run(b)
             h == b \div 2
             u == a \o Run(h)
             z == f[Len(o)]
             s == Bs(a)
  <1>4. h \in Nat
    BY HalfOf
  <1>5. p \in Word /\ Bs(p) = s + b
    BY RunGrows, BsRun
  <1>6. u \in Word /\ Bs(u) = s + h
    BY <1>4, RunGrows, BsRun
  <1> HIDE DEF p, u, h, s
  <1>7. "bs" # "dq" /\ "bs" \notin Blank /\ "dq" \notin Blank
    BY DEF Blank
  <1>8. CASE c = "bs"
    <2>1. aa = a /\ bb = b + 1 /\ oo = o
      BY <1>8 DEF Reads
    <2>2. y = z + s + bb
      <3>1. y = x + 1 /\ x = z + s + b
        BY <1>1, <1>8 DEF s
      <3>2. z \in Nat /\ s \in Nat
        BY <1>2, <1>3 DEF s
      <3>3. bb = b + 1
        BY <2>1
      <3> HIDE DEF z
      <3> QED
        BY <3>1, <3>2, <3>3
    <2> QED
      BY <1>1, <2>1, <2>2 DEF Total, s
  <1>9. CASE c = "dq"
    <2>1. bb = 0 /\ oo = o /\ (aa = Append(u, "dq") \/ aa = u)
      BY <1>9 DEF Reads, u, h
    <2>2. Bs(aa) = s + h
      <3>1. "dq" \in Characters
        BY <1>9
      <3>2. aa = Append(u, "dq") => Bs(aa) = Bs(u)
        BY <1>6, <1>7, <3>1, BsAppend
      <3> QED
        BY <1>6, <2>1, <3>2
    <2>3. y = x - b + h
      BY <1>7, <1>9 DEF h
    <2>4. y = z + Bs(aa) + bb
      BY <1>1, <1>2, <1>3, <1>4, <2>1, <2>2, <2>3 DEF s
    <2> QED
      BY <1>1, <2>1, <2>4 DEF Total
  <1>10. CASE m # "quoted" /\ c \in Blank
    <2>1. aa = <<>> /\ bb = 0 /\ (IF m = "gap" THEN oo = o ELSE oo = Append(o, p))
      BY <1>10 DEF Reads, p
    <2>2. y = x
      BY <1>7, <1>10
    <2>3. CASE m = "gap"
      <3>1. s = 0 /\ b = 0
        BY <1>2, <2>3 DEF Sane, s
      <3>2. y = z + Bs(aa) + bb
        BY <1>1, <1>2, <1>3, <2>1, <2>2, <3>1 DEF s
      <3> QED
        BY <1>1, <2>1, <2>3, <3>2 DEF Total
    <2>4. CASE m # "gap"
      <3>1. oo = Append(o, p)
        BY <2>1, <2>4
      <3>2. PICK g : CountsOf(g, oo) /\ g[Len(oo)] = f[Len(o)] + Bs(p)
        BY <1>1, <1>5, <3>1, CountsAppend
      <3>3. y = g[Len(oo)] + Bs(aa) + bb
        BY <1>1, <1>2, <1>3, <1>5, <2>1, <2>2, <3>2 DEF s
      <3> QED
        BY <3>2, <3>3 DEF Total
    <2> QED
      BY <2>3, <2>4
  <1>11. CASE c \notin {"bs", "dq"} /\ ~(m # "quoted" /\ c \in Blank)
    <2>1. aa = Append(p, c) /\ bb = 0 /\ oo = o
      BY <1>11 DEF Reads, p
    <2>2. Bs(aa) = s + b
      BY <1>5, <1>11, <2>1, BsAppend
    <2>3. y = x
      BY <1>11
    <2>4. y = z + Bs(aa) + bb
      BY <1>1, <1>2, <1>3, <2>1, <2>2, <2>3 DEF s
    <2> QED
      BY <1>1, <2>1, <2>4 DEF Total
  <1> QED
    BY <1>8, <1>9, <1>10, <1>11

\* The closing quote of such an argument comes after a backslash.
Lossy(w) == "sp" \in ToSet(w) /\ Last(w) = "bs"

LossyUpTo(args, i) == \E l \in 1 .. i : Lossy(args[l])

\* There are at most y backslashes, fewer once an argument that ends in one was quoted.
Light(args, i, y, a, b, o) ==
  \E x \in Nat : Total(x, a, b, o) /\ x <= y /\ (LossyUpTo(args, i) => x < y)

\* The bound follows the number.
LEMMA LightAfter ==
  ASSUME NEW args, NEW i, NEW y \in Nat,
         NEW c \in Characters, NEW m, NEW a \in Word, NEW b \in Nat, NEW o \in Seq(Word),
         NEW mm, NEW aa, NEW bb, NEW oo, Reads(c, m, a, b, o, mm, aa, bb, oo), Sane(m, a, b),
         Light(args, i, y, a, b, o),
         NEW z, z = IF c = "bs" THEN y + 1 ELSE IF c = "dq" THEN y - b + b \div 2 ELSE y
  PROVE  Light(args, i, z, aa, bb, oo) /\ z \in Nat
  <1>1. PICK x \in Nat : Total(x, a, b, o) /\ x <= y /\ (LossyUpTo(args, i) => x < y)
    BY DEF Light
  <1> DEFINE h == b \div 2
             u == IF c = "bs" THEN x + 1 ELSE IF c = "dq" THEN x - b + h ELSE x
  <1>2. Total(u, aa, bb, oo)
    <2>1. u = IF c = "bs" THEN x + 1 ELSE IF c = "dq" THEN x - b + b \div 2 ELSE x
      OBVIOUS
    <2> HIDE DEF u
    <2> QED
      BY <1>1, <2>1, TotalAfter
  <1>3. x >= b /\ h \in Nat
    BY <1>1, TotalIsNat, HalfOf
  <1>4. z = IF c = "bs" THEN y + 1 ELSE IF c = "dq" THEN y - b + h ELSE y
    OBVIOUS
  <1> HIDE DEF h
  <1>5. u \in Nat /\ u <= z /\ z \in Nat /\ (x < y => u < z)
    BY <1>1, <1>3, <1>4
  <1> HIDE DEF u
  <1> QED
    BY <1>1, <1>2, <1>5 DEF Light

\* The closing quote after b backslashes.
LEMMA LightCloses ==
  ASSUME NEW args, NEW i \in Nat, NEW y \in Nat,
         NEW m, NEW a \in Word, NEW b \in Nat, NEW o \in Seq(Word),
         NEW mm, NEW aa, NEW bb, NEW oo, Reads("dq", m, a, b, o, mm, aa, bb, oo), Sane(m, a, b),
         Light(args, i, y, a, b, o), Lossy(args[i + 1]) => b # 0
  PROVE  Light(args, i + 1, y, aa, bb, oo)
  <1>1. PICK x \in Nat : Total(x, a, b, o) /\ x <= y /\ (LossyUpTo(args, i) => x < y)
    BY DEF Light
  <1> DEFINE h == b \div 2
             u == x - b + h
  <1>2. Total(u, aa, bb, oo)
    <2>1. u = IF "dq" = "bs" THEN x + 1 ELSE IF "dq" = "dq" THEN x - b + b \div 2 ELSE x
      OBVIOUS
    <2>2. "dq" \in Characters
      BY DimcliArgvAssumption DEF Quotes
    <2> HIDE DEF u
    <2> QED
      BY <1>1, <2>1, <2>2, TotalAfter
  <1>3. x >= b /\ h \in Nat /\ h <= b /\ (b # 0 => h < b)
    BY <1>1, TotalIsNat, HalfOf
  <1> HIDE DEF h
  <1>4. u \in Nat /\ u <= y /\ (x < y => u < y) /\ (b # 0 => u < y)
    BY <1>1, <1>3
  <1> HIDE DEF u
  <1>5. LossyUpTo(args, i + 1) => LossyUpTo(args, i) \/ Lossy(args[i + 1])
    <2>1. \A l \in 1 .. i + 1 : l \in 1 .. i \/ l = i + 1
      OBVIOUS
    <2> QED
      BY <2>1 DEF LossyUpTo
  <1> QED
    BY <1>1, <1>2, <1>4, <1>5 DEF Light

\* An argument that is not lossy changes no bound.
LEMMA LightGoesOn ==
  ASSUME NEW args, NEW i \in Nat, NEW y, NEW a, NEW b, NEW o,
         Light(args, i, y, a, b, o), ~Lossy(args[i + 1])
  PROVE  Light(args, i + 1, y, a, b, o)
  <1>1. \A l \in 1 .. i + 1 : l \in 1 .. i \/ l = i + 1
    OBVIOUS
  <1>2. LossyUpTo(args, i + 1) => LossyUpTo(args, i)
    BY <1>1 DEF LossyUpTo
  <1> QED
    BY <1>2 DEF Light

\* What the end of the line makes of the arguments.
Flushed(m, a, b, o) == IF m = "gap" THEN o ELSE Append(o, a \o Run(b))

\* With fewer backslashes, what was found is not what was given.
LEMMA LightEnds ==
  ASSUME NEW args \in Seq(Word), NEW g, CountsOf(g, args),
         NEW m, NEW a \in Word, NEW b \in Nat, NEW o \in Seq(Word), Sane(m, a, b),
         Light(args, Len(args), g[Len(args)], a, b, o), LossyUpTo(args, Len(args))
  PROVE  Flushed(m, a, b, o) # args
  <1> DEFINE oo == Flushed(m, a, b, o)
             n == IF m = "gap" THEN "gap" ELSE "unquoted"
  <1>1. PICK x \in Nat : Total(x, a, b, o) /\ x < g[Len(args)]
    BY DEF Light
  <1>2. "sp" \in Characters /\ "sp" \in Blank
    BY DimcliArgvAssumption DEF White, Blank
  <1>3. Reads("sp", n, a, b, o, "gap", <<>>, 0, oo) /\ Sane(n, a, b)
    BY <1>2 DEF Reads, Sane, Flushed
  <1>4. x = IF "sp" = "bs" THEN x + 1 ELSE IF "sp" = "dq" THEN x - b + b \div 2 ELSE x
    OBVIOUS
  <1> HIDE DEF oo, n
  <1>5. Total(x, <<>>, 0, oo)
    BY <1>1, <1>2, <1>3, <1>4, TotalAfter
  <1>6. PICK f : CountsOf(f, oo) /\ x = f[Len(oo)] + Bs(<<>>) + 0
    BY <1>5 DEF Total
  <1>7. ASSUME oo = args
        PROVE  FALSE
    <2>1. f[Len(args)] = g[Len(args)]
      BY <1>6, <1>7, CountsSame
    <2>2. g[Len(args)] \in Nat
      BY DEF CountsOf
    <2> QED
      BY <1>1, <1>6, <1>7, <2>1, <2>2, BsOfNone
  <1> QED
    BY <1>7 DEF oo

-----------------------------------------------------------------------------
(***************************************************************************)
(* Joined for Windows, when no quoted argument ends in a backslash: the    *)
(* reader is in quotes where the argument was put between quotes, and only *)
(* there, and what it found is what was given, unless an empty argument or *)
(* a line feed or carriage return outside quotes was lost on the way.      *)
(***************************************************************************)
\* When no argument is lossy: an argument that can be given back, ...
WindowsFine(w) == w # <<>> /\ ("sp" \in ToSet(w) \/ \A i \in DOMAIN w : w[i] \notin Blank)

\* ... what is known of the arguments found after k of those given, ...
DoneTo(args, k, o) ==
  /\ \A i \in DOMAIN o : WindowsFine(o[i])
  /\ (\E i \in 1 .. k : ~WindowsFine(args[i])) \/ o = SubSeq(args, 1, k)

\* ... and after j characters of argument k, in quotes and not.
InTheQuotes(args, k, j, m, a, o) ==
  /\ m = "quoted" /\ a \o Run(RunAt(args[k], j)) = SubSeq(args[k], 1, j)
  /\ DoneTo(args, k - 1, o)

NotInQuotes(args, k, j, m, a, b, o) ==
  /\ m \in {"gap", "unquoted"} /\ (m = "gap" <=> a = <<>> /\ b = 0)
  /\ \A i \in DOMAIN a : a[i] \notin Blank
  /\ \A i \in DOMAIN o : WindowsFine(o[i])
  /\ \/ \E i \in 1 .. k - 1 : ~WindowsFine(args[i])
     \/ \E i \in 1 .. j : args[k][i] \in Blank
     \/ a \o Run(RunAt(args[k], j)) = SubSeq(args[k], 1, j) /\ o = SubSeq(args, 1, k - 1)

LEMMA BarelyRun ==
  ASSUME NEW a \in Word, NEW n \in Nat, \A i \in DOMAIN a : a[i] \notin Blank, NEW p, p = a \o Run(n)
  PROVE  \A i \in DOMAIN p : p[i] \notin Blank
  <1>1. a \in Seq(Characters) /\ Run(n) \in Seq(Characters) /\ Len(Run(n)) = n /\ \A m \in 1 .. n : Run(n)[m] = "bs"
    BY DimcliArgvAssumption DEF Run, Word
  <1> DEFINE u == Run(n)
  <1> HIDE DEF u
  <1>2. u \in Seq(Characters) /\ p = a \o u /\ a \in Seq(Characters)
    BY <1>1 DEF u
  <1>3. p \in Seq(Characters) /\ Len(p) = Len(a) + Len(u) /\ Len(a) \in Nat /\ Len(u) \in Nat
    BY ONLY <1>2, Concatenated
  <1>4. \A m \in 1 .. Len(a) : p[m] = a[m]
    BY ONLY <1>2, Concatenated
  <1>5. \A m \in 1 .. Len(u) : p[Len(a) + m] = u[m]
    BY ONLY <1>2, Concatenated
  <1>6. DOMAIN p = 1 .. Len(p) /\ DOMAIN a = 1 .. Len(a)
    BY <1>2, <1>3
  <1>7. ASSUME NEW i \in 1 .. Len(p)
        PROVE  p[i] \notin Blank
    <2> DEFINE x == Len(a)
               y == Len(u)
               l == i - x
    <2>1. x \in Nat /\ y \in Nat /\ i \in 1 .. x + y
      BY <1>3
    <2> HIDE DEF x, y
    <2>2. i \in 1 .. x \/ (l \in 1 .. y /\ i = x + l)
      BY ONLY <2>1
    <2>3. CASE i \in 1 .. x
      BY <1>4, <1>6, <2>3 DEF x
    <2>4. CASE l \in 1 .. y /\ i = x + l
      <3> HIDE DEF l
      <3>1. p[i] = u[l]
        BY <1>5, <2>4 DEF x, y
      <3>2. u[l] = "bs"
        BY <1>1, <2>4 DEF u, y
      <3> QED
        BY <3>1, <3>2 DEF Blank
    <2> QED
      BY <2>2, <2>3, <2>4
  <1> QED
    BY <1>6, <1>7

LEMMA BarelyAppend ==
  ASSUME NEW p \in Word, \A i \in DOMAIN p : p[i] \notin Blank, NEW c \in Characters, c \notin Blank,
         NEW d, d = Append(p, c)
  PROVE  d # <<>> /\ \A i \in DOMAIN d : d[i] \notin Blank
  <1>1. p \in Seq(Characters)
    BY DEF Word
  <1>2. d # <<>> /\ \A i \in DOMAIN d : d[i] = c \/ (i \in DOMAIN p /\ d[i] = p[i])
    BY <1>1, Appended
  <1> QED
    BY <1>2

\* An argument that is done.
LEMMA DoneNext ==
  ASSUME NEW args \in Seq(Word), NEW k \in 1 .. Len(args), NEW o \in Seq(Word),
         DoneTo(args, k - 1, o), WindowsFine(args[k]), NEW p, p = Append(o, args[k])
  PROVE  DoneTo(args, k, p)
  <1> DEFINE j == k - 1
             w == args[k]
  <1>1. j \in 0 .. Len(args) /\ j < Len(args) /\ j + 1 = k /\ w \in Word /\ Len(args) \in Nat
    OBVIOUS
  <1>2. SubSeq(args, 1, j + 1) = Append(SubSeq(args, 1, j), args[j + 1])
    BY <1>1, PrefixGrows
  <1> HIDE DEF j
  <1>3. SubSeq(args, 1, k) = Append(SubSeq(args, 1, j), w)
    BY <1>1, <1>2
  <1>4. \A i \in DOMAIN p : p[i] = w \/ (i \in DOMAIN o /\ p[i] = o[i])
    BY <1>1, Appended
  <1>5. \A i \in 1 .. j : i \in 1 .. k
    BY <1>1
  <1>6. DoneTo(args, j, o)
    BY DEF j
  <1> QED
    BY <1>3, <1>4, <1>5, <1>6 DEF DoneTo

\* The end of an argument that is not in quotes.
LEMMA DoneOutside ==
  ASSUME NEW args \in Seq(Word), NEW k \in 1 .. Len(args), "sp" \notin ToSet(args[k]),
         NEW m, NEW a \in Word, NEW b \in Nat, NEW o \in Seq(Word), b = RunAt(args[k], Len(args[k])),
         NotInQuotes(args, k, Len(args[k]), m, a, b, o), NEW p, p = Flushed(m, a, b, o)
  PROVE  DoneTo(args, k, p)
  <1> DEFINE w == args[k]
             L == Len(w)
             d == a \o Run(b)
             j == k - 1
  <1>1. w \in Seq(Characters) /\ L \in Nat /\ DOMAIN w = 1 .. L /\ SubSeq(w, 1, L) = w
    BY DEF Word
  <1>2. \A i \in 1 .. j : i \in 1 .. k
    OBVIOUS
  <1>3. /\ m \in {"gap", "unquoted"} /\ (m = "gap" <=> a = <<>> /\ b = 0)
        /\ \A i \in DOMAIN a : a[i] \notin Blank
        /\ \A i \in DOMAIN o : WindowsFine(o[i])
        /\ \/ \E i \in 1 .. j : ~WindowsFine(args[i])
           \/ \E i \in 1 .. L : w[i] \in Blank
           \/ d = w /\ o = SubSeq(args, 1, j)
    BY <1>1 DEF NotInQuotes
  <1>4. (\E i \in 1 .. L : w[i] \in Blank) => ~WindowsFine(w)
    BY <1>1 DEF WindowsFine
  <1>5. d \in Word /\ \A i \in DOMAIN d : d[i] \notin Blank
    BY <1>3, RunGrows, BarelyRun
  <1>6. Len(d) = Len(a) + b
    <2>1. Run(b) \in Seq(Characters) /\ Len(Run(b)) = b /\ a \in Seq(Characters)
      BY DimcliArgvAssumption DEF Run, Word
    <2> DEFINE u == Run(b)
    <2>2. a \in Seq(Characters) /\ u \in Seq(Characters) /\ d = a \o u /\ Len(u) = b
      BY <2>1
    <2> HIDE DEF d, u
    <2>3. Len(d) = Len(a) + Len(u)
      BY ONLY <2>2, Concatenated
    <2> QED
      BY <2>2, <2>3
  <1>7. CASE m = "gap"
    <2>1. p = o /\ d = <<>>
      <3>1. a = <<>> /\ b = 0
        BY <1>3, <1>7
      <3> QED
        BY <1>7, <3>1, RunOfNone DEF Flushed
    <2>2. d = w => ~WindowsFine(w)
      BY <2>1 DEF WindowsFine
    <2>3. k \in 1 .. k
      OBVIOUS
    <2>4. \E i \in 1 .. k : ~WindowsFine(args[i])
      BY <1>2, <1>3, <1>4, <2>2, <2>3
    <2> QED
      BY <1>3, <2>1, <2>4 DEF DoneTo
  <1>8. CASE m # "gap"
    <2>1. d # <<>>
      <3>1. a # <<>> \/ b # 0
        BY <1>3, <1>8
      <3>2. a \in Seq(Characters)
        BY DEF Word
      <3> HIDE DEF d
      <3>3. Len(a) # 0 \/ b # 0
        BY <3>1, <3>2
      <3>4. Len(d) # 0
        BY <1>6, <3>2, <3>3
      <3> QED
        BY <3>4
    <2>2. WindowsFine(d)
      BY <1>5, <2>1 DEF WindowsFine
    <2>3. p = Append(o, d)
      BY <1>8 DEF Flushed
    <2>4. \A i \in DOMAIN p : WindowsFine(p[i])
      <3>1. \A i \in DOMAIN p : p[i] = d \/ (i \in DOMAIN o /\ p[i] = o[i])
        <4>1. d \in Word /\ o \in Seq(Word)
          BY <1>5
        <4> HIDE DEF d
        <4> QED
          BY <2>3, <4>1, Appended
      <3> QED
        BY <1>3, <2>2, <3>1
    <2>5. CASE \E i \in 1 .. k : ~WindowsFine(args[i])
      BY <2>4, <2>5 DEF DoneTo
    <2>6. CASE d = w /\ o = SubSeq(args, 1, j)
      <3>1. DoneTo(args, j, o)
        BY <1>3, <2>6 DEF DoneTo
      <3> QED
        BY <2>2, <2>3, <2>6, <3>1, DoneNext
    <2>7. (\E i \in 1 .. L : w[i] \in Blank) => \E i \in 1 .. k : ~WindowsFine(args[i])
      <3>1. k \in 1 .. k
        OBVIOUS
      <3> QED
        BY <1>4, <3>1
    <2> QED
      BY <1>2, <1>3, <2>5, <2>6, <2>7
  <1> QED
    BY <1>7, <1>8

-----------------------------------------------------------------------------
(***************************************************************************)
(* The turns of toWindowsArgv on a joined line, both told at once.         *)
(***************************************************************************)
\* What is known before argument k, after j characters of it and t of the next one's
\* backslashes, and behind its closing quote; g counts the backslashes of the arguments.
NoneLossy(args) == ~LossyUpTo(args, Len(args))

Ahead(args, g, k, m, a, b, o) ==
  /\ b = 0 /\ Sane(m, a, b) /\ Light(args, k - 1, g[k - 1], a, b, o)
  /\ NoneLossy(args) => m = "gap" /\ a = <<>> /\ DoneTo(args, k - 1, o)

Within(args, g, k, j, t, m, a, b, o) ==
  /\ b = RunAt(args[k], j) + t /\ Sane(m, a, b)
  /\ Light(args, k - 1, g[k - 1] + Bs(SubSeq(args[k], 1, j)) + t, a, b, o)
  /\ NoneLossy(args) => IF k \in QuotedOnes(args) THEN InTheQuotes(args, k, j, m, a, o)
                                                  ELSE NotInQuotes(args, k, j, m, a, b, o)

Behind(args, g, k, m, a, b, o) ==
  /\ b = 0 /\ Sane(m, a, b) /\ Light(args, k, g[k], a, b, o)
  /\ NoneLossy(args) => m = "unquoted" /\ a = args[k] /\ DoneTo(args, k - 1, o)

LEMMA CountsAre ==
  ASSUME NEW args \in Seq(Word), NEW g, CountsOf(g, args), NEW k \in 1 .. Len(args)
  PROVE  g[k - 1] \in Nat /\ g[k] \in Nat /\ g[k] = g[k - 1] + Bs(args[k]) /\ k - 1 \in Nat
  <1>1. k - 1 \in 0 .. Len(args) /\ k \in 0 .. Len(args)
    OBVIOUS
  <1> QED
    BY <1>1 DEF CountsOf

LEMMA BeginsAt0 ==
  ASSUME NEW w \in Word
  PROVE  Bs(SubSeq(w, 1, 0)) = 0 /\ SubSeq(w, 1, 0) = <<>> /\ RunAt(w, 0) = 0
  <1>1. SubSeq(w, 1, 0) = <<>>
    BY DEF Word
  <1> QED
    BY <1>1, BsOfNone, RunBegins

LEMMA EmptyIsWord == <<>> \in Word /\ \A i \in DOMAIN <<>> : <<>>[i] \notin Blank
  BY DEF Word

\* Without an opening quote the argument begins at once, ...
LEMMA AheadOutside ==
  ASSUME NEW args \in Seq(Word), NEW g, CountsOf(g, args), NEW k \in 1 .. Len(args),
         k \notin QuotedOnes(args), NEW m, NEW a, NEW b, NEW o, Ahead(args, g, k, m, a, b, o)
  PROVE  Within(args, g, k, 0, 0, m, a, b, o)
  <1> DEFINE w == args[k]
             y == g[k - 1]
             z == y + Bs(SubSeq(w, 1, 0)) + 0
  <1>1. w \in Word /\ y \in Nat /\ k - 1 \in Nat
    BY CountsAre
  <1>2. Bs(SubSeq(w, 1, 0)) = 0 /\ SubSeq(w, 1, 0) = <<>> /\ RunAt(w, 0) = 0
    BY <1>1, BeginsAt0
  <1>3. z = y
    BY <1>1, <1>2
  <1> HIDE DEF z
  <1>4. b = RunAt(w, 0) + 0 /\ Sane(m, a, b) /\ Light(args, k - 1, z, a, b, o)
    BY <1>2, <1>3 DEF Ahead
  <1>5. NoneLossy(args) => NotInQuotes(args, k, 0, m, a, b, o)
    <2> SUFFICES ASSUME NoneLossy(args) PROVE NotInQuotes(args, k, 0, m, a, b, o)
      OBVIOUS
    <2>1. m = "gap" /\ a = <<>> /\ b = 0 /\ DoneTo(args, k - 1, o)
      BY DEF Ahead
    <2>2. <<>> \o Run(0) = <<>>
      BY EmptyIsWord, RunOfNone
    <2> QED
      BY <1>2, <2>1, <2>2, EmptyIsWord DEF NotInQuotes, DoneTo
  <1> QED
    BY <1>4, <1>5 DEF Within, z

\* ... with one, behind it.
LEMMA AheadOpens ==
  ASSUME NEW args \in Seq(Word), NEW g, CountsOf(g, args), NEW k \in 1 .. Len(args),
         k \in QuotedOnes(args), NEW m, NEW a \in Word, NEW b \in Nat, NEW o \in Seq(Word),
         Ahead(args, g, k, m, a, b, o),
         NEW mm, NEW aa, NEW bb, NEW oo, Reads("dq", m, a, b, o, mm, aa, bb, oo)
  PROVE  Within(args, g, k, 0, 0, mm, aa, bb, oo)
  <1> DEFINE w == args[k]
             y == g[k - 1]
             z == y + Bs(SubSeq(w, 1, 0)) + 0
  <1>1. w \in Word /\ y \in Nat /\ k - 1 \in Nat
    BY CountsAre
  <1>2. Bs(SubSeq(w, 1, 0)) = 0 /\ SubSeq(w, 1, 0) = <<>> /\ RunAt(w, 0) = 0
    BY <1>1, BeginsAt0
  <1>3. z = y
    BY <1>1, <1>2
  <1>4. b = 0 /\ Sane(m, a, b) /\ Light(args, k - 1, y, a, b, o) /\ "dq" \in Characters
    BY DimcliArgvAssumption DEF Ahead, Quotes
  <1>5. b \div 2 = 0 /\ b % 2 # 1
    BY <1>4
  <1>6. bb = 0 /\ oo = o /\ mm = (IF m = "quoted" THEN "unquoted" ELSE "quoted") /\ aa = a \o Run(0)
    BY <1>4, <1>5 DEF Reads
  <1>7. y = IF "dq" = "bs" THEN y + 1 ELSE IF "dq" = "dq" THEN y - b + b \div 2 ELSE y
    BY <1>1, <1>4, <1>5
  <1> HIDE DEF y, z
  <1>8. Light(args, k - 1, y, aa, bb, oo)
    BY <1>1, <1>4, <1>7, LightAfter
  <1>9. Sane(mm, aa, bb)
    BY <1>4, SaneAfter
  <1>10. NoneLossy(args) => InTheQuotes(args, k, 0, mm, aa, oo)
    <2> SUFFICES ASSUME NoneLossy(args) PROVE InTheQuotes(args, k, 0, mm, aa, oo)
      OBVIOUS
    <2>1. m = "gap" /\ a = <<>> /\ DoneTo(args, k - 1, o)
      BY DEF Ahead
    <2>2. <<>> \o Run(0) = <<>>
      BY EmptyIsWord, RunOfNone
    <2> QED
      BY <1>2, <1>6, <2>1, <2>2 DEF InTheQuotes
  <1>11. bb = RunAt(w, 0) + 0
    BY <1>2, <1>6
  <1> QED
    BY <1>3, <1>8, <1>9, <1>10, <1>11 DEF Within, y, z

LEMMA NotEmptyRun ==
  ASSUME NEW a \in Word, NEW b \in Nat, ~(a = <<>> /\ b = 0)
  PROVE  a \o Run(b) # <<>>
  <1> DEFINE u == Run(b)
             d == a \o u
  <1>1. a \in Seq(Characters) /\ u \in Seq(Characters) /\ d = a \o u /\ Len(u) = b
    BY DimcliArgvAssumption DEF Run, Word
  <1> HIDE DEF d, u
  <1>2. Len(d) = Len(a) + Len(u)
    BY ONLY <1>1, Concatenated
  <1>3. (Len(a) # 0 \/ b # 0) /\ Len(a) \in Nat
    BY <1>1
  <1>4. Len(d) # 0
    BY <1>1, <1>2, <1>3
  <1>5. d # <<>>
    BY <1>4
  <1> QED
    BY <1>5 DEF d, u

LEMMA FlushedFine ==
  ASSUME NEW m, NEW a \in Word, NEW b \in Nat, NEW o \in Seq(Word), m = "gap" <=> a = <<>> /\ b = 0,
         \A i \in DOMAIN a : a[i] \notin Blank, \A i \in DOMAIN o : WindowsFine(o[i]),
         NEW p, p = Flushed(m, a, b, o)
  PROVE  \A i \in DOMAIN p : WindowsFine(p[i])
  <1> DEFINE d == a \o Run(b)
  <1>1. CASE m = "gap"
    BY <1>1 DEF Flushed
  <1>2. CASE m # "gap"
    <2>1. d \in Word /\ d # <<>> /\ \A i \in DOMAIN d : d[i] \notin Blank
      BY <1>2, RunGrows, BarelyRun, NotEmptyRun
    <2>2. p = Append(o, d)
      BY <1>2 DEF Flushed
    <2> HIDE DEF d
    <2>3. WindowsFine(d)
      BY <2>1 DEF WindowsFine
    <2>4. \A i \in DOMAIN p : p[i] = d \/ (i \in DOMAIN o /\ p[i] = o[i])
      BY <2>1, <2>2, Appended
    <2> QED
      BY <2>3, <2>4
  <1> QED
    BY <1>1, <1>2

\* A character that is no double quote, outside quotes.
LEMMA ReadsOutside ==
  ASSUME NEW args \in Seq(Word), NEW k \in 1 .. Len(args), NEW j \in 0 .. Len(args[k]),
         j < Len(args[k]), args[k][j + 1] # "dq",
         NEW m, NEW a \in Word, NEW b \in Nat, NEW o \in Seq(Word), b = RunAt(args[k], j),
         NotInQuotes(args, k, j, m, a, b, o),
         NEW mm, NEW aa, NEW bb, NEW oo, Reads(args[k][j + 1], m, a, b, o, mm, aa, bb, oo),
         NEW rr, rr = RunAt(args[k], j + 1), bb = rr,
         aa \o Run(rr) = Append(a \o Run(b), args[k][j + 1]) \/ args[k][j + 1] \in Blank
  PROVE  NotInQuotes(args, k, j + 1, mm, aa, bb, oo)
  <1> DEFINE w == args[k]
             c == w[j + 1]
             p == a \o Run(b)
             s == SubSeq(w, 1, j)
             z == SubSeq(w, 1, j + 1)
             i == k - 1
  <1>1. w \in Seq(Characters) /\ c \in Characters /\ z = Append(s, c) /\ j + 1 \in 1 .. j + 1
    <2>1. w \in Seq(Characters)
      BY DEF Word
    <2>2. z = Append(s, w[j + 1]) /\ j + 1 \in 1 .. Len(w)
      BY <2>1, PrefixGrows
    <2>3. j + 1 \in 1 .. j + 1
      OBVIOUS
    <2> HIDE DEF w, z, s
    <2> QED
      BY <2>1, <2>2, <2>3
  <1>2. /\ m \in {"gap", "unquoted"} /\ (m = "gap" <=> a = <<>> /\ b = 0)
        /\ \A x \in DOMAIN a : a[x] \notin Blank
        /\ \A x \in DOMAIN o : WindowsFine(o[x])
        /\ \/ \E x \in 1 .. i : ~WindowsFine(args[x])
           \/ \E x \in 1 .. j : w[x] \in Blank
           \/ p = s /\ o = SubSeq(args, 1, i)
    BY DEF NotInQuotes
  <1>3. \A x \in 1 .. j : x \in 1 .. j + 1
    OBVIOUS
  <1>4. p \in Word /\ \A x \in DOMAIN p : p[x] \notin Blank
    BY <1>2, RunGrows, BarelyRun
  <1> HIDE DEF p, s, z, i
  <1>5. CASE c \in Blank
    <2>1. mm = "gap" /\ aa = <<>> /\ bb = 0 /\ oo = Flushed(m, a, b, o)
      BY <1>2, <1>5 DEF Reads, Flushed
    <2>2. \A x \in DOMAIN oo : WindowsFine(oo[x])
      BY <1>2, <2>1, FlushedFine
    <2>3. \E x \in 1 .. j + 1 : w[x] \in Blank
      BY <1>1, <1>5
    <2> QED
      BY <2>1, <2>2, <2>3, EmptyIsWord DEF NotInQuotes
  <1>6. CASE c \notin Blank
    <2>1. /\ mm = "unquoted" /\ oo = o /\ ~(aa = <<>> /\ bb = 0)
          /\ \A x \in DOMAIN aa : aa[x] \notin Blank
      <3>1. Goes(m) = "unquoted"
        BY <1>2 DEF Goes
      <3>2. CASE c = "bs"
        BY <1>2, <3>1, <3>2 DEF Reads
      <3>3. CASE c # "bs"
        <4>1. mm = Goes(m) /\ aa = Append(p, c) /\ oo = o
          BY <1>6, <3>3 DEF Reads, p
        <4>2. aa # <<>> /\ \A x \in DOMAIN aa : aa[x] \notin Blank
          BY <1>1, <1>4, <1>6, <4>1, BarelyAppend
        <4> QED
          BY <3>1, <4>1, <4>2
      <3> QED
        BY <3>2, <3>3
    <2>2. aa \o Run(rr) = Append(p, c)
      BY <1>6 DEF p
    <2>3. \/ \E x \in 1 .. i : ~WindowsFine(args[x])
          \/ \E x \in 1 .. j + 1 : w[x] \in Blank
          \/ aa \o Run(rr) = z /\ oo = SubSeq(args, 1, i)
      BY <1>1, <1>2, <1>3, <2>1, <2>2
    <2> QED
      BY <1>2, <2>1, <2>3 DEF NotInQuotes, z, i
  <1> QED
    BY <1>5, <1>6

\* A character that is no double quote takes the reader to the next one.
LEMMA WithinReads ==
  ASSUME NEW args \in Seq(Word), NEW g, CountsOf(g, args), NEW k \in 1 .. Len(args),
         NEW j \in 0 .. Len(args[k]), j < Len(args[k]), NEW c, c = args[k][j + 1], c # "dq",
         NEW m, NEW a \in Word, NEW b \in Nat, NEW o \in Seq(Word),
         Within(args, g, k, j, 0, m, a, b, o),
         NEW mm, NEW aa, NEW bb, NEW oo, Reads(c, m, a, b, o, mm, aa, bb, oo)
  PROVE  Within(args, g, k, j + 1, 0, mm, aa, bb, oo)
  <1> DEFINE w == args[k]
             s == SubSeq(w, 1, j)
             z == SubSeq(w, 1, j + 1)
             r == RunAt(w, j)
             rr == RunAt(w, j + 1)
             i == k - 1
             y == g[i]
  <1>1. w \in Word /\ w \in Seq(Characters) /\ y \in Nat /\ j \in Nat
    <2>1. w \in Word /\ w \in Seq(Characters) /\ j \in Nat
      BY DEF Word
    <2>2. y \in Nat
      BY CountsAre
    <2> QED
      BY <2>1, <2>2
  <1>2. c \in Characters /\ z = Append(s, c) /\ s \in Word
    <2>1. z = Append(s, w[j + 1]) /\ j + 1 \in 1 .. Len(w)
      BY <1>1, PrefixGrows
    <2>2. c \in Characters
      <3> HIDE DEF w
      <3> QED
        BY <1>1, <2>1 DEF w
    <2>3. s \in Word
      BY <1>1 DEF Word
    <2> QED
      BY <2>1, <2>2, <2>3
  <1>3. Bs(s) \in Nat /\ Bs(z) = IF c = "bs" THEN Bs(s) + 1 ELSE Bs(s)
    <2> HIDE DEF s, z
    <2>1. Bs(s) \in Nat
      BY ONLY <1>2, BsIsNat
    <2>2. Bs(z) = IF c = "bs" THEN Bs(s) + 1 ELSE Bs(s)
      BY ONLY <1>2, BsAppend
    <2> QED
      BY <2>1, <2>2
  <1>4. r \in Nat /\ rr = IF c = "bs" THEN r + 1 ELSE 0
    BY <1>1, RunIs, RunGoesOn
  <1> DEFINE v == y + Bs(s) + 0
             vv == y + Bs(z) + 0
  <1>5. Sane(m, a, b) /\ Light(args, i, v, a, b, o) /\ b = r
    BY <1>4 DEF Within
  <1>6. v \in Nat /\ vv = IF c = "bs" THEN v + 1 ELSE IF c = "dq" THEN v - b + b \div 2 ELSE v
    <2> DEFINE l == Bs(s)
               ll == Bs(z)
    <2>1. y \in Nat /\ l \in Nat /\ ll = (IF c = "bs" THEN l + 1 ELSE l) /\ c # "dq"
      BY <1>1, <1>3
    <2> HIDE DEF l, ll, y
    <2>2. y + l + 0 \in Nat /\ y + ll + 0 = IF c = "bs" THEN (y + l + 0) + 1 ELSE y + l + 0
      BY ONLY <2>1
    <2>3. v = y + l + 0 /\ vv = y + ll + 0
      BY DEF l, ll
    <2> HIDE DEF v, vv
    <2> QED
      BY <2>1, <2>2, <2>3
  <1>7. \/ aa \o Run(rr) = Append(a \o Run(b), c)
        \/ m # "quoted" /\ c \in Blank
    <2>1. CASE ~(m # "quoted" /\ c \in Blank)
      <3>1. (c = "bs" => aa = a /\ rr = b + 1) /\ (c # "bs" => aa = Append(a \o Run(b), c) /\ rr = 0)
        BY <1>4, <1>5, <2>1 DEF Reads
      <3>2. c \in Characters
        BY <1>2
      <3> HIDE DEF rr
      <3>3. a \in Word /\ b \in Nat
        OBVIOUS
      <3>4. c = "bs" => aa = a /\ rr = b + 1
        BY <3>1
      <3>5. c # "bs" => aa = Append(a \o Run(b), c) /\ rr = 0
        BY <3>1
      <3>6. aa \o Run(rr) = Append(a \o Run(b), c)
        <4>1. CASE c = "bs"
          BY <3>3, <3>4, <4>1, RunGrows
        <4>2. CASE c # "bs"
          <5> DEFINE p == a \o Run(b)
          <5>1. p \in Word
            BY <3>3, RunGrows
          <5>2. aa = Append(p, c) /\ rr = 0
            BY <3>5, <4>2
          <5> HIDE DEF p
          <5>3. aa \in Word
            BY <3>2, <5>1, <5>2, BsAppend
          <5>4. aa \o Run(0) = aa
            BY <5>3, RunOfNone
          <5> QED
            BY <5>2, <5>4 DEF p
        <4> QED
          BY <4>1, <4>2
      <3> QED
        BY <3>6
    <2> QED
      BY <2>1
  <1>8. bb = rr
    <2>1. c # "bs" => bb = 0
      BY DEF Reads
    <2>2. c = "bs" => bb = b + 1
      BY DEF Reads
    <2> QED
      BY <1>4, <1>5, <2>1, <2>2
  <1>9. Within(args, g, k, j, 0, m, a, b, o)
    OBVIOUS
  <1> HIDE DEF s, z, r, rr, i, y, v, vv
  <1>10. Light(args, i, vv, aa, bb, oo)
    BY <1>2, <1>5, <1>6, LightAfter
  <1>11. Sane(mm, aa, bb)
    BY <1>5, SaneAfter
  <1>12. ASSUME NoneLossy(args), k \in QuotedOnes(args)
         PROVE  InTheQuotes(args, k, j + 1, mm, aa, oo)
    <2>1. m = "quoted" /\ a \o Run(b) = s /\ DoneTo(args, k - 1, o)
      BY <1>5, <1>9, <1>12 DEF Within, InTheQuotes, s, r
    <2>2. mm = "quoted" /\ oo = o
      BY <2>1 DEF Reads, Goes
    <2>3. aa \o Run(rr) = z
      BY <1>2, <1>7, <2>1
    <2> QED
      BY <2>1, <2>2, <2>3 DEF InTheQuotes, z, rr
  <1>13. ASSUME NoneLossy(args), k \notin QuotedOnes(args)
         PROVE  NotInQuotes(args, k, j + 1, mm, aa, bb, oo)
    <2>1. NotInQuotes(args, k, j, m, a, b, o)
      BY <1>9, <1>13 DEF Within
    <2>2. aa \o Run(rr) = Append(a \o Run(b), c) \/ c \in Blank
      BY <1>7
    <2>3. rr = RunAt(args[k], j + 1) /\ b = RunAt(args[k], j)
      BY <1>5 DEF rr, r
    <2> QED
      BY <1>8, <2>1, <2>2, <2>3, ReadsOutside
  <1>14. bb = RunAt(args[k], j + 1) + 0
    BY <1>4, <1>5, <1>8 DEF rr
  <1> QED
    BY <1>10, <1>11, <1>12, <1>13, <1>14 DEF Within, vv, y, z, i

\* Of the backslashes added before a double quote, one more is counted, ...
LEMMA WithinCounts ==
  ASSUME NEW args \in Seq(Word), NEW g, CountsOf(g, args), NEW k \in 1 .. Len(args),
         NEW j \in 0 .. Len(args[k]), NEW t \in Nat,
         NEW m, NEW a \in Word, NEW b \in Nat, NEW o \in Seq(Word),
         Within(args, g, k, j, t, m, a, b, o),
         NEW mm, NEW aa, NEW bb, NEW oo, Reads("bs", m, a, b, o, mm, aa, bb, oo)
  PROVE  Within(args, g, k, j, t + 1, mm, aa, bb, oo)
  <1> DEFINE w == args[k]
             s == SubSeq(w, 1, j)
             i == k - 1
             l == Bs(s)
             y == g[i]
             v == y + l + t
             vv == y + l + (t + 1)
             r == RunAt(w, j)
  <1>1. w \in Seq(Characters) /\ y \in Nat /\ r \in Nat /\ "bs" \in Characters
    <2>1. w \in Word /\ w \in Seq(Characters) /\ "bs" \in Characters
      BY DimcliArgvAssumption DEF Word
    <2>2. y \in Nat
      BY CountsAre
    <2>3. r \in Nat
      BY <2>1, RunIs
    <2> QED
      BY <2>1, <2>2, <2>3
  <1>2. l \in Nat
    <2>1. s \in Word
      BY <1>1 DEF Word
    <2> HIDE DEF s
    <2> QED
      BY <2>1, BsIsNat
  <1>3. Sane(m, a, b) /\ Light(args, i, v, a, b, o) /\ b = r + t
    BY DEF Within
  <1>4. mm = Goes(m) /\ aa = a /\ bb = b + 1 /\ oo = o
    BY DEF Reads
  <1>5. Within(args, g, k, j, t, m, a, b, o)
    OBVIOUS
  <1> HIDE DEF w, s, i, l, y, r
  <1>6. v \in Nat /\ vv = v + 1 /\ bb = r + (t + 1) /\ bb # 0
    BY <1>1, <1>2, <1>3, <1>4
  <1> HIDE DEF v, vv
  <1>7. vv = IF "bs" = "bs" THEN v + 1 ELSE IF "bs" = "dq" THEN v - b + b \div 2 ELSE v
    BY <1>6
  <1>8. Light(args, i, vv, aa, bb, oo)
    BY <1>1, <1>3, <1>6, <1>7, LightAfter
  <1>9. Sane(mm, aa, bb)
    BY <1>3, SaneAfter
  <1>10. ASSUME NoneLossy(args), k \in QuotedOnes(args)
         PROVE  InTheQuotes(args, k, j, mm, aa, oo)
    <2>1. InTheQuotes(args, k, j, m, a, o)
      BY <1>5, <1>10 DEF Within
    <2> QED
      BY <1>4, <2>1 DEF InTheQuotes, Goes
  <1>11. ASSUME NoneLossy(args), k \notin QuotedOnes(args)
         PROVE  NotInQuotes(args, k, j, mm, aa, bb, oo)
    <2>1. NotInQuotes(args, k, j, m, a, b, o)
      BY <1>5, <1>11 DEF Within
    <2>2. mm = "unquoted"
      BY <1>4, <2>1 DEF NotInQuotes, Goes
    <2> QED
      BY <1>4, <1>6, <2>1, <2>2 DEF NotInQuotes
  <1> QED
    BY <1>6, <1>8, <1>9, <1>10, <1>11 DEF Within, vv, y, l, s, i, r, w

LEMMA OddHalf ==
  ASSUME NEW r \in Nat
  PROVE  (r + (r + 1)) % 2 = 1 /\ (r + (r + 1)) \div 2 = r
  OBVIOUS

\* ... and after them all the quote is a character and as many are left as were given.
LEMMA WithinQuote ==
  ASSUME NEW args \in Seq(Word), NEW g, CountsOf(g, args), NEW k \in 1 .. Len(args),
         NEW j \in 0 .. Len(args[k]), j < Len(args[k]), args[k][j + 1] = "dq",
         NEW t \in Nat, t = RunAt(args[k], j) + 1,
         NEW m, NEW a \in Word, NEW b \in Nat, NEW o \in Seq(Word),
         Within(args, g, k, j, t, m, a, b, o),
         NEW mm, NEW aa, NEW bb, NEW oo, Reads("dq", m, a, b, o, mm, aa, bb, oo)
  PROVE  Within(args, g, k, j + 1, 0, mm, aa, bb, oo)
  <1> DEFINE w == args[k]
             s == SubSeq(w, 1, j)
             z == SubSeq(w, 1, j + 1)
             i == k - 1
             l == Bs(s)
             ll == Bs(z)
             y == g[i]
             v == y + l + t
             vv == y + ll + 0
             r == RunAt(w, j)
             p == a \o Run(r)
  <1>1. /\ w \in Seq(Characters) /\ y \in Nat /\ r \in Nat /\ "dq" \in Characters
        /\ RunAt(w, j + 1) = 0
    <2>1. w \in Word /\ w \in Seq(Characters) /\ "dq" \in Characters
      BY DimcliArgvAssumption DEF Word, Quotes
    <2>2. y \in Nat
      BY CountsAre
    <2>3. r \in Nat
      BY <2>1, RunIs
    <2>4. RunAt(w, j + 1) = 0
      BY <2>1, RunGoesOn
    <2> QED
      BY <2>1, <2>2, <2>3, <2>4
  <1>2. z = Append(s, "dq") /\ s \in Word
    <2>1. z = Append(s, w[j + 1])
      BY <1>1, PrefixGrows
    <2>2. s \in Word
      <3>1. w \in Seq(Characters) /\ j \in 0 .. Len(w)
        BY <1>1
      <3> HIDE DEF w
      <3> QED
        BY <3>1 DEF Word
    <2> HIDE DEF s, z
    <2> QED
      BY <2>1, <2>2
  <1>3. l \in Nat /\ ll = l
    <2> HIDE DEF s, z
    <2> QED
      BY <1>1, <1>2, BsIsNat, BsAppend
  <1>4. Sane(m, a, b) /\ Light(args, i, v, a, b, o) /\ b = r + t
    BY DEF Within
  <1>5. Within(args, g, k, j, t, m, a, b, o) /\ t = r + 1
    OBVIOUS
  <1>6. p \in Word
    BY <1>1, RunGrows
  <1> HIDE DEF w, s, z, i, l, ll, y, r
  <1>7. b % 2 = 1 /\ b \div 2 = r
    BY <1>1, <1>4, <1>5, OddHalf
  <1>8. mm = m /\ aa = Append(p, "dq") /\ bb = 0 /\ oo = o
    BY <1>7 DEF Reads
  <1>9. v \in Nat /\ vv = v - b + r /\ b # 0
    <2>1. y \in Nat /\ l \in Nat /\ ll = l /\ r \in Nat /\ b = r + t /\ t = r + 1
      BY <1>1, <1>3, <1>4, <1>5
    <2>2. y + l + t \in Nat /\ y + ll + 0 = y + l + t - b + r /\ b # 0
      BY ONLY <2>1
    <2>3. v = y + l + t /\ vv = y + ll + 0
      OBVIOUS
    <2> HIDE DEF v, vv
    <2> QED
      BY ONLY <2>1, <2>2, <2>3
  <1> HIDE DEF v, vv, p
  <1>10. vv = IF "dq" = "bs" THEN v + 1 ELSE IF "dq" = "dq" THEN v - b + b \div 2 ELSE v
    BY <1>7, <1>9
  <1>11. Light(args, i, vv, aa, bb, oo)
    <2>1. "dq" \in Characters /\ Sane(m, a, b) /\ Light(args, i, v, a, b, o) /\ v \in Nat
      BY <1>1, <1>4, <1>9
    <2>2. /\ a \in Word /\ b \in Nat /\ o \in Seq(Word)
          /\ Reads("dq", m, a, b, o, mm, aa, bb, oo)
      OBVIOUS
    <2> QED
      BY ONLY <1>10, <2>1, <2>2, LightAfter
  <1>12. Sane(mm, aa, bb)
    BY <1>4, SaneAfter
  <1>13. aa \o Run(0) = Append(p, "dq")
    <2>1. aa \in Word
      BY <1>1, <1>6, <1>8, BsAppend
    <2> QED
      BY <1>8, <2>1, RunOfNone
  <1>14. ASSUME NoneLossy(args), k \in QuotedOnes(args)
         PROVE  InTheQuotes(args, k, j + 1, mm, aa, oo)
    <2>1. m = "quoted" /\ p = s /\ DoneTo(args, i, o)
      BY <1>5, <1>14 DEF Within, InTheQuotes, p, s, r, w, i
    <2>2. aa \o Run(0) = z
      BY <1>2, <1>13, <2>1
    <2> QED
      BY <1>1, <1>8, <2>1, <2>2 DEF InTheQuotes, z, w, i
  <1>15. ASSUME NoneLossy(args), k \notin QuotedOnes(args)
         PROVE  NotInQuotes(args, k, j + 1, mm, aa, bb, oo)
    <2>1. NotInQuotes(args, k, j, m, a, b, o)
      BY <1>5, <1>15 DEF Within
    <2>2. /\ m \in {"gap", "unquoted"} /\ (m = "gap" <=> a = <<>> /\ b = 0)
          /\ \A x \in DOMAIN a : a[x] \notin Blank
          /\ \A x \in DOMAIN o : WindowsFine(o[x])
          /\ \/ \E x \in 1 .. i : ~WindowsFine(args[x])
             \/ \E x \in 1 .. j : w[x] \in Blank
             \/ p = s /\ o = SubSeq(args, 1, i)
      BY <2>1 DEF NotInQuotes, p, s, r, w, i
    <2>3. \A x \in 1 .. j : x \in 1 .. j + 1
      OBVIOUS
    <2>4. mm = "unquoted"
      BY <1>8, <1>9, <2>2
    <2>5. aa # <<>> /\ \A x \in DOMAIN aa : aa[x] \notin Blank
      <3>1. \A x \in DOMAIN p : p[x] \notin Blank
        BY <1>1, <2>2, BarelyRun DEF p
      <3>2. "dq" \notin Blank
        BY DEF Blank
      <3> QED
        BY <1>1, <1>6, <1>8, <3>1, <3>2, BarelyAppend
    <2>6. \/ \E x \in 1 .. i : ~WindowsFine(args[x])
          \/ \E x \in 1 .. j + 1 : w[x] \in Blank
          \/ aa \o Run(RunAt(w, j + 1)) = z /\ oo = SubSeq(args, 1, i)
      BY <1>1, <1>2, <1>8, <1>13, <2>2, <2>3
    <2> QED
      BY <1>8, <2>2, <2>4, <2>5, <2>6 DEF NotInQuotes, z, w, i
  <1>16. bb = RunAt(w, j + 1) + 0
    BY <1>1, <1>8
  <1> QED
    BY <1>11, <1>12, <1>14, <1>15, <1>16 DEF Within, vv, y, ll, z, i, w

\* A quoted argument ends in a backslash when it is lossy, and only then.
LEMMA LossyRun ==
  ASSUME NEW w \in Word, "sp" \in ToSet(w)
  PROVE  Lossy(w) <=> RunAt(w, Len(w)) # 0
  <1> DEFINE L == Len(w)
             r == RunAt(w, L)
  <1>1. L \in Nat /\ L # 0 /\ Last(w) = w[L]
    BY DEF Word, ToSet, Last
  <1>2. r \in 0 .. L /\ (\A i \in L - r + 1 .. L : w[i] = "bs") /\ (r # L => w[L - r] # "bs")
    BY <1>1, RunIs
  <1> HIDE DEF r, L
  <1>3. CASE r = 0
    <2>1. L - r = L /\ r # L
      BY <1>1, <1>3
    <2> QED
      BY <1>1, <1>2, <1>3, <2>1 DEF Lossy, r, L
  <1>4. CASE r # 0
    <2>1. L \in L - r + 1 .. L
      BY <1>1, <1>2, <1>4
    <2> QED
      BY <1>1, <1>2, <1>4, <2>1 DEF Lossy, r, L
  <1> QED
    BY <1>3, <1>4

\* The closing quote closes, unless backslashes are pending, which it then halves.
LEMMA WithinCloses ==
  ASSUME NEW args \in Seq(Word), NEW g, CountsOf(g, args), NEW k \in 1 .. Len(args),
         k \in QuotedOnes(args), NEW m, NEW a \in Word, NEW b \in Nat, NEW o \in Seq(Word),
         Within(args, g, k, Len(args[k]), 0, m, a, b, o),
         NEW mm, NEW aa, NEW bb, NEW oo, Reads("dq", m, a, b, o, mm, aa, bb, oo)
  PROVE  Behind(args, g, k, mm, aa, bb, oo)
  <1> DEFINE w == args[k]
             L == Len(w)
             r == RunAt(w, L)
             i == k - 1
             y == g[k]
  <1>1. w \in Word /\ L \in Nat /\ L \in 0 .. L /\ SubSeq(w, 1, L) = w /\ "sp" \in ToSet(w)
    BY DEF Word, QuotedOnes
  <1>2. i \in Nat /\ i + 1 = k /\ y \in Nat /\ y = g[i] + Bs(w) /\ g[i] \in Nat /\ Bs(w) \in Nat
    BY <1>1, CountsAre, BsIsNat
  <1>3. r \in Nat
    <2>1. r \in 0 .. L
      <3> HIDE DEF w
      <3> QED
        BY ONLY <1>1, RunIs DEF L, r
    <2> HIDE DEF r, L
    <2> QED
      BY <2>1
  <1>4. Lossy(w) <=> r # 0
    BY <1>1, LossyRun
  <1>5. Sane(m, a, b) /\ b = r /\ Light(args, i, g[i] + Bs(SubSeq(w, 1, L)) + 0, a, b, o)
    BY <1>3 DEF Within
  <1>6. g[i] + Bs(SubSeq(w, 1, L)) + 0 = y
    <2> DEFINE e == SubSeq(w, 1, L)
               l == Bs(w)
    <2>1. Bs(e) = l
      BY <1>1
    <2>2. y = g[i] + l /\ g[i] \in Nat /\ l \in Nat
      BY <1>2
    <2> HIDE DEF e, l, y, i
    <2> QED
      BY <2>1, <2>2 DEF e
  <1>7. Within(args, g, k, L, 0, m, a, b, o)
    OBVIOUS
  <1> HIDE DEF r, y, i, L
  <1>8. Light(args, i, y, a, b, o)
    BY <1>5, <1>6
  <1>9. Lossy(args[i + 1]) => b # 0
    BY <1>2, <1>4, <1>5
  <1>10. Light(args, i + 1, y, aa, bb, oo)
    BY <1>2, <1>5, <1>8, <1>9, LightCloses
  <1>11. Sane(mm, aa, bb) /\ bb = 0 /\ oo = o
    <2>1. Sane(mm, aa, bb)
      BY <1>5, SaneAfter
    <2>2. bb = 0 /\ oo = o
      BY DEF Reads
    <2> QED
      BY <2>1, <2>2
  <1>12. ASSUME NoneLossy(args)
         PROVE  mm = "unquoted" /\ aa = w /\ DoneTo(args, k - 1, oo)
    <2>1. r = 0 /\ b = 0
      BY <1>4, <1>5, <1>12 DEF NoneLossy, LossyUpTo
    <2>2. m = "quoted" /\ a \o Run(r) = SubSeq(w, 1, L) /\ DoneTo(args, k - 1, o)
      BY <1>7, <1>12 DEF Within, InTheQuotes, r
    <2>3. b % 2 # 1 /\ b \div 2 = 0
      BY <2>1
    <2>4. mm = "unquoted" /\ aa = a \o Run(0)
      BY <2>2, <2>3 DEF Reads
    <2> QED
      BY <1>1, <1>11, <2>1, <2>2, <2>4
  <1> QED
    BY <1>2, <1>10, <1>11, <1>12 DEF Behind, y

\* An argument has ended: what a space or the end of the line makes of it is known.
Gone(args, g, k, m, a, b, o) ==
  /\ Sane(m, a, b) /\ Light(args, k, g[k], a, b, o)
  /\ NoneLossy(args) => m # "quoted" /\ DoneTo(args, k, Flushed(m, a, b, o))

LEMMA BehindGone ==
  ASSUME NEW args \in Seq(Word), NEW g, NEW k \in 1 .. Len(args), k \in QuotedOnes(args),
         NEW m, NEW a \in Word, NEW b \in Nat, NEW o \in Seq(Word), Behind(args, g, k, m, a, b, o)
  PROVE  Gone(args, g, k, m, a, b, o)
  <1>1. b = 0 /\ Sane(m, a, b) /\ Light(args, k, g[k], a, b, o)
    BY DEF Behind
  <1>2. ASSUME NoneLossy(args)
        PROVE  m # "quoted" /\ DoneTo(args, k, Flushed(m, a, b, o))
    <2>1. m = "unquoted" /\ a = args[k] /\ DoneTo(args, k - 1, o)
      BY <1>2 DEF Behind
    <2>2. Flushed(m, a, b, o) = Append(o, args[k])
      BY <1>1, <2>1, RunOfNone DEF Flushed
    <2>3. WindowsFine(args[k])
      <3>1. args[k] \in Seq(Characters) /\ "sp" \in ToSet(args[k])
        BY DEF QuotedOnes, Word
      <3>2. args[k] # <<>>
        BY <3>1 DEF ToSet
      <3> QED
        BY <3>1, <3>2 DEF WindowsFine
    <2> QED
      BY <2>1, <2>2, <2>3, DoneNext
  <1> QED
    BY <1>1, <1>2 DEF Gone

LEMMA OutsideGone ==
  ASSUME NEW args \in Seq(Word), NEW g, CountsOf(g, args), NEW k \in 1 .. Len(args),
         k \notin QuotedOnes(args), NEW m, NEW a \in Word, NEW b \in Nat, NEW o \in Seq(Word),
         Within(args, g, k, Len(args[k]), 0, m, a, b, o)
  PROVE  Gone(args, g, k, m, a, b, o)
  <1> DEFINE w == args[k]
             L == Len(w)
             r == RunAt(w, L)
             i == k - 1
             y == g[k]
             e == SubSeq(w, 1, L)
             l == Bs(w)
             p == Flushed(m, a, b, o)
  <1>1. w \in Word /\ L \in Nat /\ L \in 0 .. L /\ e = w /\ "sp" \notin ToSet(w)
    BY DEF Word, QuotedOnes
  <1>2. i \in Nat /\ i + 1 = k /\ y = g[i] + l /\ g[i] \in Nat /\ l \in Nat
    BY <1>1, CountsAre, BsIsNat
  <1>3. r \in Nat
    BY <1>1, RunIs
  <1>4. Sane(m, a, b) /\ b = r /\ Light(args, i, g[i] + Bs(e) + 0, a, b, o)
    BY <1>3 DEF Within
  <1>5. ~Lossy(w)
    BY <1>1 DEF Lossy
  <1>6. NoneLossy(args) => NotInQuotes(args, k, L, m, a, b, o)
    BY DEF Within
  <1> HIDE DEF r, y, i, L, e, l, p
  <1>7. g[i] + Bs(e) + 0 = y
    <2>1. Bs(e) = l
      BY <1>1 DEF l
    <2> QED
      BY <1>2, <2>1
  <1>8. Light(args, i, y, a, b, o) /\ ~Lossy(args[i + 1])
    BY <1>2, <1>4, <1>5, <1>7
  <1>9. Light(args, k, y, a, b, o)
    <2>1. Light(args, i + 1, y, a, b, o)
      BY <1>2, <1>8, LightGoesOn
    <2> QED
      BY <1>2, <2>1
  <1>10. ASSUME NoneLossy(args)
         PROVE  m # "quoted" /\ DoneTo(args, k, p)
    <2>1. NotInQuotes(args, k, Len(args[k]), m, a, b, o) /\ b = RunAt(args[k], Len(args[k]))
      BY <1>4, <1>6, <1>10 DEF L, r
    <2>2. DoneTo(args, k, p)
      BY <1>1, <2>1, DoneOutside DEF p
    <2>3. m # "quoted"
      BY <2>1 DEF NotInQuotes
    <2> QED
      BY <2>2, <2>3
  <1> QED
    BY <1>4, <1>9, <1>10 DEF Gone, y, p

\* The space between two arguments.
LEMMA GoneSpace ==
  ASSUME NEW args \in Seq(Word), NEW g, CountsOf(g, args), NEW k \in 1 .. Len(args),
         NEW m, NEW a \in Word, NEW b \in Nat, NEW o \in Seq(Word), Gone(args, g, k, m, a, b, o),
         NEW mm, NEW aa, NEW bb, NEW oo, Reads("sp", m, a, b, o, mm, aa, bb, oo)
  PROVE  Ahead(args, g, k + 1, mm, aa, bb, oo)
  <1> DEFINE y == g[k]
  <1>1. y \in Nat /\ "sp" \in Characters /\ "sp" \in Blank
    BY CountsAre, DimcliArgvAssumption DEF White, Blank
  <1>2. Sane(m, a, b) /\ Light(args, k, y, a, b, o)
    BY DEF Gone
  <1>3. y = IF "sp" = "bs" THEN y + 1 ELSE IF "sp" = "dq" THEN y - b + b \div 2 ELSE y
    OBVIOUS
  <1> HIDE DEF y
  <1>4. Light(args, k, y, aa, bb, oo)
    BY <1>1, <1>2, <1>3, LightAfter
  <1>5. Sane(mm, aa, bb)
    BY <1>2, SaneAfter
  <1>6. bb = 0
    BY DEF Reads
  <1>7. ASSUME NoneLossy(args)
        PROVE  mm = "gap" /\ aa = <<>> /\ DoneTo(args, k, oo)
    <2>1. m # "quoted" /\ DoneTo(args, k, Flushed(m, a, b, o))
      BY <1>7 DEF Gone
    <2>2. mm = "gap" /\ aa = <<>> /\ oo = Flushed(m, a, b, o)
      BY <1>1, <2>1 DEF Reads, Flushed
    <2> QED
      BY <2>1, <2>2
  <1>8. (k + 1) - 1 = k
    OBVIOUS
  <1> QED
    BY <1>4, <1>5, <1>6, <1>7, <1>8 DEF Ahead, y

\* At the end of the line: the arguments found are those given when each can be given back.
LEMMA GoneEnds ==
  ASSUME NEW args \in Seq(Word), NEW g, CountsOf(g, args), Len(args) # 0,
         NEW m, NEW a \in Word, NEW b \in Nat, NEW o \in Seq(Word),
         Gone(args, g, Len(args), m, a, b, o)
  PROVE  Flushed(m, a, b, o) = args
           <=> NoneLossy(args) /\ \A i \in DOMAIN args : WindowsFine(args[i])
  <1> DEFINE p == Flushed(m, a, b, o)
             N == Len(args)
  <1>1. DOMAIN args = 1 .. N /\ SubSeq(args, 1, N) = args /\ N \in Nat
    OBVIOUS
  <1>2. CASE ~NoneLossy(args)
    <2>1. Sane(m, a, b) /\ Light(args, N, g[N], a, b, o) /\ LossyUpTo(args, N)
      BY <1>2 DEF Gone, NoneLossy
    <2>2. p # args
      BY <2>1, LightEnds
    <2> QED
      BY <1>2, <2>2
  <1>3. CASE NoneLossy(args)
    <2>1. DoneTo(args, N, p)
      BY <1>3 DEF Gone
    <2> HIDE DEF p
    <2>2. /\ \A i \in DOMAIN p : WindowsFine(p[i])
          /\ (\E i \in 1 .. N : ~WindowsFine(args[i])) \/ p = args
      BY <1>1, <2>1 DEF DoneTo
    <2>3. p = args <=> \A i \in DOMAIN args : WindowsFine(args[i])
      BY <1>1, <2>2
    <2> QED
      BY <1>3, <2>3 DEF p
  <1> QED
    BY <1>2, <1>3

\* The place n of the line is before an argument's opening quote, inside the argument or
\* behind its closing quote, and this is known there.
InsideAt(args, P, g, k, n, m, a, b, o) ==
  \E j \in 0 .. Len(args[k]) : \E t \in Nat :
    /\ n = P[k][j] + t + 1 /\ Within(args, g, k, j, t, m, a, b, o)
    /\ t = 0 \/ (j < Len(args[k]) /\ args[k][j + 1] = "dq" /\ t <= RunAt(args[k], j) + 1)

ReadTo(args, A, E, P, g, n, m, a, b, o) ==
  \E k \in 1 .. Len(args) :
    \/ k \in QuotedOnes(args) /\ n = A[k] + 1 /\ Ahead(args, g, k, m, a, b, o)
    \/ k \in QuotedOnes(args) /\ n = E[k] + 1 /\ Behind(args, g, k, m, a, b, o)
    \/ InsideAt(args, P, g, k, n, m, a, b, o)

\* The place before an argument.
LEMMA ReadBegins ==
  ASSUME NEW args \in Seq(Word), NEW line, NEW A, NEW E, NEW P, QuotedLine(line, args, A, E, P),
         NEW g, CountsOf(g, args), NEW k \in 1 .. Len(args), NEW n, n = A[k] + 1,
         NEW m, NEW a, NEW b, NEW o, Ahead(args, g, k, m, a, b, o)
  PROVE  ReadTo(args, A, E, P, g, n, m, a, b, o)
  <1>1. CASE k \in QuotedOnes(args)
    BY <1>1 DEF ReadTo
  <1>2. CASE k \notin QuotedOnes(args)
    <2>1. Within(args, g, k, 0, 0, m, a, b, o)
      BY <1>2, AheadOutside
    <2>2. A[k] \in Nat /\ P[k][0] = A[k]
      BY <1>2, EndsOfArgument
    <2>3. n = P[k][0] + 0 + 1 /\ 0 \in Nat /\ 0 \in 0 .. Len(args[k])
      BY <2>2 DEF Word
    <2>4. InsideAt(args, P, g, k, n, m, a, b, o)
      BY <2>1, <2>3 DEF InsideAt
    <2> QED
      BY <2>4 DEF ReadTo
  <1> QED
    BY <1>1, <1>2

LEMMA GoneGoesOn ==
  ASSUME NEW args \in Seq(Word), NEW line, NEW A, NEW E, NEW P, QuotedLine(line, args, A, E, P),
         NEW g, CountsOf(g, args), NEW k \in 1 .. Len(args), NEW n, n = E[k] + 1, n <= Len(line),
         NEW m, NEW a \in Word, NEW b \in Nat, NEW o \in Seq(Word), Gone(args, g, k, m, a, b, o),
         NEW mm, NEW aa, NEW bb, NEW oo, Reads(line[n], m, a, b, o, mm, aa, bb, oo)
  PROVE  ReadTo(args, A, E, P, g, n + 1, mm, aa, bb, oo)
  <1>1. E[k] \in Nat /\ Len(line) \in Nat
    BY EndsOfArgument DEF QuotedLine
  <1>2. IF k = Len(args) THEN E[k] = Len(line)
        ELSE /\ E[k] < Len(line) /\ line[E[k] + 1] = "sp"
             /\ k + 1 \in 1 .. Len(args) /\ A[k + 1] = E[k] + 1
    BY EndsOfArgument
  <1>3. k # Len(args)
    BY <1>1, <1>2
  <1>4. line[n] = "sp" /\ k + 1 \in 1 .. Len(args) /\ n + 1 = A[k + 1] + 1
    BY <1>2, <1>3
  <1>5. Reads("sp", m, a, b, o, mm, aa, bb, oo)
    BY <1>4
  <1>6. Ahead(args, g, k + 1, mm, aa, bb, oo)
    BY <1>5, GoneSpace
  <1> QED
    BY <1>4, <1>6, ReadBegins

LEMMA InsideGoesOn ==
  ASSUME NEW args \in Seq(Word), NEW line, NEW A, NEW E, NEW P, QuotedLine(line, args, A, E, P),
         NEW g, CountsOf(g, args), NEW k \in 1 .. Len(args), NEW n, n <= Len(line),
         NEW m, NEW a \in Word, NEW b \in Nat, NEW o \in Seq(Word),
         InsideAt(args, P, g, k, n, m, a, b, o),
         NEW mm, NEW aa, NEW bb, NEW oo, Reads(line[n], m, a, b, o, mm, aa, bb, oo)
  PROVE  ReadTo(args, A, E, P, g, n + 1, mm, aa, bb, oo)
  <1> DEFINE w == args[k]
             L == Len(w)
  <1>1. PICK j \in 0 .. L : \E t \in Nat :
          /\ n = P[k][j] + t + 1 /\ Within(args, g, k, j, t, m, a, b, o)
          /\ t = 0 \/ (j < L /\ w[j + 1] = "dq" /\ t <= RunAt(w, j) + 1)
    BY DEF InsideAt
  <1>2. PICK t \in Nat :
          /\ n = P[k][j] + t + 1 /\ Within(args, g, k, j, t, m, a, b, o)
          /\ t = 0 \/ (j < L /\ w[j + 1] = "dq" /\ t <= RunAt(w, j) + 1)
    BY <1>1
  <1>3. w \in Word /\ L \in Nat /\ j \in Nat /\ j <= L /\ L \in 0 .. L
    BY DEF Word
  <1>4. RunAt(w, j) \in Nat
    BY <1>3, RunIs
  <1>5. ASSUME NEW i \in 0 .. L, n + 1 = P[k][i] + 0 + 1, Within(args, g, k, i, 0, mm, aa, bb, oo)
        PROVE  ReadTo(args, A, E, P, g, n + 1, mm, aa, bb, oo)
    <2>1. InsideAt(args, P, g, k, n + 1, mm, aa, bb, oo)
      BY <1>5 DEF InsideAt
    <2> QED
      BY <2>1 DEF ReadTo
  <1>6. CASE j < L
    <2>1. IF w[j + 1] = "dq"
          THEN /\ t <= RunAt(w, j) =>
                    n <= Len(line) /\ line[n] = "bs" /\ n + 1 = P[k][j] + (t + 1) + 1
               /\ t = RunAt(w, j) + 1 =>
                    n <= Len(line) /\ line[n] = "dq" /\ n + 1 = P[k][j + 1] + 0 + 1
          ELSE t = 0 => n <= Len(line) /\ line[n] = w[j + 1] /\ n + 1 = P[k][j + 1] + 0 + 1
      <3>1. n = P[k][j] + t + 1 /\ j < Len(args[k]) /\ j \in 0 .. Len(args[k]) /\ t \in Nat
        BY <1>2, <1>6
      <3>2. args \in Seq(Word) /\ QuotedLine(line, args, A, E, P) /\ k \in 1 .. Len(args)
        OBVIOUS
      <3>3. NextIs(line, args[k][j + 1], RunAt(args[k], j), P[k][j], P[k][j + 1], t, n)
        BY ONLY <3>1, <3>2, InsideArgument
      <3> QED
        BY <3>3 DEF NextIs
    <2>2. j + 1 \in 0 .. L
      BY <1>3, <1>6
    <2>3. CASE w[j + 1] # "dq"
      <3>1. t = 0 /\ line[n] = w[j + 1] /\ n + 1 = P[k][j + 1] + 0 + 1
        BY <1>2, <2>1, <2>3
      <3>2. Reads(w[j + 1], m, a, b, o, mm, aa, bb, oo) /\ Within(args, g, k, j, 0, m, a, b, o)
        BY <1>2, <3>1
      <3>3. Within(args, g, k, j + 1, 0, mm, aa, bb, oo)
        BY <1>6, <2>3, <3>2, WithinReads
      <3> HIDE DEF L
      <3> QED
        BY <1>5, <2>2, <3>1, <3>3
    <2>4. CASE w[j + 1] = "dq" /\ t <= RunAt(w, j)
      <3>1. line[n] = "bs" /\ n + 1 = P[k][j] + (t + 1) + 1
        BY <2>1, <2>4
      <3>2. Reads("bs", m, a, b, o, mm, aa, bb, oo) /\ Within(args, g, k, j, t, m, a, b, o)
        BY <1>2, <3>1
      <3>3. Within(args, g, k, j, t + 1, mm, aa, bb, oo)
        BY <3>2, WithinCounts
      <3>4. t + 1 \in Nat /\ t + 1 <= RunAt(w, j) + 1
        BY <1>4, <2>4
      <3>5. InsideAt(args, P, g, k, n + 1, mm, aa, bb, oo)
        BY <1>6, <2>4, <3>1, <3>3, <3>4 DEF InsideAt
      <3> QED
        BY <3>5 DEF ReadTo
    <2>5. CASE w[j + 1] = "dq" /\ ~(t <= RunAt(w, j))
      <3>1. t = RunAt(w, j) + 1
        BY <1>2, <1>4, <2>5
      <3>2. line[n] = "dq" /\ n + 1 = P[k][j + 1] + 0 + 1
        BY <2>1, <2>5, <3>1
      <3>3. Reads("dq", m, a, b, o, mm, aa, bb, oo) /\ Within(args, g, k, j, t, m, a, b, o)
        BY <1>2, <3>2
      <3>4. Within(args, g, k, j + 1, 0, mm, aa, bb, oo)
        BY <1>6, <2>5, <3>1, <3>3, WithinQuote
      <3> HIDE DEF L
      <3> QED
        BY <1>5, <2>2, <3>2, <3>4
    <2> QED
      BY <2>3, <2>4, <2>5
  <1>7. CASE j = L
    <2>1. t = 0 /\ Within(args, g, k, Len(args[k]), 0, m, a, b, o)
      BY <1>2, <1>3, <1>7
    <2>2. P[k][L] \in Nat /\ n = P[k][L] + 1
      <3>1. \A i \in 0 .. Len(args[k]) : P[k][i] \in Nat
        BY EndsOfArgument
      <3> QED
        BY <1>2, <1>3, <1>7, <2>1, <3>1
    <2>3. CASE k \in QuotedOnes(args)
      <3>1. line[P[k][L] + 1] = "dq" /\ E[k] = P[k][L] + 1
        BY <2>3, EndsOfArgument
      <3>2. Reads("dq", m, a, b, o, mm, aa, bb, oo) /\ n + 1 = E[k] + 1
        BY <2>2, <3>1
      <3>3. Behind(args, g, k, mm, aa, bb, oo)
        BY <2>1, <2>3, <3>2, WithinCloses
      <3> QED
        BY <2>3, <3>2, <3>3 DEF ReadTo
    <2>4. CASE k \notin QuotedOnes(args)
      <3>1. n = E[k] + 1
        BY <2>2, <2>4, EndsOfArgument
      <3>2. Gone(args, g, k, m, a, b, o)
        BY <2>1, <2>4, OutsideGone
      <3> QED
        BY <3>1, <3>2, GoneGoesOn
    <2> QED
      BY <2>3, <2>4
  <1> QED
    BY <1>3, <1>6, <1>7

\* Each turn goes on to the next place.
LEMMA ReadGoesOn ==
  ASSUME NEW args \in Seq(Word), NEW line, NEW A, NEW E, NEW P, QuotedLine(line, args, A, E, P),
         NEW g, CountsOf(g, args), NEW n, n <= Len(line),
         NEW m, NEW a \in Word, NEW b \in Nat, NEW o \in Seq(Word),
         ReadTo(args, A, E, P, g, n, m, a, b, o),
         NEW mm, NEW aa, NEW bb, NEW oo, Reads(line[n], m, a, b, o, mm, aa, bb, oo)
  PROVE  ReadTo(args, A, E, P, g, n + 1, mm, aa, bb, oo)
  <1>1. PICK k \in 1 .. Len(args) :
          \/ k \in QuotedOnes(args) /\ n = A[k] + 1 /\ Ahead(args, g, k, m, a, b, o)
          \/ k \in QuotedOnes(args) /\ n = E[k] + 1 /\ Behind(args, g, k, m, a, b, o)
          \/ InsideAt(args, P, g, k, n, m, a, b, o)
    BY DEF ReadTo
  <1>2. CASE k \in QuotedOnes(args) /\ n = A[k] + 1 /\ Ahead(args, g, k, m, a, b, o)
    <2>1. A[k] \in Nat /\ line[A[k] + 1] = "dq" /\ P[k][0] = A[k] + 1
      BY <1>2, EndsOfArgument
    <2>2. Reads("dq", m, a, b, o, mm, aa, bb, oo)
      BY <1>2, <2>1
    <2>3. Within(args, g, k, 0, 0, mm, aa, bb, oo)
      BY <1>2, <2>2, AheadOpens
    <2>4. n + 1 = P[k][0] + 0 + 1 /\ 0 \in Nat /\ 0 \in 0 .. Len(args[k])
      BY <1>2, <2>1 DEF Word
    <2>5. InsideAt(args, P, g, k, n + 1, mm, aa, bb, oo)
      BY <2>3, <2>4 DEF InsideAt
    <2> QED
      BY <2>5 DEF ReadTo
  <1>3. CASE k \in QuotedOnes(args) /\ n = E[k] + 1 /\ Behind(args, g, k, m, a, b, o)
    <2>1. Gone(args, g, k, m, a, b, o)
      BY <1>3, BehindGone
    <2> QED
      BY <1>3, <2>1, GoneGoesOn
  <1>4. CASE InsideAt(args, P, g, k, n, m, a, b, o)
    BY <1>4, InsideGoesOn
  <1> QED
    BY <1>1, <1>2, <1>3, <1>4

\* Past the line the last argument has ended.
LEMMA ReadEnds ==
  ASSUME NEW args \in Seq(Word), NEW line, NEW A, NEW E, NEW P, QuotedLine(line, args, A, E, P),
         NEW g, CountsOf(g, args), NEW n, ~(n <= Len(line)),
         NEW m, NEW a \in Word, NEW b \in Nat, NEW o \in Seq(Word),
         ReadTo(args, A, E, P, g, n, m, a, b, o)
  PROVE  Gone(args, g, Len(args), m, a, b, o) /\ Len(args) # 0
  <1>1. PICK k \in 1 .. Len(args) :
          \/ k \in QuotedOnes(args) /\ n = A[k] + 1 /\ Ahead(args, g, k, m, a, b, o)
          \/ k \in QuotedOnes(args) /\ n = E[k] + 1 /\ Behind(args, g, k, m, a, b, o)
          \/ InsideAt(args, P, g, k, n, m, a, b, o)
    BY DEF ReadTo
  <1>2. /\ A[k] \in Nat /\ E[k] \in Nat /\ Len(line) \in Nat
        /\ \A j \in 0 .. Len(args[k]) : P[k][j] \in Nat
        /\ IF k \in QuotedOnes(args)
           THEN A[k] < Len(line) /\ P[k][Len(args[k])] < Len(line)
           ELSE E[k] = P[k][Len(args[k])]
        /\ k # Len(args) => E[k] < Len(line)
    <2>1. A[k] \in Nat /\ E[k] \in Nat /\ \A j \in 0 .. Len(args[k]) : P[k][j] \in Nat
      BY EndsOfArgument
    <2>2. IF k \in QuotedOnes(args)
          THEN A[k] < Len(line) /\ P[k][Len(args[k])] < Len(line)
          ELSE E[k] = P[k][Len(args[k])]
      BY EndsOfArgument
    <2>3. k # Len(args) => E[k] < Len(line)
      BY EndsOfArgument
    <2> QED
      BY <2>1, <2>2, <2>3 DEF QuotedLine
  <1>3. CASE k \in QuotedOnes(args) /\ n = A[k] + 1 /\ Ahead(args, g, k, m, a, b, o)
    BY <1>2, <1>3
  <1>4. CASE k \in QuotedOnes(args) /\ n = E[k] + 1 /\ Behind(args, g, k, m, a, b, o)
    <2>1. k = Len(args)
      BY <1>2, <1>4
    <2>2. Gone(args, g, k, m, a, b, o)
      BY <1>4, BehindGone
    <2> QED
      BY <2>1, <2>2
  <1>5. CASE InsideAt(args, P, g, k, n, m, a, b, o)
    <2> DEFINE w == args[k]
               L == Len(w)
    <2>1. PICK j \in 0 .. L : \E t \in Nat :
            /\ n = P[k][j] + t + 1 /\ Within(args, g, k, j, t, m, a, b, o)
            /\ t = 0 \/ (j < L /\ w[j + 1] = "dq" /\ t <= RunAt(w, j) + 1)
      BY <1>5 DEF InsideAt
    <2>2. PICK t \in Nat :
            /\ n = P[k][j] + t + 1 /\ Within(args, g, k, j, t, m, a, b, o)
            /\ t = 0 \/ (j < L /\ w[j + 1] = "dq" /\ t <= RunAt(w, j) + 1)
      BY <2>1
    <2>3. w \in Word /\ L \in Nat /\ j \in Nat /\ j <= L /\ L \in 0 .. L
      BY DEF Word
    <2>4. RunAt(w, j) \in Nat
      BY <2>3, RunIs
    <2>5. ASSUME j < L
          PROVE  FALSE
      <3>1. IF w[j + 1] = "dq"
            THEN /\ t <= RunAt(w, j) =>
                      n <= Len(line) /\ line[n] = "bs" /\ n + 1 = P[k][j] + (t + 1) + 1
                 /\ t = RunAt(w, j) + 1 =>
                      n <= Len(line) /\ line[n] = "dq" /\ n + 1 = P[k][j + 1] + 0 + 1
            ELSE t = 0 => n <= Len(line) /\ line[n] = w[j + 1] /\ n + 1 = P[k][j + 1] + 0 + 1
        <4>1. n = P[k][j] + t + 1 /\ j < Len(args[k]) /\ j \in 0 .. Len(args[k]) /\ t \in Nat
          BY <2>2, <2>5
        <4>2. args \in Seq(Word) /\ QuotedLine(line, args, A, E, P) /\ k \in 1 .. Len(args)
          OBVIOUS
        <4>3. NextIs(line, args[k][j + 1], RunAt(args[k], j), P[k][j], P[k][j + 1], t, n)
          BY ONLY <4>1, <4>2, InsideArgument
        <4> QED
          BY <4>3 DEF NextIs
      <3>2. t = 0 \/ (w[j + 1] = "dq" /\ t <= RunAt(w, j) + 1)
        BY <2>2
      <3>3. t <= RunAt(w, j) \/ t = RunAt(w, j) + 1 \/ ~(t <= RunAt(w, j) + 1)
        BY <2>4
      <3>4. t = 0 => t <= RunAt(w, j)
        BY <2>4
      <3> QED
        BY <3>1, <3>2, <3>3, <3>4
    <2>6. j = L /\ t = 0 /\ Within(args, g, k, Len(args[k]), 0, m, a, b, o)
      BY <2>2, <2>3, <2>5
    <2>7. P[k][L] \in Nat /\ n = P[k][L] + 1
      BY <1>2, <2>2, <2>3, <2>6
    <2>8. k \notin QuotedOnes(args)
      BY <1>2, <2>7
    <2>9. k = Len(args)
      BY <1>2, <2>7, <2>8
    <2>10. Gone(args, g, k, m, a, b, o)
      BY <2>6, <2>8, OutsideGone
    <2> QED
      BY <2>9, <2>10
  <1> QED
    BY <1>1, <1>3, <1>4, <1>5

-----------------------------------------------------------------------------
(***************************************************************************)
(* The invariants.                                                         *)
(***************************************************************************)
\* What is known at the place n of a line joined for Windows.
ReadUpTo(line, args, n, m, a, b, o) ==
  /\ Sane(m, a, b)
  /\ IF Len(args) = 0 THEN line = <<>> /\ m = "gap" /\ o = <<>>
     ELSE \E A, E, P, g : /\ QuotedLine(line, args, A, E, P) /\ CountsOf(g, args)
                          /\ ReadTo(args, A, E, P, g, n, m, a, b, o)

WindowsFineNow == NoneLossy(given) /\ \A i \in DOMAIN given : WindowsFine(given[i])

WindowsIInv ==
  joined /\ convention = "windows" =>
    /\ pc = "split" => ReadUpTo(cmdline, given, cur, mode, arg, backslashes, out)
    /\ pc = "done" => (out = given <=> WindowsFineNow)

\* A turn of toWindowsArgv reads the character.
LEMMA SplitReads ==
  ASSUME ArgvTypes, Split, convention = "windows", Sane(mode, arg, backslashes)
  PROVE  /\ Reads(cmdline[cur], mode, arg, backslashes, out, mode', arg', backslashes', out')
         /\ cur' = cur + 1
  <1>1. Pending = arg \o Run(backslashes)
    BY DEF Pending, Run
  <1>2. Outside <=> mode # "quoted"
    BY DEF Outside, Sane
  <1>3. Goes(mode) = IF mode = "gap" THEN "unquoted" ELSE mode
    BY DEF Goes
  <1>4. /\ ch = "bs" =>
              /\ backslashes' = backslashes + 1 /\ UNCHANGED <<arg, out>>
              /\ mode' = IF mode = "gap" THEN "unquoted" ELSE mode
        /\ ch = "dq" => WindowsQuote
        /\ Outside /\ ch \in Blank =>
              /\ backslashes' = 0 /\ arg' = <<>> /\ mode' = "gap"
              /\ out' = IF mode = "gap" THEN out ELSE Append(out, Pending)
        /\ ch \notin {"bs", "dq"} /\ ~(Outside /\ ch \in Blank) =>
              /\ backslashes' = 0 /\ arg' = Append(Pending, ch) /\ UNCHANGED out
              /\ mode' = IF mode = "gap" THEN "unquoted" ELSE mode
    BY WindowsTurn
  <1>5. cur' = cur + 1
    BY WindowsTurn
  <1>6. ch = "dq" =>
          /\ backslashes' = 0 /\ out' = out
          /\ IF backslashes % 2 = 1
             THEN mode' = mode /\ arg' = Append(arg \o Run(backslashes \div 2), "dq")
             ELSE /\ mode' = (IF mode = "quoted" THEN "unquoted" ELSE "quoted")
                  /\ arg' = arg \o Run(backslashes \div 2)
    BY <1>4 DEF WindowsQuote, Run
  <1>7. ch = cmdline[cur]
    BY DEF ch
  <1> QED
    BY <1>1, <1>2, <1>3, <1>4, <1>5, <1>6, <1>7 DEF Reads

\* A joined line is read from before its first argument, quoted or not.
LEMMA WindowsStarts ==
  ASSUME ArgvTypes, joined, convention = "windows", toCmdline
  PROVE  WindowsIInv'
  <1> DEFINE line == Joined(given)
  <1>1. /\ given \in Seq(Word) /\ Len(given) \in Nat /\ cmdline' = line /\ pc' = "split"
        /\ cur' = 1 /\ mode' = "gap" /\ arg' = <<>> /\ out' = <<>> /\ backslashes' = 0
        /\ given' = given
    <2>1. backslashes = 0 /\ cur = 1 /\ mode = "gap" /\ arg = <<>> /\ out = <<>>
      BY DEF ArgvTypes, toCmdline
    <2> QED
      BY <2>1 DEF ArgvTypes, toCmdline
  <1>2. line = toWindowsCmdline(given) /\ Len(line) \in Nat
    <2>1. line \in Word
      BY <1>1, JoinedIsLine
    <2> QED
      BY <2>1 DEF Joined, Word
  <1> HIDE DEF line
  <1>3. PICK A, E, P : LaidOut(line, WindowsTokens(given), QuotedOnes(given), A, E, P)
    BY <1>1, <1>2, QuotedIsLaidOut
  <1>4. Len(WindowsTokens(given)) = Len(given)
    BY <1>1, WindowsTokensAreWords
  <1>5. Sane("gap", <<>>, 0)
    BY DEF Sane
  <1>6. CASE Len(given) = 0
    <2>1. line = <<>>
      BY <1>3, <1>4, <1>6 DEF LaidOut
    <2>2. ReadUpTo(line, given, 1, "gap", <<>>, 0, <<>>)
      BY <1>5, <1>6, <2>1 DEF ReadUpTo
    <2> QED
      BY <1>1, <2>2 DEF WindowsIInv
  <1>7. CASE Len(given) # 0
    <2>1. A[1] = 0 /\ 1 \in 1 .. Len(given) /\ 1 = A[1] + 1
      BY <1>1, <1>3, <1>4, <1>7 DEF LaidOut
    <2>2. QuotedLine(line, given, A, E, P)
      BY <1>2, <1>3 DEF QuotedLine
    <2>3. PICK g : CountsOf(g, given)
      BY <1>1, CountsExist
    <2>4. Ahead(given, g, 1, "gap", <<>>, 0, <<>>)
      <3>1. g[0] = 0 /\ 1 - 1 = 0
        BY <2>3 DEF CountsOf
      <3>2. Total(0, <<>>, 0, <<>>)
        <4>1. PICK f : CountsOf(f, <<>>) /\ f[0] = 0
          BY CountsOfNone
        <4>2. 0 = f[Len(<<>>)] + Bs(<<>>) + 0
          BY <4>1, BsOfNone
        <4> QED
          BY <4>1, <4>2 DEF Total
      <3>3. ~LossyUpTo(given, 0)
        BY DEF LossyUpTo
      <3>4. Light(given, 0, 0, <<>>, 0, <<>>)
        BY <3>2, <3>3 DEF Light
      <3>5. DoneTo(given, 0, <<>>)
        BY <1>1 DEF DoneTo
      <3> QED
        BY <1>5, <3>1, <3>4, <3>5 DEF Ahead
    <2>5. ReadTo(given, A, E, P, g, 1, "gap", <<>>, 0, <<>>)
      BY <1>1, <2>1, <2>2, <2>3, <2>4, ReadBegins
    <2>6. ReadUpTo(line, given, 1, "gap", <<>>, 0, <<>>)
      BY <1>5, <1>7, <2>2, <2>3, <2>5 DEF ReadUpTo
    <2> QED
      BY <1>1, <2>6 DEF WindowsIInv
  <1> QED
    BY <1>6, <1>7

\* ... and the one for Windows.
LEMMA WindowsKept ==
  ASSUME ArgvTypes, WindowsIInv, [Next]_argvVars
  PROVE  WindowsIInv'
  <1>1. UNCHANGED <<convention, given, joined>>
    BY DEF Next, toCmdline, Split, EndOfLine, fixed, argvVars
  <1>2. /\ given \in Seq(Word) /\ Len(given) \in Nat /\ cmdline \in Word /\ Len(cmdline) \in Nat
        /\ arg \in Word /\ backslashes \in Nat /\ out \in Seq(Word) /\ cur \in Nat
    BY DEF ArgvTypes, Word
  <1>3. CASE ~(joined /\ convention = "windows")
    BY <1>1, <1>3 DEF WindowsIInv
  <1>4. CASE joined /\ convention = "windows" /\ toCmdline
    BY <1>4, WindowsStarts
  <1>5. CASE joined /\ convention = "windows" /\ Split
    <2>1. /\ pc = "split" /\ pc' = "split" /\ cmdline' = cmdline /\ given' = given
          /\ cur <= Len(cmdline)
      BY <1>5 DEF Split, fixed
    <2>2. ReadUpTo(cmdline, given, cur, mode, arg, backslashes, out)
      BY <1>5, <2>1 DEF WindowsIInv
    <2>3. Sane(mode, arg, backslashes)
      BY <2>2 DEF ReadUpTo
    <2>4. /\ Reads(cmdline[cur], mode, arg, backslashes, out, mode', arg', backslashes', out')
          /\ cur' = cur + 1
      BY <1>5, <2>3, SplitReads
    <2>5. Len(given) # 0
      <3>1. cur >= 1 /\ Len(<<>>) = 0
        BY DEF ArgvTypes
      <3>2. cmdline # <<>>
        BY <1>2, <2>1, <3>1
      <3> QED
        BY <2>2, <3>2 DEF ReadUpTo
    <2>6. PICK A, E, P, g : /\ QuotedLine(cmdline, given, A, E, P) /\ CountsOf(g, given)
                            /\ ReadTo(given, A, E, P, g, cur, mode, arg, backslashes, out)
      BY <2>2, <2>5 DEF ReadUpTo
    <2>7. Sane(mode', arg', backslashes')
      BY <1>2, <2>3, <2>4, SaneAfter
    <2>8. ReadTo(given, A, E, P, g, cur + 1, mode', arg', backslashes', out')
      BY <1>2, <2>1, <2>4, <2>6, ReadGoesOn
    <2>9. ReadUpTo(cmdline, given, cur', mode', arg', backslashes', out')
      BY <2>4, <2>5, <2>6, <2>7, <2>8 DEF ReadUpTo
    <2> QED
      BY <2>1, <2>9 DEF WindowsIInv
  <1>6. CASE joined /\ convention = "windows" /\ EndOfLine
    <2>1. pc = "split" /\ pc' = "done" /\ given' = given /\ cur > Len(cmdline)
      BY <1>6 DEF EndOfLine
    <2>2. ReadUpTo(cmdline, given, cur, mode, arg, backslashes, out)
      BY <1>6, <2>1 DEF WindowsIInv
    <2>3. out' = Flushed(mode, arg, backslashes, out)
      <3>1. mode # "comment"
        BY <2>2 DEF ReadUpTo, Sane
      <3>2. Pending = arg \o Run(backslashes)
        BY DEF Pending, Run
      <3> QED
        BY <1>6, <3>1, <3>2 DEF EndOfLine, Flushed
    <2>4. CASE Len(given) = 0
      <3>1. out' = <<>> /\ given = <<>>
        BY <1>2, <2>2, <2>3, <2>4 DEF ReadUpTo, Flushed
      <3>2. WindowsFineNow
        BY <3>1 DEF WindowsFineNow, NoneLossy, LossyUpTo
      <3>3. WindowsFineNow'
        BY <2>1, <3>2 DEF WindowsFineNow
      <3> QED
        BY <2>1, <3>1, <3>3 DEF WindowsIInv
    <2>5. CASE Len(given) # 0
      <3>1. PICK A, E, P, g : /\ QuotedLine(cmdline, given, A, E, P) /\ CountsOf(g, given)
                              /\ ReadTo(given, A, E, P, g, cur, mode, arg, backslashes, out)
        BY <2>2, <2>5 DEF ReadUpTo
      <3>2. ~(cur <= Len(cmdline))
        BY <1>2, <2>1
      <3>3. Gone(given, g, Len(given), mode, arg, backslashes, out)
        BY <1>2, <3>1, <3>2, ReadEnds
      <3>4. out' = given <=> WindowsFineNow
        BY <1>2, <2>3, <2>5, <3>1, <3>3, GoneEnds DEF WindowsFineNow
      <3>5. WindowsFineNow' <=> WindowsFineNow
        BY <2>1 DEF WindowsFineNow
      <3> QED
        BY <2>1, <3>4, <3>5 DEF WindowsIInv
    <2> QED
      BY <2>4, <2>5
  <1>7. CASE UNCHANGED argvVars
    BY <1>7 DEF argvVars, WindowsIInv, WindowsFineNow
  <1> QED
    BY <1>3, <1>4, <1>5, <1>6, <1>7 DEF Next

\* What can be given back is what can be expressed.
LEMMA FineIsExpressible ==
  ASSUME ArgvTypes, OfBackslashes
  PROVE  FineNow <=> \A i \in DOMAIN given : Expressible(given[i])
  <1>1. ASSUME NEW i \in DOMAIN given
        PROVE  Fine(convention, given[i]) <=> Expressible(given[i])
    BY DEF Fine, Expressible, OfBackslashes, ToSet
  <1> QED
    BY <1>1 DEF FineNow

LEMMA WindowsFineIsExpressible ==
  ASSUME ArgvTypes, convention = "windows"
  PROVE  WindowsFineNow <=> \A i \in DOMAIN given : Expressible(given[i])
  <1>1. ASSUME NEW i \in DOMAIN given
        PROVE  (~Lossy(given[i]) /\ WindowsFine(given[i])) <=> Expressible(given[i])
    BY DEF Lossy, WindowsFine, Expressible, ToSet, Blank
  <1>2. DOMAIN given = 1 .. Len(given)
    BY DEF ArgvTypes
  <1>3. NoneLossy(given) <=> \A i \in DOMAIN given : ~Lossy(given[i])
    BY <1>2 DEF NoneLossy, LossyUpTo
  <1> QED
    BY <1>1, <1>3 DEF WindowsFineNow

\* A joined line parses back into the same arguments exactly when each of them can be
\* expressed, for all lists of arguments and by each convention: toGnuCmdline, toGlibCmdline
\* and toWindowsCmdline against toGnuArgv, toGlibArgv and toWindowsArgv (cli.cpp:1538).
THEOREM JoinedParsesBack == Spec => []ParsesBack
  <1>1. Init => EscapedIInv /\ WindowsIInv
    BY DEF Init, EscapedIInv, WindowsIInv
  <1>2. ArgvTypes /\ EscapedIInv /\ WindowsIInv /\ [Next]_argvVars => (EscapedIInv /\ WindowsIInv)'
    BY EscapedKept, WindowsKept
  <1>3. ArgvTypes /\ EscapedIInv /\ WindowsIInv => ParsesBack
    <2> SUFFICES ASSUME ArgvTypes, EscapedIInv, WindowsIInv, pc = "done", joined
                 PROVE  out = given <=> \A i \in DOMAIN given : Expressible(given[i])
      BY DEF ParsesBack
    <2>1. CASE OfBackslashes
      BY <2>1, FineIsExpressible DEF EscapedIInv
    <2>2. CASE convention = "windows"
      BY <2>2, WindowsFineIsExpressible DEF WindowsIInv
    <2>3. OfBackslashes \/ convention = "windows"
      BY DEF ArgvTypes, OfBackslashes
    <2> QED
      BY <2>1, <2>2, <2>3
  <1> QED
    BY <1>1, <1>2, <1>3, ArgvTypesHold, PTL DEF Spec
=============================================================================
