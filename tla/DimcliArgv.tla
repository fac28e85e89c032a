----------------------------- MODULE DimcliArgv -----------------------------
(***************************************************************************)
(* Command lines of Dimcli: to...Cmdline joins arguments into one line,    *)
(* to...Argv splits a line into arguments, by the conventions of GNU       *)
(* (buildargv), of glib (the shell) or of Windows.  Response files and the *)
(* environment options are split by the first.                             *)
(*                                                                         *)
(* One action is one turn of a loop of the code; mode names the label whose*)
(* loop runs.  IN_SQUOTE and IN_DQUOTE of glib are "quoted" with the quote *)
(* that opened them, as IN_QUOTED of GNU.                                  *)
(***************************************************************************)
EXTENDS Naturals, Sequences, FiniteSetsExt, SequencesExt

CONSTANTS
  Characters,    \* those named below and any others
  Conventions,   \* a subset of {"gnu", "glib", "windows"}
  Lines,         \* the lines to split: sequences of characters
  Lists          \* the lists of arguments to join and to split again

VARIABLES
  convention,
  given,         \* the arguments to join; <<>> when a line is given
  joined,        \* the line comes from given
  cmdline,       \* the line
  cur,           \* the next character to read
  mode, quote, backslashes,
  arg,           \* the argument being put together
  out,           \* the arguments found
  pc             \* join, split or done

argvVars == <<convention, given, joined, cmdline, cur, mode, quote, backslashes, arg, out, pc>>
fixed    == <<convention, given, joined, cmdline, pc>>

\* Characters by what the conventions tell apart: sp stands for space and tab, ff for
\* form feed and vertical tab, $ for the other characters the shell interprets.
Blank  == {"sp", "nl", "cr"}
White  == Blank \cup {"ff"}
Quotes == {"sq", "dq"}

ASSUME DimcliArgvAssumption ==
  /\ White \cup Quotes \cup {"bs", "$", "#"} \subseteq Characters
  /\ Conventions \subseteq {"gnu", "glib", "windows"}
  /\ Lines \subseteq Seq(Characters)
  /\ Lists \subseteq Seq(Seq(Characters))

-----------------------------------------------------------------------------
(***************************************************************************)
(* Joining.                                                                *)
(***************************************************************************)

\* A backslash before each character of S.
Escape(a, S) == FlattenSeq([i \in DOMAIN a |-> IF a[i] \in S THEN <<"bs", a[i]>> ELSE <<a[i]>>])

Separated(words) ==
  FlattenSeq([i \in DOMAIN words |-> IF i = 1 THEN words[i] ELSE <<"sp">> \o words[i]])

\* Mutant: a backslash is not escaped.
GnuCmdlineBareBackslash(args) ==
  Separated([i \in DOMAIN args |-> Escape(args[i], White \cup Quotes)])

toGnuCmdline(args) ==
  Separated([i \in DOMAIN args |-> Escape(args[i], White \cup Quotes \cup {"bs"})])

toGlibCmdline(args) ==
  Separated([i \in DOMAIN args |-> Escape(args[i], White \cup Quotes \cup {"bs", "$", "#"})])

\* Each backslash that a double quote follows is doubled and the quote gets one more; an
\* argument with a space is put between quotes.
BackslashesBefore(a, i) == i - 1 - Max({0} \cup {j \in 1 .. i - 1 : a[j] # "bs"})

WindowsQuoted(a) ==
  LET body == FlattenSeq([i \in DOMAIN a |->
                IF a[i] = "dq" THEN [k \in 1 .. BackslashesBefore(a, i) + 1 |-> "bs"] \o <<"dq">>
                               ELSE <<a[i]>>])
  IN IF "sp" \in ToSet(a) THEN <<"dq">> \o body \o <<"dq">> ELSE body

toWindowsCmdline(args) == Separated([i \in DOMAIN args |-> WindowsQuoted(args[i])])

Joined(args) ==
  CASE convention = "gnu"     -> toGnuCmdline(args)
    [] convention = "glib"    -> toGlibCmdline(args)
    [] convention = "windows" -> toWindowsCmdline(args)

toCmdline ==
  /\ pc = "join"
  /\ cmdline' = Joined(given)
  /\ pc' = "split"
  /\ UNCHANGED <<convention, given, joined, cur, mode, quote, backslashes, arg, out>>

-----------------------------------------------------------------------------
(***************************************************************************)
(* Splitting: steps the conventions share.                                 *)
(***************************************************************************)

ch         == cmdline[cur]
HasNext    == cur < Len(cmdline)
Outside    == mode \in {"gap", "unquoted"}
InWord     == IF mode = "gap" THEN "unquoted" ELSE mode
Pending    == arg \o [k \in 1 .. backslashes |-> "bs"]   \* appendBackslashes

\* White space outside quotes ends an argument, if one has begun.
Separator(S) ==
  /\ Outside /\ ch \in S
  /\ out' = IF mode = "gap" THEN out ELSE Append(out, Pending)
  /\ arg' = <<>> /\ backslashes' = 0 /\ mode' = "gap" /\ cur' = cur + 1
  /\ UNCHANGED quote

OpenQuote(S) ==
  /\ Outside /\ ch \in S
  /\ mode' = "quoted" /\ quote' = ch /\ cur' = cur + 1
  /\ UNCHANGED <<backslashes, arg, out>>

\* Mutant: either quote closes.
CloseAnyQuote ==
  /\ mode = "quoted" /\ ch \in Quotes
  /\ mode' = "unquoted" /\ cur' = cur + 1
  /\ UNCHANGED <<quote, backslashes, arg, out>>

CloseQuote ==
  /\ mode = "quoted" /\ ch = quote
  /\ mode' = "unquoted" /\ cur' = cur + 1
  /\ UNCHANGED <<quote, backslashes, arg, out>>

\* A character that has no meaning here.
Literal(special) ==
  /\ ch \notin special
  /\ arg' = Append(Pending, ch) /\ backslashes' = 0 /\ mode' = InWord /\ cur' = cur + 1
  /\ UNCHANGED <<quote, out>>

\* A backslash and the character after it, which becomes the characters of s and continues
\* in the mode m.  A backslash that ends the line stands for itself.
Escaped(s, m) ==
  /\ ch = "bs"
  /\ IF HasNext
     THEN arg' = arg \o s /\ mode' = m /\ cur' = cur + 2
     ELSE arg' = Append(arg, "bs") /\ mode' = InWord /\ cur' = cur + 1
  /\ UNCHANGED <<quote, backslashes, out>>

\* Mutant: a quote that is not closed keeps the loop waiting.
EndOutsideQuotes ==
  /\ pc = "split" /\ cur > Len(cmdline) /\ mode # "quoted"
  /\ out' = IF mode \in {"gap", "comment"} THEN out ELSE Append(out, Pending)
  /\ arg' = <<>> /\ backslashes' = 0 /\ pc' = "done"
  /\ UNCHANGED <<convention, given, joined, cmdline, cur, mode, quote>>

\* Every loop ends at the end of the line; an argument that has begun is kept, quoted or not.
EndOfLine ==
  /\ pc = "split" /\ cur > Len(cmdline)
  /\ out' = IF mode \in {"gap", "comment"} THEN out ELSE Append(out, Pending)
  /\ arg' = <<>> /\ backslashes' = 0 /\ pc' = "done"
  /\ UNCHANGED <<convention, given, joined, cmdline, cur, mode, quote>>

-----------------------------------------------------------------------------
\* Mutant: form feeds and vertical tabs do not separate.
GnuArgvKeepsFormFeeds ==
  \/ Escaped(<<cmdline[cur + 1]>>, InWord)
  \/ OpenQuote(Quotes)
  \/ CloseQuote
  \/ Separator(Blank)
  \/ Literal({"bs"} \cup IF Outside THEN Quotes \cup Blank ELSE {quote})

toGnuArgv ==
  \/ Escaped(<<cmdline[cur + 1]>>, InWord)
  \/ OpenQuote(Quotes)
  \/ CloseQuote
  \/ Separator(White)
  \/ Literal({"bs"} \cup IF Outside THEN Quotes \cup White ELSE {quote})

\* In double quotes a backslash escapes only these; before others it is kept.
GlibEscape ==
  LET next == cmdline[cur + 1] IN
  \/ /\ Outside
     /\ IF HasNext /\ next = "nl" THEN Escaped(<<>>, mode) ELSE Escaped(<<next>>, InWord)
  \/ /\ mode = "quoted" /\ quote = "dq"
     /\ Escaped(CASE next \in {"$", "sq", "dq", "bs"} -> <<next>>
                  [] next = "nl"                      -> <<>>
                  [] OTHER                            -> <<"bs", next>>, mode)

\* Mutant: the character after # is skipped as well.
GlibCommentSkips ==
  \/ /\ mode = "gap" /\ ch = "#"
     /\ mode' = "comment" /\ cur' = cur + 2
     /\ UNCHANGED <<quote, backslashes, arg, out>>
  \/ /\ mode = "comment"
     /\ mode' = IF ch \in {"cr", "nl"} THEN "gap" ELSE mode
     /\ cur' = cur + 1
     /\ UNCHANGED <<quote, backslashes, arg, out>>

GlibComment ==
  \/ /\ mode = "gap" /\ ch = "#"
     /\ mode' = "comment" /\ cur' = cur + 1
     /\ UNCHANGED <<quote, backslashes, arg, out>>
  \/ /\ mode = "comment"
     /\ mode' = IF ch \in {"cr", "nl"} THEN "gap" ELSE mode
     /\ cur' = cur + 1
     /\ UNCHANGED <<quote, backslashes, arg, out>>

toGlibArgv ==
  \/ GlibEscape
  \/ GlibComment
  \/ OpenQuote(Quotes)
  \/ CloseQuote
  \/ Separator(White)
  \/ /\ mode # "comment"
     /\ Literal(CASE mode = "gap"      -> {"bs", "#"} \cup Quotes \cup White
                  [] mode = "unquoted" -> {"bs"} \cup Quotes \cup White
                  [] mode = "quoted"   -> IF quote = "dq" THEN {"bs", "dq"} ELSE {"sq"})

\* Backslashes are counted until it is known whether a double quote follows: if so, each
\* pair is one backslash, and a quote after an odd number is a character.
WindowsBackslash ==
  /\ ch = "bs"
  /\ backslashes' = backslashes + 1 /\ mode' = InWord /\ cur' = cur + 1
  /\ UNCHANGED <<quote, arg, out>>

WindowsQuote ==
  /\ ch = "dq"
  /\ LET half == [k \in 1 .. backslashes \div 2 |-> "bs"] IN
     IF backslashes % 2 = 1
     THEN arg' = Append(arg \o half, "dq") /\ UNCHANGED mode
     ELSE arg' = arg \o half /\ mode' = IF mode = "quoted" THEN "unquoted" ELSE "quoted"
  /\ backslashes' = 0 /\ cur' = cur + 1
  /\ UNCHANGED <<quote, out>>

toWindowsArgv ==
  \/ WindowsBackslash
  \/ WindowsQuote
  \/ Separator(Blank)
  \/ Literal({"bs", "dq"} \cup IF Outside THEN Blank ELSE {})

Split ==
  /\ pc = "split" /\ cur <= Len(cmdline)
  /\ \/ convention = "gnu" /\ toGnuArgv
     \/ convention = "glib" /\ toGlibArgv
     \/ convention = "windows" /\ toWindowsArgv
  /\ UNCHANGED fixed

-----------------------------------------------------------------------------
Init ==
  /\ convention \in Conventions
  /\ joined \in BOOLEAN
  /\ \/ joined /\ given \in Lists /\ cmdline = <<>> /\ pc = "join"
     \/ ~joined /\ given = <<>> /\ cmdline \in Lines /\ pc = "split"
  /\ cur = 1 /\ mode = "gap" /\ quote = "none" /\ backslashes = 0
  /\ arg = <<>> /\ out = <<>>

Next == toCmdline \/ Split \/ EndOfLine

Spec     == Init /\ [][Next]_argvVars
FairSpec == Spec /\ WF_argvVars(Next)

-----------------------------------------------------------------------------
ArgvTypeOK ==
  /\ cur \in 1 .. Len(cmdline) + 1
  /\ mode \in {"gap", "unquoted", "quoted", "comment"}
  /\ quote \in Quotes \cup {"none"}
  /\ backslashes \in 0 .. Len(cmdline)
  /\ pc \in {"join", "split", "done"}

\* What joining cannot express: an empty argument; for glib a line feed, since an escaped
\* one is removed; for Windows a line feed or a carriage return in an argument that is not
\* quoted, and a backslash at the end of one that is.
Expressible(a) ==
  /\ a # <<>>
  /\ convention = "glib" => "nl" \notin ToSet(a)
  /\ convention = "windows" =>
       IF "sp" \in ToSet(a) THEN Last(a) # "bs" ELSE ToSet(a) \cap {"nl", "cr"} = {}

\* A joined line parses back into the same arguments, exactly when each of them can be
\* expressed.
ParsesBack ==
  pc = "done" /\ joined => (out = given <=> \A i \in DOMAIN given : Expressible(given[i]))

\* "Join args into a single command line, escaping as needed, that parses back into those
\* same args", by "the default conventions (Gnu or Windows) of the platform" (cli.h:499):
\* whatever the arguments are.
JoinedIsSame == pc = "done" /\ joined /\ convention \in {"gnu", "windows"} => out = given

\* The rules of buildargv, stated over positions of the line: a character is escaped when
\* an unescaped backslash precedes it; a quote that is neither escaped nor inside the
\* other quotes opens or closes.  Open(l)[i] is the quote that is open after i characters.
EscapedAt(l) ==
  LET e[i \in 0 .. Len(l)] == i > 1 /\ l[i - 1] = "bs" /\ ~e[i - 1] IN e

Open(l) ==
  LET o[i \in 0 .. Len(l)] ==
        CASE i = 0                                     -> "none"
          [] i > 0 /\ l[i] \in Quotes /\ ~EscapedAt(l)[i] /\ o[i - 1] = "none" -> l[i]
          [] i > 0 /\ l[i] = o[i - 1] /\ ~EscapedAt(l)[i]                      -> "none"
          [] OTHER                                     -> o[i - 1]
  IN o

\* Separators end arguments; quotes and escaping backslashes are not part of them.
Separators(l) == {i \in 1 .. Len(l) : l[i] \in White /\ ~EscapedAt(l)[i] /\ Open(l)[i] = "none"}
Dropped(l) ==
  {i \in 1 .. Len(l) : ~EscapedAt(l)[i] /\ (\/ l[i] = "bs" /\ i < Len(l)
                                            \/ Open(l)[i] # Open(l)[i - 1])}

\* Where the arguments start, and the places of the characters of the one that starts at i.
Starts(l)  == {i \in 1 .. Len(l) : i \notin Separators(l) /\ (i = 1 \/ i - 1 \in Separators(l))}
Kept(l, i) == {j \in i .. Len(l) : j \notin Dropped(l) /\ \A m \in i .. j : m \notin Separators(l)}

\* The place of j in S, counted from the lowest.
Number(S, j) == Cardinality({q \in S : q <= j})

\* The line l has these arguments.
IsWordAt(w, l, i) ==
  /\ Len(w) = Cardinality(Kept(l, i))
  /\ \A j \in Kept(l, i) : w[Number(Kept(l, i), j)] = l[j]

AreArguments(words, l) ==
  /\ Len(words) = Cardinality(Starts(l))
  /\ \A i \in Starts(l) : IsWordAt(words[Number(Starts(l), i)], l, i)

\* toGnuArgv finds the arguments that these rules define, for every line.
GnuRules == pc = "done" /\ convention = "gnu" => AreArguments(out, cmdline)

\* White space gets into an argument only through a quote or a backslash before it on the
\* line; for Windows, to which a form feed is no white space, only through a double quote.
NoBareWhite ==
  \A w \in {arg} \cup ToSet(out) :
    \/ ToSet(w) \cap (IF convention = "windows" THEN Blank ELSE White) = {}
    \/ \E i \in 1 .. cur - 1 : cmdline[i] \in IF convention = "windows" THEN {"dq"} ELSE Quotes \cup {"bs"}

\* Splitting ends.
Splits == <>(pc = "done")
=============================================================================
