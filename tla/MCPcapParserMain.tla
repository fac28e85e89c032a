--------------------------- MODULE MCPcapParserMain ---------------------------
(***************************************************************************)
(* The options of pcap_parser, and small programs with the features of     *)
(* Dimcli that it does not use: operands and vectors, commands, unknown    *)
(* commands and final options, environment options and required ones.      *)
(* MCFinalPrograms has the one whose options do not end where they should. *)
(***************************************************************************)
EXTENDS PcapParserMain

MCLetters == {"a", "b", "f", "p", "q", "v", "x"}

Name(form, key, modifier) == [form |-> form, key |-> key, modifier |-> modifier, dot |-> FALSE]
Key(k) == Name("", <<k>>, "")

\* A string option with one value, a vector, a bool.
Opt(names) ==
  [names |-> names, command |-> <<>>, bool |-> FALSE, vector |-> FALSE, min |-> 1, max |-> 1,
   finalOpt |-> FALSE, default |-> <<>>, implicit |-> <<"i">>, refused |-> {}, check |-> "none",
   require |-> FALSE]
Vec(names, min, max) == [Opt(names) EXCEPT !.vector = TRUE, !.min = min, !.max = max]
Bool(names) == [Opt(names) EXCEPT !.bool = TRUE, !.default = <<"0">>]

Program(options, words) ==
  [opts |-> <<helpOpt(<<>>)>> \o options, cmds |-> <<>> :> "default", allowUnknown |-> FALSE,
   envOpts |-> <<>>, responseFiles |-> TRUE, helpNoArgs |-> FALSE, action |-> "run",
   outputs |-> {}, input |-> 0, words |-> words, longest |-> 3]

\* pcap_parser itself.
MainProgram ==
  [Program(<<Opt(<<Key("file")>>), Opt(<<Name("", <<"out-orders-csv">>, "?")>>),
             Opt(<<Name("", <<"out-book">>, "?")>>)>>,
           {<<"-", "-", "file">>, <<"-", "-", "file", "=", "x">>, <<"-", "-", "out-book">>,
            <<"-", "-", "out-orders-csv", "=">>, <<"-", "-", "help">>, <<"-", "-", "help", "=", "no">>,
            <<"-", "-">>, <<"x">>, <<"@", "f">>, <<"@", "e">>, <<"@", "s", "g">>})
   EXCEPT !.helpNoArgs = TRUE, !.outputs = {3, 4}, !.input = 2]

\* The same with response files that are missing, unreadable or contain themselves.
FilesProgram ==
  [MainProgram EXCEPT !.longest = 2,
     !.words = {<<"-", "-", "file", "=", "x">>, <<"@", "f">>, <<"@", "s", "g">>, <<"@", "m">>,
                <<"@", "s", "n">>, <<"@", "u">>, <<"@", "none">>, <<"@", "s", "..", "e">>}]

\* A required operand, a required vector that is an option too, and an optional one.
OperandProgram ==
  [Program(<<Opt(<<Name("<", <<"to">>, "")>>),
             Vec(<<Name("<", <<"vec">>, ""), Key("v")>>, 1, 2),
             Opt(<<Name("[", <<"opt">>, "")>>),
             Bool(<<Key("b"), Name("", <<"big">>, "!")>>)>>,
           {<<"x">>, <<"-", "v">>, <<"-", "v", "x">>, <<"-", "b", "-", "no-", "big">>, <<"-", "-">>,
            <<"-">>})
   EXCEPT !.longest = 4]

\* Commands: c has a final operand, d comes from an option alone and has no action.
CommandProgram ==
  [Program(<<Opt(<<Name("<", <<"top">>, "")>>),
             [Opt(<<Key("x")>>) EXCEPT !.refused = {<<"p">>}],
             [Opt(<<Name("<", <<"first">>, "")>>) EXCEPT !.command = <<"c">>],
             [Vec(<<Name("<", <<"rest">>, "")>>, 1, -1) EXCEPT !.command = <<"c">>, !.finalOpt = TRUE],
             [Bool(<<Key("b")>>) EXCEPT !.command = <<"c">>],
             [Bool(<<Key("a")>>) EXCEPT !.command = <<"d">>, !.check = "version"]>>,
           {<<"p">>, <<"c">>, <<"d">>, <<"-", "x">>, <<"-", "b">>, <<"-", "a">>, <<>>})
   EXCEPT !.longest = 4, !.responseFiles = FALSE, !.action = "default", !.cmds = (<<>> :> "default") @@ (<<"c">> :> "run"),
          !.opts = <<helpOpt(<<>>), helpOpt(<<"c">>)>> \o Tail(@)]

\* Unknown commands and a final option.
UnknownProgram ==
  [Program(<<[Bool(<<Key("f")>>) EXCEPT !.finalOpt = TRUE], Bool(<<Key("b"), Key("both")>>)>>,
           {<<"-", "f">>, <<"-", "b", "f">>, <<"-", "b">>, <<"-", "-">>, <<"x">>,
            <<"-", "-", "both", "=", "maybe">>})
   EXCEPT !.allowUnknown = TRUE, !.responseFiles = FALSE, !.action = "default"]

\* Environment options, a vector of pairs, an optional value, a required option.
RequiredProgram ==
  [Program(<<Vec(<<Key("p"), Key("pair")>>, 2, 2), Opt(<<Name("", <<"q">>, "?")>>),
             [Opt(<<Key("x")>>) EXCEPT !.require = TRUE]>>,
           {<<"-", "p", "x">>, <<"-", "-", "pair">>, <<"-", "q">>, <<"-", "q", "x">>, <<"-", "x">>,
            <<"@", "f">>, <<"-", "q", "-", "pair", "=">>})
   EXCEPT !.responseFiles = FALSE, !.envOpts = <<<<"-", "q">>, <<"-", "x", "v">>>>]

\* A final operand that takes the rest of the line, dashes and all.
RestProgram ==
  [Program(<<Opt(<<Name("<", <<"to">>, "")>>),
             [Vec(<<Name("<", <<"rest">>, "")>>, 1, -1) EXCEPT !.finalOpt = TRUE],
             Bool(<<Key("b")>>)>>,
           {<<"x">>, <<"-", "b">>, <<"-", "-">>})
   EXCEPT !.longest = 4, !.responseFiles = FALSE]

\* A pair that may be left out before a final operand: a single value is that of the
\* operand, but it is the first one and the options end at the third.
FinalProgram ==
  Program(<<Vec(<<Name("[", <<"pair">>, "")>>, 2, 2),
            [Opt(<<Name("[", <<"rest">>, "")>>) EXCEPT !.finalOpt = TRUE],
            Bool(<<Key("b"), Name("", <<"both">>, "")>>)>>,
          {<<"x">>, <<"-", "b">>, <<"-", "-", "both">>})

MCFinalPrograms == {FinalProgram}
MCMainPrograms  == {MainProgram}

MCPrograms ==
  {MainProgram, FilesProgram, OperandProgram, CommandProgram, UnknownProgram, RequiredProgram, RestProgram}

\* No program trips an assertion of the index, and commands are not mixed with operands
\* that need look-ahead.
ASSUME ProgramsAreSound ==
  \A p \in MCPrograms \cup MCFinalPrograms :
    \A c \in {p.opts[i].command : i \in DOMAIN p.opts} :
      /\ ~Index(p.opts, c).broken
      /\ p.allowUnknown \/ Cardinality({p.opts[i].command : i \in DOMAIN p.opts}) > 1
           => Index(p.opts, <<>>).allowCommands

\* Only FinalProgram has a pair before a final operand.
ASSUME FinalsAreFound ==
  {p \in MCPrograms \cup MCFinalPrograms : ~FinalsFollowSingles(p.opts)} = MCFinalPrograms

MCArgvs(p) == {<<<<"prog">>>> \o w : w \in UNION {[1 .. n -> p.words] : n \in 0 .. p.longest}}

File(words) == [readable |-> TRUE, words |-> words]

Disk ==
  (<<"f">> :> File(<<<<"-", "-", "file">>, <<"x">>>>)) @@ (<<"e">> :> File(<<>>)) @@
  (<<"s", "g">> :> File(<<<<"@", "..", "f">>, <<"@", "h">>, <<"@", "..", "e">>>>)) @@
  (<<"s", "h">> :> File(<<<<"-", "-", "out-book">>>>)) @@
  (<<"m">> :> File(<<<<"@", "e">>, <<"@", "s", "n">>>>)) @@
  (<<"s", "n">> :> File(<<<<"x">>, <<"@", "..", "m">>>>)) @@
  (<<"u">> :> [readable |-> FALSE, words |-> <<>>])

\* The same with another content for f.
Rewritten == (<<"f">> :> File(<<<<"-", "-", "help">>>>)) @@ Disk

MCFileSystems == {Disk, Rewritten}
==============================================================================
