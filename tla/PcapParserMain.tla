---------------------------- MODULE PcapParserMain ----------------------------
(***************************************************************************)
(* main(): the command line is parsed, the output files are opened, the    *)
(* action is installed, and exec() parses the same command line again      *)
(* before it runs the action.  A response file may be another one by then. *)
(***************************************************************************)
EXTENDS DimcliParse

CONSTANT Argvs(_)   \* the command lines a program is called with

\* The first word is the name of the program.
ASSUME ArgvsAssumption ==
  \A p \in Programs : \A a \in Argvs(p) : IsSequence(a) /\ a # <<>>

VARIABLES
  argv,
  run,         \* how many times parse was called
  outputs,     \* the paths opened, and so truncated, for output
  first,       \* history: the command and values of the first parse
  changed,     \* history: whether the response files changed between the two
  ran          \* how many times the action was run

mainVars == <<argv, run, outputs, first, changed, ran>>
allVars  == <<parseVars, mainVars>>

MainInit ==
  /\ program \in Programs
  /\ files \in FileSystems
  /\ argv \in Argvs(program)
  /\ opts = program.opts /\ cmds = program.cmds
  /\ args = <<>> /\ stack = <<>>
  /\ argPos = 2 /\ ptr = 1 /\ moreOpts = TRUE /\ cmdMode = "none" /\ numPos = 0
  /\ ndx = EmptyIndex(<<>>) /\ rawValues = <<>> /\ precmdValues = 0
  /\ nextRaw = 1 /\ values = <<>> /\ command = <<>> /\ unknownArgs = <<>>
  /\ parseExit = FALSE /\ exitCode = kExitOk /\ shown = FALSE
  /\ run = 0 /\ outputs = {} /\ first = <<>> /\ changed = FALSE /\ ran = 0
  /\ pc = "start"

FirstParse ==
  /\ pc = "start"
  /\ StartParse(argv)
  /\ run' = 1
  /\ UNCHANGED <<argv, outputs, first, changed, ran>>

\* A file is opened for each output option given, by the name it has, empty or not.
OpenFiles ==
  /\ pc = "accepted" /\ run = 1
  /\ outputs' = {values[i][1].text : i \in {j \in program.outputs : Given(j)}}
  /\ first' = <<command, values>>
  /\ Goto("opened")
  /\ UNCHANGED <<setup, files, args, stack, scanVars, valueVars, command, unknownArgs, argv, run, changed, ran>>

InstallAction ==
  /\ pc = "opened"
  /\ cmds' = [cmds EXCEPT ![<<>>] = program.action]
  /\ Goto("ready")
  /\ UNCHANGED <<program, opts, files, args, stack, scanVars, valueVars, command, unknownArgs, mainVars>>

\* The environment: response files are written.
ChangeFiles ==
  /\ pc = "ready" /\ ~changed
  /\ files' \in FileSystems \ {files}
  /\ changed' = TRUE
  /\ UNCHANGED <<setup, args, stack, scanVars, valueVars, command, unknownArgs, exitVars, pc,
                 argv, run, outputs, first, ran>>

SecondParse ==
  /\ pc = "ready"
  /\ StartParse(argv)
  /\ run' = 2
  /\ UNCHANGED <<argv, outputs, first, changed, ran>>

\* return printError(): the code of the first parse.  After the second one exec() returns
\* false, which main ignores, and the code is returned as well.
ReturnExitCode ==
  /\ pc = "rejected"
  /\ Goto("done")
  /\ UNCHANGED <<setup, files, args, stack, scanVars, valueVars, command, unknownArgs, mainVars>>

-----------------------------------------------------------------------------
\* exec(): the action of the command matched, of an unknown one that of unknownCmd.
ExecRest == <<setup, files, args, stack, scanVars, valueVars, command, unknownArgs, shown,
              argv, run, outputs, first, changed>>

ActionIs(a) ==
  /\ pc = "accepted" /\ run = 2
  /\ a = IF command \in DOMAIN cmds THEN cmds[command] ELSE "run"

\* The action of main: it returns, or the PCAPProcessor throws, as it does without a file.
RunAction ==
  /\ ActionIs("run")
  /\ ran' = ran + 1
  /\ \/ /\ program.input # 0 => Given(program.input)
        /\ pc' = "done"
     \/ pc' = "terminated"
  /\ exitCode' = kExitOk /\ parseExit' = FALSE
  /\ UNCHANGED ExecRest

\* Mutant: a command without an action is no error.
SilentCmdAction ==
  /\ ActionIs("default")
  /\ exitCode' = kExitOk /\ parseExit' = FALSE
  /\ pc' = "done"
  /\ UNCHANGED <<ExecRest, ran>>

defCmdAction ==
  /\ ActionIs("default")
  /\ IF command = <<>> THEN exitCode' = kExitUsage /\ parseExit' = TRUE
                       ELSE exitCode' = kExitSoftware /\ parseExit' = FALSE
  /\ pc' = "done"
  /\ UNCHANGED <<ExecRest, ran>>

MainStep ==
  \/ FirstParse \/ OpenFiles \/ InstallAction \/ SecondParse \/ ReturnExitCode
  \/ RunAction \/ defCmdAction
  \/ (ParseStep /\ UNCHANGED mainVars)

MainNext == MainStep \/ ChangeFiles

MainSpec == MainInit /\ [][MainNext]_allVars

\* The program runs; nothing makes the files change.
FairMainSpec == MainSpec /\ WF_allVars(MainStep)
-----------------------------------------------------------------------------
(***************************************************************************)
(* Properties.                                                             *)
(***************************************************************************)
CommandTypeOK ==
  /\ \A c \in DOMAIN cmds : run > 0 =>
       Cardinality({i \in DOMAIN opts : opts[i].command = c /\ opts[i].check = "help"}) = 1
  /\ argPos \in 2 .. Len(args) + 2 /\ ptr \in Nat \ {0}
  /\ precmdValues \in 0 .. Len(rawValues) /\ nextRaw \in 1 .. Len(rawValues) + 2
  /\ \A k \in DOMAIN rawValues :
       rawValues[k].type # "command" /\ pc = "values" => rawValues[k].opt \in DOMAIN opts
  /\ numPos \in 0 .. Len(args)
  /\ run \in 0 .. 2 /\ ran \in 0 .. 1
  /\ exitCode \in {kExitOk, kExitUsage, kExitSoftware}

\* The reference for the response files: what each stands for, down to depth n, and the
\* files named by the words of a file, directly or by up to n others.
Targets(from, words) == {Canonical(from, Tail(w)) : w \in {v \in ToSet(words) : IsFile(v)}}

Meaning(from, w, flat) ==
  LET file == Canonical(from, Tail(w)) IN
  CASE ~IsFile(w)                          -> <<w>>
    [] IsFile(w) /\ file \in DOMAIN flat -> flat[file]
    [] OTHER                               -> <<>>

Flat(from, words, flat) == FlattenSeq([i \in DOMAIN words |-> Meaning(from, words[i], flat)])

Expansions(all) ==
  LET e[n \in 0 .. Cardinality(DOMAIN all)] ==
        [f \in DOMAIN all |-> IF n = 0 THEN <<>> ELSE Flat(f, all[f].words, e[n - 1])]
  IN e

ReachedIn(all, from, words) ==
  LET r[n \in 0 .. Cardinality(DOMAIN all)] ==
        IF n = 0 THEN Targets(from, words)
        ELSE r[n - 1] \cup UNION {Targets(f, all[f].words) : f \in r[n - 1] \cap DOMAIN all}
  IN r

Reached(all, from, words) == ReachedIn(all, from, words)[Cardinality(DOMAIN all)]

Expandable(all, words) ==
  \A f \in Reached(all, <<>>, words) :
    f \in DOMAIN all /\ all[f].readable /\ f \notin Reached(all, f, all[f].words)

\* Response files are replaced by the words they stand for, in place and to any depth, and
\* an error is reported exactly if one is missing, cannot be read or contains itself.
ExpandsAll ==
  LET given == <<Head(argv)>> \o program.envOpts \o Tail(argv) IN
  program.responseFiles =>
    /\ pc = "before" =>
         /\ Expandable(files, given)
         /\ args = Flat(<<>>, given, Expansions(files)[Cardinality(DOMAIN files)])
    /\ pc = "rejected" /\ stack # <<>> => ~Expandable(files, given)

Operands(k0) == {k \in k0 + 1 .. Len(rawValues) : rawValues[k].type = "operand"}

\* The positional values go to the operands in the order of their declaration; none gets
\* more than its maximum, and an optional one gets a value only if those that are required
\* have all they can take.
OperandsInOrder ==
  pc = "accepted" /\ cmdMode # "unknown" =>
    LET Rank(k)  == CHOOSE i \in DOMAIN ndx.operands : ndx.operands[i].opt = rawValues[k].opt
        Count(i) == Cardinality({k \in Operands(precmdValues) : Rank(k) = i})
        Opt(i)   == opts[ndx.operands[i].opt]
        ByPlace(i) == Len(values[ndx.operands[i].opt]) = Count(i)
    IN /\ \A j, k \in Operands(precmdValues) : j < k => Rank(j) <= Rank(k)
       /\ \A i \in DOMAIN ndx.operands : Opt(i).max # -1 => Count(i) <= Opt(i).max
       /\ \A i, j \in DOMAIN ndx.operands :
            ndx.operands[i].optional /\ Count(i) > 0 /\ ~ndx.operands[j].optional /\ ByPlace(j)
              => Count(j) = Opt(j).max

\* Option i can be given by its first name, the one its minimum is checked by.
NamedFirst(x, i) == \E n \in Range(x.short) \cup Range(x.long) : n.opt = i /\ n.pos = 0

\* When a parse succeeds nothing is missing: no error is left over from it; the operands
\* required of the top level, which are matched before the command is known, and those of
\* the command have their minimum, and so have the options of the command that are given;
\* no vector has more than its maximum; and what the program requires is given.
AcceptedIsComplete ==
  pc = "accepted" =>
    /\ ~parseExit /\ exitCode = kExitOk
    /\ \A c \in {<<>>, command} : \A k \in DOMAIN Index(opts, c).operands :
         LET n == Index(opts, c).operands[k] IN
         ~n.optional => Given(n.opt) /\ SizeOf(n.opt) >= opts[n.opt].min
    /\ cmdMode # "unknown" =>
         \A i \in DOMAIN opts : Given(i) /\ NamedFirst(Index(opts, command), i)
                                 => SizeOf(i) >= opts[i].min
    /\ \A i \in DOMAIN opts : opts[i].vector /\ opts[i].max # -1 => Len(values[i]) <= opts[i].max
    /\ \A i \in DOMAIN opts : opts[i].require /\ opts[i].command \in {<<>>, command} => Given(i)

\* After a bare "--" and after a final option or operand each word is taken as it is, as an
\* operand, the command or an unknown argument (cli.h:1252).
FinalEndsOptions ==
  pc = "accepted" =>
    LET Whole(p)  == \/ \E k \in DOMAIN rawValues : rawValues[k].pos = p /\ rawValues[k].text = args[p]
                     \/ args[p] = command \/ args[p] \in ToSet(unknownArgs)
        BareAt(p) == args[p] = <<"-", "-">> /\ \A k \in DOMAIN rawValues : rawValues[k].pos # p
        EndAt(p)  == \/ BareAt(p)
                     \/ \E k \in DOMAIN rawValues : /\ rawValues[k].type # "command"
                                                    /\ rawValues[k].pos = p
                                                    /\ opts[rawValues[k].opt].finalOpt
    IN \A p, q \in 2 .. Len(args) : p < q /\ EndAt(p) => Whole(q)

\* The second parse accepts what the first one accepted and gives the same command and
\* values, though it uses the same options, unless the response files changed.
SecondParseAgrees ==
  run = 2 /\ ~changed =>
    /\ pc # "rejected" /\ (pc = "terminated" => ran = 1)
    /\ pc = "accepted" => first = <<command, values>>

\* The process returns 0 exactly if help was shown or the action ran, and that only with a
\* capture file; the action runs at most once.  It ends by an exception only in the action
\* or while an option given without its optional value is on the line.
ExitTells ==
  /\ pc = "done" =>
       /\ exitCode = kExitOk <=> (shown \/ ran = 1)
       /\ ran = 1 => ~shown /\ (program.input # 0 => Given(program.input))
  /\ pc = "terminated" => ran = 1 \/ \E k \in DOMAIN rawValues : rawValues[k].null

\* "Parse the command line, populate the options, and set the error and other miscellaneous
\* state.  Returns true if processing should continue" (cli.h:455): each parse returns, and
\* the process ends by an exception in the action alone.
ParseReturns == pc = "terminated" => ran = 1

\* Whatever the words and the response files are, parsing ends and with it the program.
ProgramEnds == <>(pc \in {"done", "terminated"})
==============================================================================
