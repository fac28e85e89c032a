----------------------------- MODULE DimcliParse -----------------------------
(***************************************************************************)
(* Cli::parse: environment options and response files are put into the     *)
(* arguments, the arguments become raw values, and these are assigned to   *)
(* the options.  A word is a sequence of symbols: "-", "=" and "@" are     *)
(* characters, the parts of the path in a word "@path" are symbols too.    *)
(*                                                                         *)
(* One action is one turn of a loop of the code.                           *)
(***************************************************************************)
EXTENDS DimcliIndex

CONSTANTS
  Programs,      \* what a program has set up before it parses
  FileSystems    \* the response files: from paths to [readable, words]

\* Whether a word may be a command: there are some besides the top level, or unknown ones.
HasCommands(p) ==
  p.allowUnknown \/ Cardinality(DOMAIN p.cmds \cup {p.opts[i].command : i \in DOMAIN p.opts}) > 1

\* The vectors have the sizes that size() allows.  Each command has one help option and no
\* other command has one: findCmdAlways adds both.  The assertion of parse (cli.cpp:2286):
\* commands are not mixed with operands of the top level that need look-ahead.
ASSUME DimcliParseAssumption ==
  /\ \A p \in Programs :
       LET HelpOf(c) == {i \in DOMAIN p.opts : p.opts[i].command = c /\ p.opts[i].check = "help"} IN
       /\ OptsOK(p.opts) /\ IsSequence(p.envOpts)
       /\ HasCommands(p) => FixedOperands(p.opts)
       /\ \A c \in DOMAIN p.cmds : \E i \in DOMAIN p.opts : HelpOf(c) = {i}
       /\ \A i \in DOMAIN p.opts : p.opts[i].check = "help" => p.opts[i].command \in DOMAIN p.cmds
  /\ \A fs \in FileSystems :
       IsFiniteSet(DOMAIN fs) /\ \A f \in DOMAIN fs : IsSequence(fs[f].words)

kExitOk       == 0
kExitUsage    == 64
kExitSoftware == 70

VARIABLES
  program,       \* the element of Programs that runs
  files,         \* the element of FileSystems on the disk
  opts, cmds,    \* m_cfg->opts and the actions of m_cfg->cmds
  args,
  stack,         \* the response files open, with the words of each; args first
  argPos, ptr,   \* the word and the character read next
  moreOpts, cmdMode, numPos, ndx,
  rawValues, precmdValues,
  nextRaw,       \* the raw value parsed next
  values,        \* the values of each option, with their places in args
  command, unknownArgs,
  parseExit, exitCode,
  shown,         \* whether help or a version was printed
  pc

setup     == <<program, opts, cmds>>
scanVars  == <<argPos, ptr, moreOpts, cmdMode, numPos, ndx, rawValues, precmdValues>>
valueVars == <<nextRaw, values>>
exitVars  == <<parseExit, exitCode, shown>>
parseVars == <<setup, files, args, stack, scanVars, valueVars, command, unknownArgs, exitVars, pc>>

\* badUsage()
BadUsage == parseExit' = TRUE /\ exitCode' = kExitUsage /\ pc' = "rejected" /\ UNCHANGED shown

\* The text of an error is made into a string: that throws for an option given without its
\* optional value, whose raw value has no text, and nothing catches it.
Abort == pc' = "terminated" /\ UNCHANGED exitVars

\* badUsage() for the raw value r, which its text names.
BadValue(r) == IF r.null THEN Abort ELSE BadUsage

Goto(label) == pc' = label /\ UNCHANGED exitVars

-----------------------------------------------------------------------------
(***************************************************************************)
(* Setting up.                                                             *)
(***************************************************************************)
\* The option that each command gets from findCmdAlways.
helpOpt(cmd) ==
  [names |-> <<[form |-> "", key |-> <<"help">>, modifier |-> "", dot |-> TRUE]>>,
   command |-> cmd, bool |-> TRUE, vector |-> FALSE, min |-> 1, max |-> 1, finalOpt |-> FALSE,
   default |-> <<"0">>, implicit |-> <<>>, refused |-> {}, check |-> "help", require |-> FALSE]

\* Mutant: commands are touched again by each parse.
TouchedAgain == {opts[i].command : i \in DOMAIN opts}

\* touchAllCmds: commands of options that no one has named yet get their help option.
Untouched    == {opts[i].command : i \in DOMAIN opts} \ DOMAIN cmds
TouchedOpts  == LET new == SetToSeq(Untouched) IN opts \o [k \in DOMAIN new |-> helpOpt(new[k])]
touchAllCmds ==
  /\ opts' = TouchedOpts
  /\ cmds' = [c \in Untouched \cup DOMAIN cmds |->
               IF c \in DOMAIN cmds THEN cmds[c] ELSE "default"]

\* Mutant: vectors keep the values of the parse before.
KeepVectors(os) ==
  [i \in DOMAIN os |-> IF os[i].vector /\ i \in DOMAIN values THEN values[i] ELSE <<>>]

\* reset(): no value but the default.
ResetOpts(os) == [i \in DOMAIN os |-> <<>>]

\* The beginning of parse, up to the response files.
StartParse(argv) ==
  /\ touchAllCmds
  /\ ndx' = Index(TouchedOpts, <<>>)
  /\ cmdMode' = IF program.allowUnknown \/ Cardinality(DOMAIN cmds') > 1 THEN "pending" ELSE "none"
  /\ values' = ResetOpts(TouchedOpts)
  /\ args' = <<Head(argv)>> \o program.envOpts \o Tail(argv)
  /\ stack' = <<[file |-> <<>>, words |-> args', pos |-> 1]>>
  /\ argPos' = 2 /\ ptr' = 1 /\ moreOpts' = TRUE /\ numPos' = 0
  /\ rawValues' = <<>> /\ precmdValues' = 0 /\ nextRaw' = 1
  /\ command' = <<>> /\ unknownArgs' = <<>>
  /\ parseExit' = FALSE /\ exitCode' = kExitOk
  /\ pc' = IF program.responseFiles THEN "expand" ELSE "before"
  /\ UNCHANGED <<program, files, shown>>

-----------------------------------------------------------------------------
(***************************************************************************)
(* expandResponseFiles.  The frame on top of the stack is that of the call *)
(* that runs.                                                              *)
(***************************************************************************)
Frame       == Last(stack)
IsFile(w)   == w # <<>> /\ Head(w) = "@"
FileVars    == <<setup, files, scanVars, valueVars, command, unknownArgs>>
SetFrame(f) == Front(stack) \o <<f>>

\* The path of a file named in a file, as fs::canonical gives it.
Canonical(from, fn) ==
  LET dir == IF from = <<>> THEN <<>> ELSE Front(from)
  IN FoldLeft(LAMBDA p, part : IF part = ".." THEN Front(p) ELSE Append(p, part), dir, fn)

NextFrameWord ==
  /\ pc = "expand" /\ Frame.pos <= Len(Frame.words) /\ ~IsFile(Frame.words[Frame.pos])
  /\ stack' = SetFrame([Frame EXCEPT !.pos = @ + 1])
  /\ UNCHANGED <<FileVars, args, exitVars, pc>>

Recursive(file) == \E i \in 2 .. Len(stack) : stack[i].file = file

\* Whether a file can be read and its encoding is valid; files has its words without the
\* byte order mark.
loadFileUtf8(file) == files[file].readable

expandResponseFile ==
  /\ pc = "expand" /\ Frame.pos <= Len(Frame.words) /\ IsFile(Frame.words[Frame.pos])
  /\ LET file == Canonical(Frame.file, Tail(Frame.words[Frame.pos])) IN
     IF file \notin DOMAIN files \/ Recursive(file) \/ ~loadFileUtf8(file)
     THEN BadUsage /\ UNCHANGED stack
     ELSE /\ stack' = Append(stack, [file |-> file, words |-> files[file].words, pos |-> 1])
          /\ UNCHANGED <<exitVars, pc>>
  /\ UNCHANGED <<FileVars, args>>

replace(out, pos, src) == SubSeq(out, 1, pos - 1) \o src \o SubSeq(out, pos + 1, Len(out))

\* Mutant: the position is that of the last of the words, not after it.
BackAtTheName(f, words) == [f EXCEPT !.words = replace(@, f.pos, words), !.pos = @ + 1]

\* The words take the place of the name.  In the code pos becomes pos + rargLen - 1, which
\* wraps around for an empty file at place 0, and then the loop adds one.
WithFile(f, words) ==
  [f EXCEPT !.words = replace(@, f.pos, words), !.pos = @ + Len(words)]

\* Mutant: an empty response file is not left.
LeaveNotEmpty ==
  /\ pc = "expand" /\ Len(stack) > 1 /\ Frame.pos > Len(Frame.words) /\ Frame.words # <<>>
  /\ stack' = SubSeq(stack, 1, Len(stack) - 2) \o <<WithFile(stack[Len(stack) - 1], Frame.words)>>
  /\ UNCHANGED <<FileVars, args, exitVars, pc>>

LeaveResponseFile ==
  /\ pc = "expand" /\ Len(stack) > 1 /\ Frame.pos > Len(Frame.words)
  /\ stack' = SubSeq(stack, 1, Len(stack) - 2) \o <<WithFile(stack[Len(stack) - 1], Frame.words)>>
  /\ UNCHANGED <<FileVars, args, exitVars, pc>>

EndExpand ==
  /\ pc = "expand" /\ Len(stack) = 1 /\ Frame.pos > Len(Frame.words)
  /\ args' = Frame.words /\ stack' = <<>>
  /\ Goto("before")
  /\ UNCHANGED FileVars

\* helpBeforeAction, if the program called helpNoArgs().
BeforeActions ==
  /\ pc = "before"
  /\ args' = IF program.helpNoArgs /\ Len(args) = 1 THEN Append(args, <<"-", "-", "help">>) ELSE args
  /\ Goto("scan")
  /\ UNCHANGED <<FileVars, stack>>

-----------------------------------------------------------------------------
(***************************************************************************)
(* Raw values.                                                             *)
(***************************************************************************)
arg == args[argPos]

Scanning == pc = "scan" /\ argPos <= Len(args)

\* A raw value; null stands for an option without its optional value.
Raw(type, opt, pos, text) == [type |-> type, opt |-> opt, pos |-> pos, text |-> text, null |-> FALSE]

Push(r)        == rawValues' = Append(rawValues, r)
NextWord       == argPos' = argPos + 1 /\ ptr' = 1
EndsOptions(i) == moreOpts' = (moreOpts /\ ~opts[i].finalOpt)
ScanRest       == <<setup, files, args, stack, valueVars>>

\* The word is, or continues, a cluster of options; at is the character to look at.
at == IF ptr = 1 THEN 2 ELSE ptr

InOptions == Scanning /\ (ptr > 1 \/ (Len(arg) > 1 /\ Head(arg) = "-" /\ moreOpts))

\* OPTION_VALUE: the rest of the word, nothing if the value is optional, or the next word.
OptionValue(n, text, equal) ==
  CASE text # <<>> \/ equal -> Push(Raw("option", n.opt, argPos, text)) /\ NextWord /\ Goto("scan")
    [] text = <<>> /\ ~equal /\ n.optional ->
         Push([Raw("option", n.opt, argPos, <<>>) EXCEPT !.null = TRUE]) /\ NextWord /\ Goto("scan")
    [] OTHER ->
         IF argPos = Len(args) THEN BadUsage /\ UNCHANGED <<rawValues, argPos, ptr>>
         ELSE /\ Push(Raw("option", n.opt, argPos + 1, args[argPos + 1]))
              /\ argPos' = argPos + 2 /\ ptr' = 1
              /\ Goto("scan")

ShortName ==
  /\ InOptions /\ at <= Len(arg) /\ arg[at] # "-"
  /\ IF arg[at] \notin DOMAIN ndx.short
     THEN BadUsage /\ UNCHANGED <<rawValues, argPos, ptr, moreOpts>>
     ELSE LET n == ndx.short[arg[at]] IN
          /\ EndsOptions(n.opt)
          /\ IF opts[n.opt].bool
             THEN /\ Push(Raw("option", n.opt, argPos, IF n.invert THEN <<"0">> ELSE <<"1">>))
                  /\ ptr' = at + 1
                  /\ UNCHANGED argPos /\ Goto("scan")
             ELSE OptionValue(n, SubSeq(arg, at + 1, Len(arg)), FALSE)
  /\ UNCHANGED <<ScanRest, cmdMode, numPos, ndx, precmdValues, command, unknownArgs>>

EndOfCluster ==
  /\ InOptions /\ at > Len(arg)
  /\ NextWord /\ Goto("scan")
  /\ UNCHANGED <<ScanRest, moreOpts, cmdMode, numPos, ndx, rawValues, precmdValues, command, unknownArgs>>

\* parseBool; a word stands for its spellings in upper and lower case.
TrueWords  == {<<w>> : w \in {"1", "t", "y", "+", "true", "yes", "on", "enable"}}
FalseWords == {<<w>> : w \in {"0", "f", "n", "-", "false", "no", "off", "disable"}}

\* A bare "--".
BareDashes ==
  /\ InOptions /\ at = Len(arg) /\ arg[at] = "-"
  /\ moreOpts' = FALSE
  /\ NextWord /\ Goto("scan")
  /\ UNCHANGED <<ScanRest, cmdMode, numPos, ndx, rawValues, precmdValues, command, unknownArgs>>

LongName ==
  /\ InOptions /\ at < Len(arg) /\ arg[at] = "-"
  /\ LET rest  == SubSeq(arg, at + 1, Len(arg))
         equal == "=" \in ToSet(rest)
         key   == IF equal THEN SubSeq(rest, 1, SelectInSeq(rest, LAMBDA s : s = "=") - 1) ELSE rest
         text  == SubSeq(rest, Len(key) + 2, Len(rest))
         n     == ndx.long[key]
     IN IF key \notin DOMAIN ndx.long
        THEN BadUsage /\ UNCHANGED <<rawValues, argPos, ptr, moreOpts>>
        ELSE /\ EndsOptions(n.opt)
             /\ CASE ~opts[n.opt].bool -> OptionValue(n, text, equal)
                  [] opts[n.opt].bool /\ equal /\ text \notin TrueWords \cup FalseWords ->
                       BadUsage /\ UNCHANGED <<rawValues, argPos, ptr>>
                  [] OTHER ->
                       LET val == equal => text \in TrueWords IN
                       /\ Push(Raw("option", n.opt, argPos, IF n.invert = val THEN <<"0">> ELSE <<"1">>))
                       /\ NextWord /\ Goto("scan")
  /\ UNCHANGED <<ScanRest, cmdMode, numPos, ndx, precmdValues, command, unknownArgs>>

-----------------------------------------------------------------------------
\* assignOperands, of the raw values from the place first on, count of which are operands.
AssignOperands(first, count) ==
  LET From(k) == Cardinality({j \in first .. k : rawValues[j].type = "operand"})
      Assign(counts, k) ==
        IF k >= first /\ rawValues[k].type = "operand"
        THEN [rawValues[k] EXCEPT !.opt = ndx.operands[OperandOf(counts, From(k))].opt]
        ELSE rawValues[k]
  IN The({[k \in DOMAIN rawValues |-> Assign(c, k)] : c \in {Matched(opts, ndx, count).counts}})

InPositional == Scanning /\ ~InOptions

\* The word is the command, once the operands before it have their values.
CommandWord ==
  /\ InPositional /\ cmdMode = "pending" /\ numPos = ndx.minOprs
  /\ rawValues' = Append(AssignOperands(1, numPos), Raw("command", 0, 0, arg))
  /\ precmdValues' = Len(rawValues')
  /\ numPos' = 0
  /\ CASE arg \in DOMAIN cmds ->
            /\ cmdMode' = "found" /\ ndx' = Index(opts, arg) /\ command' = arg
            /\ NextWord /\ Goto("scan") /\ UNCHANGED moreOpts
       [] arg \notin DOMAIN cmds /\ program.allowUnknown ->
            /\ cmdMode' = "unknown" /\ moreOpts' = FALSE /\ command' = arg
            /\ NextWord /\ Goto("scan") /\ UNCHANGED ndx
       [] OTHER -> BadUsage /\ UNCHANGED <<argPos, ptr, moreOpts, cmdMode, ndx, command>>
  /\ UNCHANGED <<ScanRest, unknownArgs>>

UnknownArg ==
  /\ InPositional /\ cmdMode = "unknown"
  /\ unknownArgs' = Append(unknownArgs, arg)
  /\ NextWord /\ Goto("scan")
  /\ UNCHANGED <<ScanRest, moreOpts, cmdMode, numPos, ndx, rawValues, precmdValues, command>>

OperandWord ==
  /\ InPositional /\ cmdMode # "unknown" /\ ~(cmdMode = "pending" /\ numPos = ndx.minOprs)
  /\ moreOpts' = (moreOpts /\ numPos # ndx.finalOpr)
  /\ Push(Raw("operand", 0, argPos, arg))
  /\ numPos' = numPos + 1
  /\ NextWord /\ Goto("scan")
  /\ UNCHANGED <<ScanRest, cmdMode, ndx, precmdValues, command, unknownArgs>>

\* The raw value that the error names: the operands used count the raw values, and options
\* are among these.
FirstUnused == rawValues[precmdValues + Matched(opts, ndx, numPos).used + 1]

\* After the last word.
AssignRest ==
  /\ pc = "scan" /\ argPos > Len(args)
  /\ IF cmdMode # "unknown" /\ Matched(opts, ndx, numPos).used < numPos
     THEN BadValue(FirstUnused) /\ UNCHANGED <<rawValues, command>>
     ELSE /\ rawValues' = IF cmdMode = "unknown" THEN rawValues ELSE AssignOperands(precmdValues + 1, numPos)
          /\ command' = <<>>
          /\ Goto("values")
  /\ UNCHANGED <<setup, files, args, stack, argPos, ptr, moreOpts, cmdMode, numPos, ndx, precmdValues,
                 valueVars, unknownArgs>>

-----------------------------------------------------------------------------
(***************************************************************************)
(* Values.                                                                 *)
(***************************************************************************)
ValueRest == <<setup, files, args, stack, scanVars, unknownArgs>>

\* assign(): an Opt keeps the last value, an OptVec all of them up to its maximum.
Assigned(i, v) == IF opts[i].vector THEN Append(values[i], v) ELSE <<v>>

Full(i) == opts[i].vector /\ Len(values[i]) = opts[i].max

\* What the check actions do with a value: that of help and of version prints and ends.
Ends(o, text) == o.check = "version" \/ (o.check = "help" /\ text = <<"1">>)

\* parseExit()
ExitParse == parseExit' = TRUE /\ exitCode' = kExitOk /\ shown' = TRUE /\ pc' = "rejected"

ParseValue ==
  /\ pc = "values" /\ nextRaw <= Len(rawValues)
  /\ LET r    == rawValues[nextRaw]
         o    == opts[r.opt]
         text == IF r.null THEN o.implicit ELSE r.text
     IN CASE r.type = "command" -> command' = r.text /\ Goto("values") /\ UNCHANGED values
          [] r.type # "command" /\ Full(r.opt) -> BadValue(r) /\ UNCHANGED <<values, command>>
          [] OTHER -> /\ values' = [values EXCEPT ![r.opt] = Assigned(r.opt, [text |-> text, pos |-> r.pos])]
                      /\ CASE text \in o.refused -> BadUsage
                           [] text \notin o.refused /\ Ends(o, text) -> ExitParse
                           [] OTHER -> Goto("values")
                      /\ UNCHANGED command
  /\ nextRaw' = nextRaw + 1
  /\ UNCHANGED ValueRest

\* size(): an Opt has one value, given or not.
SizeOf(i) == IF opts[i].vector THEN Len(values[i]) ELSE 1

Given(i) == values[i] # <<>>

\* Mutant: required operands are only counted.
TooFewUnlessGiven ==
  \/ \E k \in DOMAIN ndx.operands :
       LET n == ndx.operands[k] IN ~n.optional /\ SizeOf(n.opt) < opts[n.opt].min
  \/ \E n \in Range(ndx.short) \cup Range(ndx.long) :
       n.pos = 0 /\ Given(n.opt) /\ SizeOf(n.opt) < opts[n.opt].min

\* An operand that is required needs its minimum, an option only if it is given at all.
TooFew ==
  \/ \E k \in DOMAIN ndx.operands :
       LET n == ndx.operands[k] IN
       ~n.optional /\ (~Given(n.opt) \/ SizeOf(n.opt) < opts[n.opt].min)
  \/ \E n \in Range(ndx.short) \cup Range(ndx.long) :
       n.pos = 0 /\ Given(n.opt) /\ SizeOf(n.opt) < opts[n.opt].min

CheckMinimums ==
  /\ pc = "values" /\ nextRaw > Len(rawValues)
  /\ IF TooFew THEN BadUsage ELSE Goto("after")
  /\ UNCHANGED <<ValueRest, valueVars, command>>

\* requireAction, of the options of the command matched and of the top level.
AfterActions ==
  /\ pc = "after"
  /\ IF \E i \in DOMAIN opts : /\ opts[i].command \in {<<>>, command}
                               /\ opts[i].require /\ ~Given(i)
     THEN BadUsage ELSE Goto("accepted")
  /\ UNCHANGED <<ValueRest, valueVars, command>>

ParseStep ==
  \/ NextFrameWord \/ expandResponseFile \/ LeaveResponseFile \/ EndExpand \/ BeforeActions
  \/ ShortName \/ EndOfCluster \/ BareDashes \/ LongName
  \/ CommandWord \/ UnknownArg \/ OperandWord \/ AssignRest
  \/ ParseValue \/ CheckMinimums \/ AfterActions
==============================================================================
