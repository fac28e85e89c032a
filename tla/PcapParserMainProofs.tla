------------------------- MODULE PcapParserMainProofs -------------------------
(***************************************************************************)
(* Proofs about the program that parses its command line twice, for every  *)
(* program, command line and file system: that the exit code tells what    *)
(* happened, the types of the two parses, that no option and operand is    *)
(* left without the values it requires when a parse succeeds, that the     *)
(* values on the line went to the operands in their order, and that        *)
(* response files are replaced by the words they stand for.                *)
(***************************************************************************)
EXTENDS PcapParserMain, DimcliIndexProofs

\* Where the parser is, and where the program may be without having stopped.
Parsing == {"expand", "before", "scan", "values", "after"}
Going   == Parsing \cup {"start", "accepted", "opened", "ready"}

\* What each place tells: nothing has failed, been shown or run while the program goes on,
\* and a parse that was left has either failed or shown something.
ExitsKnown ==
  /\ pc \in Going \cup {"rejected", "done", "terminated"}
  /\ pc \in Going => exitCode = kExitOk /\ shown = FALSE /\ ran = 0
  /\ pc = "rejected" => ran = 0 /\ (exitCode = kExitOk <=> shown)
  /\ pc = "done" =>
       /\ exitCode = kExitOk <=> (shown \/ ran = 1)
       /\ ran = 1 => ~shown /\ (program.input # 0 => Given(program.input))

\* Where a parse is left before its end.
Stopped == {"rejected", "terminated"}

\* What a step of the parser comes to: it goes on, stops for a bad word or after help, or
\* ends the process.
Outcome ==
  \/ pc' \in Parsing \cup {"accepted"} /\ UNCHANGED exitVars
  \/ BadUsage
  \/ ExitParse
  \/ Abort

-----------------------------------------------------------------------------
LEMMA GoesOn ==
  ASSUME NEW label \in Parsing \cup {"accepted"}, Goto(label)
  PROVE  Outcome
  BY DEF Outcome, Goto

LEMMA Stays ==
  ASSUME pc \in Parsing, UNCHANGED <<exitVars, pc>>
  PROVE  Outcome
  BY DEF Outcome

LEMMA Rejects ==
  ASSUME BadUsage \/ Abort
  PROVE  Outcome
  BY DEF Outcome

LEMMA OptionValueOutcome ==
  ASSUME NEW n, NEW text, NEW equal \in BOOLEAN, OptionValue(n, text, equal)
  PROVE  Outcome
  <1>1. "scan" \in Parsing \cup {"accepted"}
    BY DEF Parsing
  <1>2. Goto("scan") \/ BadUsage
    BY DEF OptionValue
  <1> QED
    BY <1>1, <1>2, GoesOn, Rejects

\* Each action of the parser is taken inside a parse and has one of the outcomes.
LEMMA ParseOutcome ==
  ASSUME ParseStep
  PROVE  pc \in Parsing /\ Outcome
  <1> DEFINE On == Parsing \cup {"accepted"}
  <1>1. {"expand", "before", "scan", "values", "after", "accepted"} \subseteq On
    BY DEF Parsing
  <1>2. CASE NextFrameWord
    BY <1>2, Stays DEF NextFrameWord, Parsing
  <1>3. CASE expandResponseFile
    <2>1. pc \in Parsing /\ (BadUsage \/ UNCHANGED <<exitVars, pc>>)
      BY <1>3 DEF expandResponseFile, Parsing
    <2> QED
      BY <2>1, Stays, Rejects
  <1>4. CASE LeaveResponseFile
    BY <1>4, Stays DEF LeaveResponseFile, Parsing
  <1>5. CASE EndExpand
    BY <1>1, <1>5, GoesOn DEF EndExpand, Parsing
  <1>6. CASE BeforeActions
    BY <1>1, <1>6, GoesOn DEF BeforeActions, Parsing
  <1>7. CASE ShortName
    <2>1. pc \in Parsing
      BY <1>7 DEF ShortName, InOptions, Scanning, Parsing
    <2>2. CASE arg[at] \notin DOMAIN ndx.short
      BY <1>7, <2>1, <2>2, Rejects DEF ShortName
    <2>3. CASE arg[at] \in DOMAIN ndx.short
      <3>1. \/ Goto("scan")
            \/ OptionValue(ndx.short[arg[at]], SubSeq(arg, at + 1, Len(arg)), FALSE)
        BY <1>7, <2>3 DEF ShortName
      <3> QED
        BY <1>1, <2>1, <3>1, GoesOn, OptionValueOutcome
    <2> QED
      BY <2>2, <2>3
  <1>8. CASE EndOfCluster
    BY <1>1, <1>8, GoesOn DEF EndOfCluster, InOptions, Scanning, Parsing
  <1>9. CASE BareDashes
    BY <1>1, <1>9, GoesOn DEF BareDashes, InOptions, Scanning, Parsing
  <1>10. CASE LongName
    <2>1. pc \in Parsing
      BY <1>10 DEF LongName, InOptions, Scanning, Parsing
    <2> DEFINE rest  == SubSeq(arg, at + 1, Len(arg))
               equal == "=" \in ToSet(rest)
               key   == IF equal THEN SubSeq(rest, 1, SelectInSeq(rest, LAMBDA s : s = "=") - 1)
                                 ELSE rest
               text  == SubSeq(rest, Len(key) + 2, Len(rest))
               n     == ndx.long[key]
    <2>2. CASE key \notin DOMAIN ndx.long
      <3>1. BadUsage
        BY <1>10, <2>2 DEF LongName
      <3> QED
        BY <2>1, <3>1, Rejects
    <2>3. CASE key \in DOMAIN ndx.long
      <3> HIDE DEF key, text, n, equal
      <3>1. \/ OptionValue(n, text, equal)
            \/ BadUsage
            \/ Goto("scan")
        BY <1>10, <2>3 DEF LongName, key, text, n, equal
      <3>2. equal \in BOOLEAN
        BY DEF equal
      <3> QED
        BY <1>1, <2>1, <3>1, <3>2, GoesOn, Rejects, OptionValueOutcome
    <2> QED
      BY <2>2, <2>3
  <1>11. CASE CommandWord
    <2>1. pc \in Parsing
      BY <1>11 DEF CommandWord, InPositional, Scanning, Parsing
    <2>2. BadUsage \/ Goto("scan")
      BY <1>11 DEF CommandWord
    <2> QED
      BY <1>1, <2>1, <2>2, GoesOn, Rejects
  <1>12. CASE UnknownArg
    BY <1>1, <1>12, GoesOn DEF UnknownArg, InPositional, Scanning, Parsing
  <1>13. CASE OperandWord
    BY <1>1, <1>13, GoesOn DEF OperandWord, InPositional, Scanning, Parsing
  <1>14. CASE AssignRest
    <2>1. pc \in Parsing /\ (BadUsage \/ Abort \/ Goto("values"))
      BY <1>14 DEF AssignRest, BadValue, Parsing
    <2> QED
      BY <1>1, <2>1, GoesOn, Rejects
  <1>15. CASE ParseValue
    <2>1. pc \in Parsing
      BY <1>15 DEF ParseValue, Parsing
    <2>2. BadUsage \/ Abort \/ ExitParse \/ Goto("values")
      BY <1>15 DEF ParseValue, BadValue
    <2> QED
      BY <1>1, <2>1, <2>2, GoesOn, Rejects DEF Outcome
  <1>16. CASE CheckMinimums
    <2>1. pc \in Parsing /\ (BadUsage \/ Goto("after"))
      BY <1>16 DEF CheckMinimums, Parsing
    <2> QED
      BY <1>1, <2>1, GoesOn, Rejects
  <1>17. CASE AfterActions
    <2>1. pc \in Parsing /\ (BadUsage \/ Goto("accepted"))
      BY <1>17 DEF AfterActions, Parsing
    <2> QED
      BY <1>1, <2>1, GoesOn, Rejects
  <1> QED
    BY <1>2, <1>3, <1>4, <1>5, <1>6, <1>7, <1>8, <1>9, <1>10, <1>11, <1>12, <1>13, <1>14,
       <1>15, <1>16, <1>17 DEF ParseStep

-----------------------------------------------------------------------------
LEMMA ParseKeepsExits ==
  ASSUME ExitsKnown, ParseStep, UNCHANGED mainVars
  PROVE  ExitsKnown'
  <1>1. pc \in Parsing /\ Outcome
    BY ParseOutcome
  <1>2. exitCode = kExitOk /\ shown = FALSE /\ ran' = 0
    BY <1>1 DEF ExitsKnown, Going, mainVars
  <1>3. CASE pc' \in Parsing \cup {"accepted"} /\ UNCHANGED exitVars
    BY <1>2, <1>3 DEF ExitsKnown, Going, Parsing, exitVars
  <1>4. CASE BadUsage
    BY <1>2, <1>4 DEF ExitsKnown, Going, Parsing, BadUsage, kExitUsage, kExitOk
  <1>5. CASE ExitParse
    BY <1>2, <1>5 DEF ExitsKnown, Going, Parsing, ExitParse
  <1>6. CASE Abort
    BY <1>2, <1>6 DEF ExitsKnown, Going, Parsing, Abort, exitVars
  <1> QED
    BY <1>1, <1>3, <1>4, <1>5, <1>6 DEF Outcome

\* The parse begins in a state of which nothing is shown yet.
LEMMA StartKeepsExits ==
  ASSUME ExitsKnown, pc \in Going, StartParse(argv), UNCHANGED ran
  PROVE  ExitsKnown'
  <1>1. /\ shown' = shown /\ exitCode' = kExitOk
        /\ pc' \in {"expand", "before"}
    BY DEF StartParse
  <1>2. shown = FALSE /\ ran = 0
    BY DEF ExitsKnown
  <1> QED
    BY <1>1, <1>2 DEF ExitsKnown, Going, Parsing

LEMMA ExitsKept ==
  ASSUME ExitsKnown, [MainNext]_allVars
  PROVE  ExitsKnown'
  <1>1. CASE FirstParse
    BY <1>1, StartKeepsExits DEF FirstParse, Going
  <1>2. CASE OpenFiles
    BY <1>2 DEF OpenFiles, Goto, exitVars, ExitsKnown, Going, Parsing
  <1>3. CASE InstallAction
    BY <1>3 DEF InstallAction, Goto, exitVars, mainVars, ExitsKnown, Going, Parsing
  <1>4. CASE SecondParse
    BY <1>4, StartKeepsExits DEF SecondParse, Going
  <1>5. CASE ReturnExitCode
    BY <1>5 DEF ReturnExitCode, Goto, exitVars, mainVars, ExitsKnown, Going, Parsing
  <1>6. CASE RunAction
    <2>1. pc = "accepted" /\ shown' = FALSE /\ exitCode' = kExitOk /\ ran' = 1
      BY <1>6 DEF RunAction, ActionIs, ExecRest, ExitsKnown, Going
    <2>2. program' = program /\ values' = values
      BY <1>6 DEF RunAction, ExecRest, setup, valueVars
    <2>3. CASE (program.input # 0 => Given(program.input)) /\ pc' = "done"
      BY <2>1, <2>2, <2>3 DEF ExitsKnown, Going, Parsing, Given
    <2>4. CASE pc' = "terminated"
      BY <2>1, <2>4 DEF ExitsKnown, Going, Parsing
    <2> QED
      BY <1>6, <2>3, <2>4 DEF RunAction
  <1>7. CASE defCmdAction
    <2>1. pc = "accepted" /\ shown' = FALSE /\ ran' = 0 /\ pc' = "done"
      BY <1>7 DEF defCmdAction, ActionIs, ExecRest, ExitsKnown, Going
    <2>2. exitCode' \in {kExitUsage, kExitSoftware}
      BY <1>7 DEF defCmdAction
    <2> QED
      BY <2>1, <2>2 DEF ExitsKnown, Going, Parsing, kExitOk, kExitUsage, kExitSoftware
  <1>8. CASE ParseStep /\ UNCHANGED mainVars
    BY <1>8, ParseKeepsExits
  <1>9. CASE ChangeFiles
    BY <1>9 DEF ChangeFiles, setup, valueVars, exitVars, ExitsKnown, Going, Parsing, Given
  <1>10. CASE UNCHANGED allVars
    BY <1>10 DEF allVars, parseVars, mainVars, setup, valueVars, exitVars, ExitsKnown, Given
  <1> QED
    BY <1>1, <1>2, <1>3, <1>4, <1>5, <1>6, <1>7, <1>8, <1>9, <1>10 DEF MainNext, MainStep

\* The inductive invariant about the exit of the program.
THEOREM ExitInvariance == MainSpec => []ExitsKnown
  <1>1. MainInit => ExitsKnown
    BY DEF MainInit, ExitsKnown, Going, Parsing
  <1>2. ExitsKnown /\ [MainNext]_allVars => ExitsKnown'
    BY ExitsKept
  <1> QED
    BY <1>1, <1>2, PTL DEF MainSpec

-----------------------------------------------------------------------------
(***************************************************************************)
(* What holds while a command line is parsed.                              *)
(***************************************************************************)
HelpOf(os, c) == {i \in DOMAIN os : os[i].command = c /\ os[i].check = "help"}

\* Each command has one help option, and the help options are those of the commands.
HelpKnown(os, cs) ==
  /\ \A c \in DOMAIN cs : \E i \in DOMAIN os : HelpOf(os, c) = {i}
  /\ \A i \in DOMAIN os : os[i].check = "help" => os[i].command \in DOMAIN cs

\* The options and the index of their names.
OptionsInv ==
  /\ OptsOK(opts) /\ ndx \in Indexes(opts)
  /\ HelpKnown(opts, cmds)
  /\ program \in Programs /\ files \in FileSystems /\ argv \in Argvs(program)

IsFrame(f) ==
  /\ f = [file |-> f.file, words |-> f.words, pos |-> f.pos]
  /\ IsSequence(f.words)
  /\ f.pos \in Nat \ {0}

\* The words, and the response files that are being expanded: each of these but the last
\* waits at a word.
WordsInv ==
  /\ IsSequence(args)
  /\ pc = "expand" =>
       /\ IsSequence(stack) /\ stack # <<>>
       /\ \A i \in DOMAIN stack : IsFrame(stack[i]) /\ stack[i].pos <= Len(stack[i].words) + 1
       /\ \A i \in 1 .. Len(stack) - 1 : stack[i].pos <= Len(stack[i].words)

IsRaw(r) ==
  /\ r = [type |-> r.type, opt |-> r.opt, pos |-> r.pos, text |-> r.text, null |-> r.null]
  /\ r.type \in {"option", "operand", "command"}

\* The positional values that have no operand yet.
Pending == {k \in precmdValues + 1 .. Len(rawValues) : rawValues[k].type = "operand"}

PlaceInv ==
  /\ ptr \in Nat \ {0}
  /\ argPos \in 2 .. Len(args) + 2
  /\ numPos \in Nat /\ numPos <= argPos - 2 /\ numPos <= Len(args)
  /\ nextRaw \in 1 .. Len(rawValues) + 1
  /\ pc \in {"expand", "before"} => argPos = 2 /\ numPos = 0
  /\ pc \in {"expand", "before", "scan"} => nextRaw = 1

Reading == {"expand", "before", "scan"}

\* Options have their raw values at once; operands when the command comes, or at the end.
RawInv ==
  /\ IsSequence(rawValues)
  /\ precmdValues \in 0 .. Len(rawValues)
  /\ \A k \in DOMAIN rawValues : IsRaw(rawValues[k])
  /\ \A k \in DOMAIN rawValues : rawValues[k].type = "option" => rawValues[k].opt \in DOMAIN opts
  /\ \A k \in 1 .. precmdValues : rawValues[k].type = "operand" => rawValues[k].opt \in DOMAIN opts
  /\ pc \in Reading =>
       /\ Cardinality(Pending) = numPos
       /\ cmdMode = "pending" => precmdValues = 0
       /\ cmdMode = "unknown" => numPos = 0
  /\ pc = "values" =>
       \A k \in DOMAIN rawValues : rawValues[k].type = "operand" => rawValues[k].opt \in DOMAIN opts

RunsInv ==
  /\ run \in 0 .. 2 /\ exitCode \in {kExitOk, kExitUsage, kExitSoftware} /\ ran \in 0 .. 1
  /\ ExitsKnown

CommandIInv == OptionsInv /\ WordsInv /\ PlaceInv /\ RawInv /\ RunsInv

LEMMA ListsItsSet ==
  ASSUME NEW S, IsFiniteSet(S)
  PROVE  /\ IsSequence(SetToSeq(S))
         /\ \A k \in DOMAIN SetToSeq(S) : SetToSeq(S)[k] \in S
         /\ \A j, k \in DOMAIN SetToSeq(S) : SetToSeq(S)[j] = SetToSeq(S)[k] => j = k
         /\ \A x \in S : \E k \in DOMAIN SetToSeq(S) : SetToSeq(S)[k] = x
  <1> DEFINE n == Cardinality(S)
             s == SetToSeq(S)
  <1>1. n \in Nat /\ ExistsBijection(1 .. n, S)
    BY FS_CardinalityType
  <1>2. \E f \in [1 .. n -> S] : IsInjective(f)
    BY <1>1 DEF ExistsBijection, Bijection, Injection
  <1>3. s \in [1 .. n -> S] /\ IsInjective(s)
    BY <1>2 DEF SetToSeq
  <1> HIDE DEF s
  <1>4. s \in Injection(1 .. n, S)
    BY <1>3 DEF Injection
  <1>5. Cardinality(1 .. n) = n
    BY <1>1, FS_Interval
  <1> HIDE DEF n
  <1>6. s \in Surjection(1 .. n, S)
    BY <1>4, <1>5, FS_Injection DEF n
  <1>7. s \in Seq(S)
    BY <1>1, <1>3
  <1>8. IsSequence(s)
    BY <1>7, SequenceOf
  <1>9. \A x \in S : \E k \in DOMAIN s : s[k] = x
    BY <1>3, <1>6 DEF Surjection
  <1> QED
    BY <1>3, <1>8, <1>9 DEF IsInjective, s

LEMMA UntouchedIsFinite ==
  ASSUME OptsOK(opts)
  PROVE  IsFiniteSet(Untouched)
  <1> DEFINE T == {opts[i].command : i \in DOMAIN opts}
             f == [i \in DOMAIN opts |-> opts[i].command]
  <1>1. Len(opts) \in Nat /\ DOMAIN opts = 1 .. Len(opts)
    BY SequenceFacts DEF OptsOK
  <1>2. IsFiniteSet(DOMAIN opts)
    BY <1>1, FS_Interval
  <1>3. f \in Surjection(DOMAIN opts, T)
    BY DEF Surjection
  <1>4. IsFiniteSet(T)
    BY <1>2, <1>3, FS_Surjection
  <1> QED
    BY <1>4, FS_Subset DEF Untouched

\* After the options come the help options of the commands that had none.
IsTouched(os, new) ==
  /\ IsSequence(opts) /\ IsSequence(new) /\ IsSequence(os)
  /\ Len(os) = Len(opts) + Len(new)
  /\ \A i \in 1 .. Len(opts) : os[i] = opts[i]
  /\ \A i \in 1 .. Len(new) : os[Len(opts) + i] = helpOpt(new[i])
  /\ \A k \in DOMAIN new : new[k] \in Untouched
  /\ \A j, k \in DOMAIN new : new[j] = new[k] => j = k
  /\ \A x \in Untouched : \E k \in DOMAIN new : new[k] = x

LEMMA TouchAdds ==
  ASSUME OptsOK(opts), touchAllCmds
  PROVE  IsTouched(opts', SetToSeq(Untouched)) /\ DOMAIN cmds' = Untouched \cup DOMAIN cmds
  <1> DEFINE new == SetToSeq(Untouched)
             added == [k \in DOMAIN new |-> helpOpt(new[k])]
             L == Len(opts)
             os == opts \o added
  <1>1. /\ IsSequence(new)
        /\ \A k \in DOMAIN new : new[k] \in Untouched
        /\ \A j, k \in DOMAIN new : new[j] = new[k] => j = k
        /\ \A x \in Untouched : \E k \in DOMAIN new : new[k] = x
    BY UntouchedIsFinite, ListsItsSet
  <1>2. DOMAIN cmds' = Untouched \cup DOMAIN cmds /\ opts' = os
    BY DEF touchAllCmds, TouchedOpts
  <1> HIDE DEF new
  <1>3. Len(new) \in Nat /\ DOMAIN new = 1 .. Len(new)
    BY <1>1, SequenceFacts
  <1>4. added \in Seq({helpOpt(c) : c \in Untouched})
    BY <1>1, <1>3
  <1>5. IsSequence(added) /\ Len(added) = Len(new)
    <2>1. IsSequence(added)
      BY <1>4, SequenceOf
    <2>2. Len(added) = Len(new)
      BY <1>3
    <2> QED
      BY <2>1, <2>2
  <1>6. \A k \in 1 .. Len(new) : added[k] = helpOpt(new[k])
    BY <1>3
  <1> HIDE DEF added
  <1>7. IsSequence(opts) /\ L \in Nat /\ DOMAIN opts = 1 .. L
    BY SequenceFacts DEF OptsOK
  <1>8. /\ IsSequence(os) /\ Len(os) = L + Len(new)
        /\ \A i \in 1 .. L : os[i] = opts[i]
        /\ \A i \in 1 .. Len(new) : os[L + i] = added[i]
    BY <1>5, <1>7, SequenceJoins
  <1> HIDE DEF os
  <1>9. IsTouched(os, new)
    BY <1>1, <1>6, <1>7, <1>8 DEF IsTouched
  <1> QED
    BY <1>2, <1>9 DEF new

LEMMA TouchedIs ==
  ASSUME NEW os, NEW new, IsTouched(os, new)
  PROVE  /\ Len(opts) \in Nat /\ DOMAIN opts = 1 .. Len(opts)
         /\ Len(new) \in Nat /\ DOMAIN new = 1 .. Len(new)
         /\ DOMAIN os = 1 .. Len(opts) + Len(new)
         /\ \A i \in DOMAIN os :
              \/ i \in 1 .. Len(opts) /\ os[i] = opts[i]
              \/ i - Len(opts) \in 1 .. Len(new) /\ os[i] = helpOpt(new[i - Len(opts)])
  <1> DEFINE L == Len(opts)
  <1>1. /\ L \in Nat /\ DOMAIN opts = 1 .. L /\ Len(new) \in Nat /\ DOMAIN new = 1 .. Len(new)
        /\ DOMAIN os = 1 .. Len(os) /\ Len(os) = L + Len(new)
    BY SequenceFacts DEF IsTouched
  <1>2. /\ \A i \in 1 .. L : os[i] = opts[i]
        /\ \A i \in 1 .. Len(new) : os[L + i] = helpOpt(new[i])
    BY DEF IsTouched
  <1> HIDE DEF L
  <1>3. \A i \in DOMAIN os : i \notin 1 .. L => i - L \in 1 .. Len(new) /\ L + (i - L) = i
    BY <1>1
  <1>4. \A i \in DOMAIN os :
          \/ i \in 1 .. L /\ os[i] = opts[i]
          \/ i - L \in 1 .. Len(new) /\ os[i] = helpOpt(new[i - L])
    BY <1>2, <1>3
  <1> QED
    BY <1>1, <1>4 DEF L

\* findCmdAlways leaves each command with one help option.
LEMMA TouchKeepsHelp ==
  ASSUME OptsOK(opts), HelpKnown(opts, cmds), touchAllCmds
  PROVE  OptsOK(opts') /\ HelpKnown(opts', cmds')
  <1> DEFINE new == SetToSeq(Untouched)
             L == Len(opts)
             os == opts'
  <1>2. IsTouched(os, new) /\ DOMAIN cmds' = Untouched \cup DOMAIN cmds
    BY TouchAdds
  <1> HIDE DEF new
  <1>1. /\ IsSequence(new) /\ IsSequence(os)
        /\ \A k \in DOMAIN new : new[k] \in Untouched
        /\ \A j, k \in DOMAIN new : new[j] = new[k] => j = k
        /\ \A x \in Untouched : \E k \in DOMAIN new : new[k] = x
        /\ \A i \in 1 .. L : os[i] = opts[i]
        /\ \A i \in 1 .. Len(new) : os[L + i] = helpOpt(new[i])
    BY <1>2 DEF IsTouched
  <1>3. /\ L \in Nat /\ DOMAIN opts = 1 .. L
        /\ Len(new) \in Nat /\ DOMAIN new = 1 .. Len(new)
        /\ DOMAIN os = 1 .. L + Len(new)
        /\ \A i \in DOMAIN os :
              \/ i \in 1 .. L /\ os[i] = opts[i]
              \/ i - L \in 1 .. Len(new) /\ os[i] = helpOpt(new[i - L])
    BY <1>2, TouchedIs
  <1> HIDE DEF os, L
  <1>11. \A c : /\ helpOpt(c).command = c /\ helpOpt(c).check = "help" /\ IsSequence(helpOpt(c).names)
                /\ helpOpt(c).min = 1 /\ helpOpt(c).max = 1 /\ helpOpt(c).vector = FALSE
    BY SequenceOne DEF helpOpt
  <1>15. \A c : OneOperand(helpOpt(c))
    <2> TAKE c
    <2> DEFINE name == [form |-> "", key |-> <<"help">>, modifier |-> "", dot |-> TRUE]
    <2>1. helpOpt(c).names = <<name>>
      BY DEF helpOpt
    <2> HIDE DEF name
    <2>2. \A k \in DOMAIN <<name>> : k = 1
      OBVIOUS
    <2> QED
      BY <2>1, <2>2 DEF OneOperand
  <1>12. OptsOK(os)
    <2>1. ASSUME NEW i \in DOMAIN os
          PROVE  /\ IsSequence(os[i].names) /\ OneOperand(os[i])
                 /\ os[i].min \in Nat
                 /\ os[i].max = -1 \/ (os[i].max \in Nat /\ os[i].min <= os[i].max)
                 /\ ~os[i].vector => os[i].min = 1 /\ os[i].max = 1
      <3>1. CASE i \in 1 .. L
        BY <1>3, <1>1, <3>1 DEF OptsOK
      <3>2. CASE os[i] = helpOpt(new[i - L])
        BY <1>11, <1>15, <3>2
      <3> QED
        BY <1>3, <3>1, <3>2
    <2> QED
      BY <1>1, <2>1 DEF OptsOK
  <1>13. ASSUME NEW c \in Untouched \cup DOMAIN cmds
         PROVE  \E i \in DOMAIN os : HelpOf(os, c) = {i}
    <2>1. CASE c \in DOMAIN cmds
      <3>1. PICK i \in DOMAIN opts : HelpOf(opts, c) = {i}
        BY <2>1 DEF HelpKnown
      <3>2. i \in 1 .. L /\ i \in DOMAIN os
        BY <1>3, <3>1
      <3>3. opts[i].command = c /\ opts[i].check = "help"
        BY <3>1 DEF HelpOf
      <3>4. i \in HelpOf(os, c)
        BY <1>1, <3>2, <3>3 DEF HelpOf
      <3>5. ASSUME NEW j \in HelpOf(os, c)
            PROVE  j = i
        <4>1. j \in DOMAIN os /\ os[j].command = c /\ os[j].check = "help"
          BY <3>5 DEF HelpOf
        <4>2. CASE j \in 1 .. L
          BY <1>3, <1>1, <3>1, <4>1, <4>2 DEF HelpOf
        <4>3. CASE j - L \in 1 .. Len(new) /\ os[j] = helpOpt(new[j - L])
          <5>1. new[j - L] \in Untouched /\ new[j - L] = c
            BY <1>1, <1>3, <1>11, <4>1, <4>3
          <5> QED
            BY <2>1, <5>1 DEF Untouched
        <4> QED
          BY <1>3, <4>1, <4>2, <4>3
      <3> QED
        BY <3>2, <3>4, <3>5
    <2>2. CASE c \in Untouched
      <3>1. PICK k \in 1 .. Len(new) : new[k] = c
        BY <1>1, <1>3, <2>2
      <3>2. L + k \in DOMAIN os /\ os[L + k] = helpOpt(c)
        BY <1>3, <1>1, <3>1
      <3>3. L + k \in HelpOf(os, c)
        BY <1>11, <3>2 DEF HelpOf
      <3>4. ASSUME NEW j \in HelpOf(os, c)
            PROVE  j = L + k
        <4>1. j \in DOMAIN os /\ os[j].command = c /\ os[j].check = "help"
          BY <3>4 DEF HelpOf
        <4>2. CASE j \in 1 .. L
          <5>1. j \in DOMAIN opts /\ opts[j].command = c /\ opts[j].check = "help"
            BY <1>3, <1>1, <4>1, <4>2
          <5>2. c \in DOMAIN cmds
            BY <5>1 DEF HelpKnown
          <5> QED
            BY <2>2, <5>2 DEF Untouched
        <4>3. CASE j - L \in 1 .. Len(new) /\ os[j] = helpOpt(new[j - L])
          <5>1. new[j - L] = c
            BY <1>11, <4>1, <4>3
          <5>2. j - L = k
            BY <1>1, <1>3, <3>1, <4>3, <5>1
          <5> QED
            BY <1>3, <4>1, <5>2
        <4> QED
          BY <1>3, <4>1, <4>2, <4>3
      <3> QED
        BY <3>2, <3>3, <3>4
    <2> QED
      BY <2>1, <2>2
  <1>14. ASSUME NEW i \in DOMAIN os, os[i].check = "help"
         PROVE  os[i].command \in Untouched \cup DOMAIN cmds
    <2>1. CASE i \in 1 .. L
      BY <1>3, <1>1, <1>14, <2>1 DEF HelpKnown
    <2>2. CASE i - L \in 1 .. Len(new) /\ os[i] = helpOpt(new[i - L])
      BY <1>1, <1>3, <1>11, <2>2
    <2> QED
      BY <1>3, <2>1, <2>2
  <1> QED
    BY <1>2, <1>12, <1>13, <1>14 DEF HelpKnown, os

-----------------------------------------------------------------------------
\* What a parse knows of the numbers of its values.
LEMMA EachPendingHasPlace ==
  ASSUME RawInv, pc \in Reading, NEW k \in precmdValues + 1 .. Len(rawValues),
         rawValues[k].type = "operand"
  PROVE  Cardinality({j \in precmdValues + 1 .. k : rawValues[j].type = "operand"}) \in 1 .. numPos
  <1> DEFINE start == precmdValues + 1
             T == {j \in start .. k : rawValues[j].type = "operand"}
  <1>1. Len(rawValues) \in Nat /\ precmdValues \in Nat /\ k \in Nat
    BY SequenceFacts DEF RawInv
  <1>2. T \subseteq Pending /\ k \in T
    BY <1>1 DEF Pending
  <1>3. IsFiniteSet(Pending)
    <2>1. IsFiniteSet(start .. Len(rawValues))
      BY <1>1, FS_Interval
    <2>2. Pending \in SUBSET (start .. Len(rawValues))
      BY DEF Pending
    <2> QED
      BY <2>1, <2>2, FS_Subset
  <1>4. Cardinality(Pending) = numPos
    BY DEF RawInv
  <1> HIDE DEF T
  <1>5. IsFiniteSet(T) /\ Cardinality(T) <= numPos
    BY <1>2, <1>3, <1>4, FS_Subset
  <1>6. Cardinality(T) \in Nat /\ Cardinality(T) # 0
    BY <1>2, <1>5, FS_CardinalityType, FS_EmptySet
  <1>7. numPos \in Nat
    BY <1>3, <1>4, FS_CardinalityType
  <1>8. Cardinality(T) \in 1 .. numPos
    BY <1>5, <1>6, <1>7
  <1> QED
    BY <1>8 DEF T

\* Each raw value keeps its type, and those that waited for an operand have one.
IsAssigned(A) ==
  /\ IsSequence(A) /\ Len(A) = Len(rawValues)
  /\ \A k \in DOMAIN rawValues :
       /\ IsRaw(A[k]) /\ A[k].type = rawValues[k].type
       /\ A[k].type # "command" => A[k].opt \in DOMAIN opts

LEMMA OperandsAreAssigned ==
  ASSUME OptionsInv, RawInv, pc \in Reading, Matched(opts, ndx, numPos).used >= numPos
  PROVE  IsAssigned(AssignOperands(precmdValues + 1, numPos))
  <1> DEFINE start == precmdValues + 1
             L == Len(ndx.operands)
             m == Matched(opts, ndx, numPos)
             From(k) == Cardinality({j \in start .. k : rawValues[j].type = "operand"})
             Assign(counts, k) ==
               IF k >= start /\ rawValues[k].type = "operand"
               THEN [rawValues[k] EXCEPT !.opt = ndx.operands[OperandOf(counts, From(k))].opt]
               ELSE rawValues[k]
             A == [k \in DOMAIN rawValues |-> Assign(m.counts, k)]
  <1>1. /\ IsSequence(rawValues) /\ Len(rawValues) \in Nat /\ DOMAIN rawValues = 1 .. Len(rawValues)
        /\ precmdValues \in 0 .. Len(rawValues)
    BY SequenceFacts DEF RawInv
  <1>2. numPos \in Nat
    <2>1. IsFiniteSet(precmdValues + 1 .. Len(rawValues))
      BY <1>1, FS_Interval
    <2>2. IsFiniteSet(Pending)
      BY <2>1, FS_Subset DEF Pending
    <2> QED
      BY <2>2, FS_CardinalityType DEF RawInv
  <1>3. OptsOK(opts) /\ ndx \in Indexes(opts) /\ ndx.operands \in Seq(OperandNames(opts))
    BY DEF OptionsInv, Indexes
  <1>4. m \in Deals(L, numPos)
    BY <1>2, <1>3, MatchedIsDeal
  <1>5. AssignOperands(start, numPos) = A
    <2>1. {[k \in DOMAIN rawValues |-> Assign(c, k)] : c \in {m.counts}} = {A}
      OBVIOUS
    <2>2. AssignOperands(start, numPos) =
            The({[k \in DOMAIN rawValues |-> Assign(c, k)] : c \in {m.counts}})
      BY DEF AssignOperands
    <2> HIDE DEF A, Assign, m
    <2> QED
      BY <2>1, <2>2, TheOne
  <1>6. L \in Nat /\ m.counts \in [1 .. L -> Nat] /\ m.used \in 0 .. numPos /\ SumsTo(m.counts, L, m.used)
    BY <1>3, <1>4 DEF Deals
  <1>7. m.used = numPos
    BY <1>2, <1>6
  <1> HIDE DEF m
  <1>8. ASSUME NEW k \in DOMAIN rawValues, k >= start, rawValues[k].type = "operand"
        PROVE  ndx.operands[OperandOf(m.counts, From(k))].opt \in DOMAIN opts
    <2>1. k \in precmdValues + 1 .. Len(rawValues)
      BY <1>1, <1>8
    <2>2. From(k) \in 1 .. numPos
      BY <1>8, <2>1, EachPendingHasPlace
    <2> HIDE DEF From
    <2>3. OperandOf(m.counts, From(k)) \in 1 .. L
      BY <1>2, <1>6, <1>7, <2>2, OperandIsThere
    <2>4. ndx.operands[OperandOf(m.counts, From(k))] \in OperandNames(opts)
      BY <1>3, <2>3
    <2> QED
      BY <2>4 DEF OperandNames, Names
  <1> HIDE DEF From
  <1>9. ASSUME NEW k \in DOMAIN rawValues
        PROVE  /\ IsRaw(A[k]) /\ A[k].type = rawValues[k].type
               /\ A[k].type # "command" => A[k].opt \in DOMAIN opts
    <2>1. IsRaw(rawValues[k]) /\ A[k] = Assign(m.counts, k)
      BY DEF RawInv
    <2>2. CASE k >= start /\ rawValues[k].type = "operand"
      <3> DEFINE opt == ndx.operands[OperandOf(m.counts, From(k))].opt
      <3>1. A[k] = [rawValues[k] EXCEPT !.opt = opt]
        BY <2>1, <2>2
      <3>2. opt \in DOMAIN opts
        BY <1>8, <2>2
      <3> HIDE DEF opt, A
      <3> QED
        BY <2>1, <2>2, <3>1, <3>2 DEF IsRaw
    <2>3. CASE k < start /\ rawValues[k].type = "operand"
      <3>1. A[k] = rawValues[k] /\ k \in 1 .. precmdValues
        BY <1>1, <2>1, <2>3
      <3> QED
        BY <2>1, <2>3, <3>1 DEF RawInv
    <2>4. CASE rawValues[k].type # "operand"
      <3>1. A[k] = rawValues[k] /\ rawValues[k].type \in {"option", "command"}
        BY <2>1, <2>4 DEF IsRaw
      <3> HIDE DEF A
      <3> QED
        BY <2>1, <3>1 DEF RawInv
    <2> QED
      BY <1>1, <2>2, <2>3, <2>4
  <1>10. IsSequence(A) /\ Len(A) = Len(rawValues)
    <2>1. A \in Seq({Assign(m.counts, k) : k \in DOMAIN rawValues}) /\ Len(A) = Len(rawValues)
      BY <1>1
    <2> HIDE DEF A
    <2> QED
      BY <2>1, SequenceOf
  <1> HIDE DEF A
  <1> QED
    BY <1>5, <1>9, <1>10 DEF IsAssigned

-----------------------------------------------------------------------------
(***************************************************************************)
(* The options and the index.                                              *)
(***************************************************************************)
LEMMA ParseKeepsSetup ==
  ASSUME ParseStep
  PROVE  /\ UNCHANGED <<setup, files>>
         /\ ndx' = ndx \/ \E c : ndx' = Index(opts, c)
  <1>1. CASE NextFrameWord \/ expandResponseFile \/ LeaveResponseFile \/ EndExpand \/ BeforeActions
    BY <1>1 DEF NextFrameWord, expandResponseFile, LeaveResponseFile, EndExpand, BeforeActions,
                FileVars, scanVars
  <1>2. CASE ShortName \/ EndOfCluster \/ BareDashes \/ LongName
    BY <1>2 DEF ShortName, EndOfCluster, BareDashes, LongName, ScanRest
  <1>3. CASE CommandWord
    BY <1>3 DEF CommandWord, ScanRest
  <1>4. CASE UnknownArg \/ OperandWord \/ AssignRest
    BY <1>4 DEF UnknownArg, OperandWord, AssignRest, ScanRest
  <1>5. CASE ParseValue \/ CheckMinimums \/ AfterActions
    BY <1>5 DEF ParseValue, CheckMinimums, AfterActions, ValueRest, scanVars
  <1> QED
    BY <1>1, <1>2, <1>3, <1>4, <1>5 DEF ParseStep

LEMMA StartKeepsOptions ==
  ASSUME OptionsInv, StartParse(argv), UNCHANGED argv
  PROVE  OptionsInv'
  <1>1. OptsOK(opts') /\ HelpKnown(opts', cmds')
    BY TouchKeepsHelp DEF StartParse, OptionsInv
  <1>2. ndx' = Index(opts', <<>>)
    BY DEF StartParse, touchAllCmds
  <1>3. ndx' \in Indexes(opts')
    BY <1>1, <1>2, IndexIsTyped
  <1> QED
    BY <1>1, <1>3 DEF StartParse, OptionsInv

LEMMA OptionsKept ==
  ASSUME OptionsInv, [MainNext]_allVars
  PROVE  OptionsInv'
  <1>1. CASE FirstParse \/ SecondParse
    BY <1>1, StartKeepsOptions DEF FirstParse, SecondParse
  <1>2. CASE ParseStep /\ UNCHANGED mainVars
    <2>1. UNCHANGED <<opts, cmds, program, files, argv>>
      BY <1>2, ParseKeepsSetup DEF setup, mainVars
    <2>2. OptsOK(opts)
      BY DEF OptionsInv
    <2>3. ndx' \in Indexes(opts)
      BY <1>2, <2>2, ParseKeepsSetup, IndexIsTyped DEF OptionsInv
    <2> QED
      BY <2>1, <2>3 DEF OptionsInv
  <1>3. CASE InstallAction
    <2>1. UNCHANGED <<opts, ndx, program, files, argv>> /\ DOMAIN cmds' = DOMAIN cmds
      BY <1>3 DEF InstallAction, scanVars, mainVars
    <2> QED
      BY <2>1 DEF OptionsInv, HelpKnown
  <1>4. CASE ChangeFiles
    <2>1. UNCHANGED <<opts, cmds, ndx, program, argv>> /\ files' \in FileSystems
      BY <1>4 DEF ChangeFiles, setup, scanVars
    <2> QED
      BY <2>1 DEF OptionsInv
  <1>5. CASE OpenFiles \/ ReturnExitCode \/ RunAction \/ defCmdAction \/ UNCHANGED allVars
    <2>1. UNCHANGED <<opts, cmds, ndx, program, files, argv>>
      BY <1>5 DEF OpenFiles, ReturnExitCode, RunAction, defCmdAction, ExecRest, setup, scanVars,
                  mainVars, allVars, parseVars
    <2> QED
      BY <2>1 DEF OptionsInv
  <1> QED
    BY <1>1, <1>2, <1>3, <1>4, <1>5 DEF MainNext, MainStep

-----------------------------------------------------------------------------
(***************************************************************************)
(* The words and the response files.                                       *)
(***************************************************************************)
LEMMA StartKeepsWords ==
  ASSUME OptionsInv, StartParse(argv)
  PROVE  WordsInv'
  <1> DEFINE given == <<Head(argv)>> \o program.envOpts \o Tail(argv)
             f == [file |-> <<>>, words |-> given, pos |-> 1]
  <1>1. IsSequence(argv) /\ argv # <<>> /\ IsSequence(program.envOpts)
    BY DimcliParseAssumption, ArgvsAssumption DEF OptionsInv
  <1>2. IsSequence(given)
    BY <1>1, SequenceOne, SequenceTail, SequenceJoins
  <1>3. args' = given /\ stack' = <<f>>
    BY DEF StartParse
  <1> HIDE DEF given
  <1>4. Len(given) \in Nat
    BY <1>2, SequenceFacts
  <1>5. IsFrame(f) /\ f.pos <= Len(f.words) + 1
    BY <1>2, <1>4 DEF IsFrame
  <1> HIDE DEF f
  <1>6. IsSequence(<<f>>) /\ <<f>> # <<>> /\ Len(<<f>>) = 1 /\ DOMAIN <<f>> = {1} /\ <<f>>[1] = f
    BY SequenceOne
  <1> QED
    BY <1>2, <1>3, <1>5, <1>6 DEF WordsInv

LEMMA FramesAre ==
  ASSUME WordsInv, pc = "expand"
  PROVE  /\ Len(stack) \in Nat \ {0} /\ DOMAIN stack = 1 .. Len(stack)
         /\ Frame = stack[Len(stack)] /\ IsFrame(Frame) /\ IsSequence(Frame.words)
         /\ Len(Frame.words) \in Nat /\ Frame.pos \in Nat \ {0} /\ Frame.pos <= Len(Frame.words) + 1
         /\ \A n \in 0 .. Len(stack) : IsSequence(SubSeq(stack, 1, n)) /\ Len(SubSeq(stack, 1, n)) = n
         /\ \A n \in 0 .. Len(stack) : \A i \in 1 .. n : SubSeq(stack, 1, n)[i] = stack[i]
  <1>1. IsSequence(stack) /\ stack # <<>> /\ Len(stack) \in Nat /\ DOMAIN stack = 1 .. Len(stack)
    BY SequenceFacts DEF WordsInv
  <1>2. stack \in Seq(ToSet(stack))
    BY <1>1 DEF IsSequence
  <1>3. Len(stack) # 0
    BY <1>1, <1>2
  <1>4. Frame = stack[Len(stack)]
    BY DEF Frame, Last
  <1>5. IsFrame(Frame) /\ Frame.pos <= Len(Frame.words) + 1
    BY <1>1, <1>3, <1>4 DEF WordsInv
  <1>6. \A n \in 0 .. Len(stack) : IsSequence(SubSeq(stack, 1, n))
    BY <1>1, SequencePart
  <1>7. \A n \in 0 .. Len(stack) : /\ Len(SubSeq(stack, 1, n)) = n
                                   /\ \A i \in 1 .. n : SubSeq(stack, 1, n)[i] = stack[i]
    BY <1>1, <1>2
  <1>8. IsSequence(Frame.words) /\ Frame.pos \in Nat \ {0}
    BY <1>5 DEF IsFrame
  <1>9. Len(Frame.words) \in Nat
    BY <1>8, SequenceFacts
  <1> QED
    BY <1>1, <1>3, <1>4, <1>5, <1>6, <1>7, <1>8, <1>9

\* The first n frames and then f make a stack.
LEMMA StackOf ==
  ASSUME WordsInv, pc = "expand", NEW n \in 0 .. Len(stack),
         \A i \in 1 .. n : stack[i].pos <= Len(stack[i].words),
         NEW f, IsFrame(f), f.pos <= Len(f.words) + 1,
         stack' = SubSeq(stack, 1, n) \o <<f>>, args' = args
  PROVE  WordsInv'
  <1> DEFINE s == SubSeq(stack, 1, n)
  <1>1. /\ IsSequence(s) /\ Len(s) = n /\ \A i \in 1 .. n : s[i] = stack[i]
        /\ Len(stack) \in Nat /\ DOMAIN stack = 1 .. Len(stack)
    BY FramesAre
  <1>2. IsSequence(<<f>>) /\ Len(<<f>>) = 1 /\ <<f>>[1] = f
    BY SequenceOne
  <1> HIDE DEF s
  <1>3. /\ IsSequence(s \o <<f>>) /\ Len(s \o <<f>>) = n + 1
        /\ \A i \in 1 .. n : (s \o <<f>>)[i] = stack[i]
        /\ (s \o <<f>>)[n + 1] = f
    BY <1>1, <1>2, SequenceJoins
  <1>4. stack' = s \o <<f>>
    BY DEF s
  <1> DEFINE t == s \o <<f>>
  <1> HIDE DEF t
  <1>5. /\ IsSequence(t) /\ Len(t) = n + 1 /\ DOMAIN t = 1 .. n + 1 /\ t # <<>>
        /\ \A i \in 1 .. n : t[i] = stack[i]
        /\ t[n + 1] = f /\ stack' = t
    <2>1. IsSequence(t) /\ Len(t) = n + 1
      BY <1>3 DEF t
    <2>2. DOMAIN t = 1 .. n + 1 /\ n + 1 \in 1 .. n + 1
      BY <1>1, <2>1, SequenceFacts
    <2>3. t # <<>>
      BY <2>2
    <2> QED
      BY <1>3, <1>4, <2>1, <2>2, <2>3 DEF t
  <1>6. \A i \in 1 .. n : i \in DOMAIN stack
    BY <1>1
  <1>7. \A i \in 1 .. n + 1 : i \in 1 .. n \/ i = n + 1
    BY <1>1
  <1>8. \A i \in DOMAIN t : IsFrame(t[i]) /\ t[i].pos <= Len(t[i].words) + 1
    BY <1>5, <1>6, <1>7 DEF WordsInv
  <1>9. \A i \in 1 .. Len(t) - 1 : t[i].pos <= Len(t[i].words)
    BY <1>1, <1>5
  <1>10. IsSequence(args')
    BY DEF WordsInv
  <1> QED
    BY <1>5, <1>8, <1>9, <1>10 DEF WordsInv

LEMMA NextWordKeepsWords ==
  ASSUME WordsInv, NextFrameWord
  PROVE  WordsInv'
  <1> DEFINE n == Len(stack) - 1
             f == [Frame EXCEPT !.pos = @ + 1]
  <1>1. pc = "expand" /\ Frame.pos <= Len(Frame.words) /\ args' = args
        /\ stack' = SubSeq(stack, 1, n) \o <<f>>
    BY DEF NextFrameWord, SetFrame, Front
  <1>2. /\ Len(stack) \in Nat \ {0} /\ IsFrame(Frame)
        /\ Len(Frame.words) \in Nat /\ Frame.pos \in Nat \ {0}
    BY <1>1, FramesAre
  <1>3. n \in 0 .. Len(stack) /\ \A i \in 1 .. n : stack[i].pos <= Len(stack[i].words)
    BY <1>1, <1>2 DEF WordsInv
  <1>4. IsFrame(f) /\ f.words = Frame.words /\ f.pos = Frame.pos + 1
    BY <1>2 DEF IsFrame
  <1> HIDE DEF f, n
  <1>5. f.pos <= Len(f.words) + 1
    BY <1>1, <1>2, <1>4
  <1> QED
    BY <1>1, <1>3, <1>4, <1>5, StackOf

LEMMA ExpandKeepsWords ==
  ASSUME OptionsInv, WordsInv, expandResponseFile
  PROVE  WordsInv'
  <1> DEFINE n == Len(stack)
             file == Canonical(Frame.file, Tail(Frame.words[Frame.pos]))
             f == [file |-> file, words |-> files[file].words, pos |-> 1]
  <1>1. pc = "expand" /\ Frame.pos <= Len(Frame.words) /\ args' = args
    BY DEF expandResponseFile
  <1>2. CASE file \notin DOMAIN files \/ Recursive(file) \/ ~loadFileUtf8(file)
    <2>1. pc' = "rejected"
      BY <1>2 DEF expandResponseFile, BadUsage
    <2> QED
      BY <1>1, <2>1 DEF WordsInv
  <1>3. CASE ~(file \notin DOMAIN files \/ Recursive(file) \/ ~loadFileUtf8(file))
    <2>1. stack' = Append(stack, f) /\ file \in DOMAIN files
      BY <1>3 DEF expandResponseFile
    <2>2. IsSequence(files[file].words)
      BY <2>1, DimcliParseAssumption DEF OptionsInv
    <2>3. Len(files[file].words) \in Nat
      BY <2>2, SequenceFacts
    <2>4. IsFrame(f) /\ f.pos <= Len(f.words) + 1
      BY <2>2, <2>3 DEF IsFrame
    <2> HIDE DEF f
    <2>5. n \in Nat \ {0} /\ Frame = stack[n] /\ IsSequence(stack)
      BY <1>1, FramesAre DEF WordsInv
    <2>6. \A i \in 1 .. n : stack[i].pos <= Len(stack[i].words)
      <3>1. \A i \in 1 .. n : i \in 1 .. n - 1 \/ i = n
        BY <2>5
      <3> QED
        BY <1>1, <2>5, <3>1 DEF WordsInv
    <2>7. Append(stack, f) = SubSeq(stack, 1, n) \o <<f>>
      <3> DEFINE S == ToSet(stack) \cup {f}
      <3>1. stack \in Seq(S) /\ f \in S
        <4>1. stack \in Seq(ToSet(stack)) /\ ToSet(stack) \subseteq S /\ f \in S
          BY <2>5 DEF IsSequence
        <4> HIDE DEF S
        <4> QED
          BY <4>1
      <3> HIDE DEF S
      <3>2. SubSeq(stack, 1, n) = stack
        BY <3>1
      <3>3. Append(stack, f) = stack \o <<f>>
        BY <3>1
      <3> QED
        BY <3>2, <3>3
    <2>8. n \in 0 .. n
      BY <2>5
    <2> HIDE DEF n
    <2>9. stack' = SubSeq(stack, 1, n) \o <<f>>
      BY <2>1, <2>7
    <2> QED
      BY <1>1, <2>4, <2>6, <2>8, <2>9, StackOf DEF n
  <1> QED
    BY <1>2, <1>3

\* The words take the place of one.
LEMMA ReplaceCounts ==
  ASSUME NEW f, IsFrame(f), f.pos <= Len(f.words), NEW src, IsSequence(src)
  PROVE  /\ IsFrame(WithFile(f, src))
         /\ WithFile(f, src).pos <= Len(WithFile(f, src).words) + 1
  <1> DEFINE g == WithFile(f, src)
             out == f.words
             a == SubSeq(out, 1, f.pos - 1)
             b == SubSeq(out, f.pos + 1, Len(out))
  <1>1. IsSequence(out) /\ Len(out) \in Nat /\ f.pos \in Nat \ {0} /\ Len(src) \in Nat
    BY SequenceFacts DEF IsFrame
  <1>2. out \in Seq(ToSet(out))
    BY <1>1 DEF IsSequence
  <1>3. IsSequence(a) /\ Len(a) = f.pos - 1
    <2>1. IsSequence(a)
      BY <1>1, SequencePart
    <2>2. Len(a) = f.pos - 1
      BY <1>1, <1>2
    <2> QED
      BY <2>1, <2>2
  <1>4. IsSequence(b) /\ Len(b) = Len(out) - f.pos
    <2>1. IsSequence(b)
      BY <1>1, SequencePart
    <2>2. Len(b) = Len(out) - f.pos
      BY <1>1, <1>2
    <2> QED
      BY <2>1, <2>2
  <1> HIDE DEF a, b
  <1>5. IsSequence(a \o src) /\ Len(a \o src) = f.pos - 1 + Len(src)
    BY <1>3, SequenceJoins
  <1>6. IsSequence((a \o src) \o b) /\ Len((a \o src) \o b) = f.pos - 1 + Len(src) + (Len(out) - f.pos)
    BY <1>4, <1>5, SequenceJoins
  <1>7. replace(out, f.pos, src) = (a \o src) \o b
    BY DEF replace, a, b
  <1>8. g = [f EXCEPT !.words = replace(out, f.pos, src), !.pos = f.pos + Len(src)]
    BY DEF WithFile
  <1>9. f = [file |-> f.file, words |-> f.words, pos |-> f.pos]
    BY DEF IsFrame
  <1>10. g = [file |-> f.file, words |-> replace(out, f.pos, src), pos |-> f.pos + Len(src)]
    BY <1>8, <1>9
  <1> HIDE DEF g, out
  <1>11. IsFrame(g)
    BY <1>1, <1>6, <1>7, <1>10 DEF IsFrame
  <1>12. g.pos <= Len(g.words) + 1
    <2>1. g.pos = f.pos + Len(src) /\ g.words = (a \o src) \o b
      BY <1>7, <1>10
    <2>2. Len(g.words) = f.pos - 1 + Len(src) + (Len(out) - f.pos)
      BY <1>6, <2>1
    <2>3. f.pos <= Len(out)
      BY DEF out
    <2> QED
      BY <1>1, <2>1, <2>2, <2>3
  <1> QED
    BY <1>11, <1>12 DEF g

LEMMA LeaveKeepsWords ==
  ASSUME WordsInv, LeaveResponseFile
  PROVE  WordsInv'
  <1> DEFINE n == Len(stack) - 2
             f == WithFile(stack[Len(stack) - 1], Frame.words)
  <1>1. pc = "expand" /\ Len(stack) > 1 /\ args' = args /\ stack' = SubSeq(stack, 1, n) \o <<f>>
    BY DEF LeaveResponseFile
  <1>2. Len(stack) \in Nat /\ DOMAIN stack = 1 .. Len(stack) /\ IsSequence(Frame.words)
    BY <1>1, FramesAre
  <1>3. n \in 0 .. Len(stack) /\ \A i \in 1 .. n : stack[i].pos <= Len(stack[i].words)
    <2>1. Len(stack) > 1
      BY <1>1
    <2>2. n \in 0 .. Len(stack) /\ \A i \in 1 .. n : i \in 1 .. Len(stack) - 1
      BY <1>2, <2>1
    <2>3. \A i \in 1 .. Len(stack) - 1 : stack[i].pos <= Len(stack[i].words)
      BY <1>1 DEF WordsInv
    <2> HIDE DEF n
    <2> QED
      BY <2>2, <2>3
  <1>4. Len(stack) - 1 \in 1 .. Len(stack) - 1 /\ Len(stack) - 1 \in DOMAIN stack
    <2>1. Len(stack) > 1
      BY <1>1
    <2> QED
      BY <1>2, <2>1
  <1>5. /\ IsFrame(stack[Len(stack) - 1])
        /\ stack[Len(stack) - 1].pos <= Len(stack[Len(stack) - 1].words)
    BY <1>1, <1>4 DEF WordsInv
  <1>6. IsFrame(f) /\ f.pos <= Len(f.words) + 1
    BY <1>2, <1>5, ReplaceCounts
  <1> HIDE DEF f, n
  <1> QED
    BY <1>1, <1>3, <1>6, StackOf

LEMMA ParseKeepsWords ==
  ASSUME OptionsInv, WordsInv, ParseStep
  PROVE  WordsInv'
  <1>1. CASE NextFrameWord
    BY <1>1, NextWordKeepsWords
  <1>2. CASE expandResponseFile
    BY <1>2, ExpandKeepsWords
  <1>3. CASE LeaveResponseFile
    BY <1>3, LeaveKeepsWords
  <1>4. CASE EndExpand
    <2>1. pc = "expand" /\ args' = Frame.words /\ pc' = "before"
      BY <1>4 DEF EndExpand, Goto
    <2>2. IsSequence(Frame.words)
      BY <2>1, FramesAre
    <2> QED
      BY <2>1, <2>2 DEF WordsInv
  <1>5. CASE BeforeActions
    <2>1. pc' = "scan" /\ (args' = args \/ \E w : args' = Append(args, w))
      BY <1>5 DEF BeforeActions, Goto
    <2>2. IsSequence(args) /\ \A w : IsSequence(Append(args, w))
      BY SequenceGrows DEF WordsInv
    <2> QED
      BY <2>1, <2>2 DEF WordsInv
  <1>6. CASE ~(NextFrameWord \/ expandResponseFile \/ LeaveResponseFile \/ EndExpand \/ BeforeActions)
    <2>1. args' = args
      BY <1>6 DEF ParseStep, ShortName, EndOfCluster, BareDashes, LongName, CommandWord, UnknownArg,
                  OperandWord, AssignRest, ParseValue, CheckMinimums, AfterActions, ScanRest, ValueRest
    <2>2. pc # "expand"
      BY <1>6 DEF ParseStep, ShortName, EndOfCluster, BareDashes, LongName, CommandWord, UnknownArg,
                  OperandWord, AssignRest, ParseValue, CheckMinimums, AfterActions, InOptions,
                  InPositional, Scanning
    <2>3. pc' # "expand"
      <3>1. \/ Goto("scan") \/ Goto("values") \/ Goto("after") \/ Goto("accepted") \/ BadUsage
            \/ ExitParse \/ Abort
        <4>1. CASE ShortName \/ LongName
          BY <4>1 DEF ShortName, LongName, OptionValue
        <4>2. CASE EndOfCluster \/ BareDashes \/ CommandWord \/ UnknownArg \/ OperandWord \/ AssignRest
          BY <4>2 DEF EndOfCluster, BareDashes, CommandWord, UnknownArg, OperandWord, AssignRest, BadValue
        <4>3. CASE ParseValue \/ CheckMinimums \/ AfterActions
          BY <4>3 DEF ParseValue, CheckMinimums, AfterActions, BadValue
        <4> QED
          BY <1>6, <4>1, <4>2, <4>3 DEF ParseStep
      <3> QED
        BY <3>1 DEF Goto, BadUsage, ExitParse, Abort
    <2> QED
      BY <2>1, <2>3 DEF WordsInv
  <1> QED
    BY <1>1, <1>2, <1>3, <1>4, <1>5, <1>6

LEMMA WordsKept ==
  ASSUME OptionsInv, WordsInv, [MainNext]_allVars
  PROVE  WordsInv'
  <1>1. CASE FirstParse \/ SecondParse
    BY <1>1, StartKeepsWords DEF FirstParse, SecondParse
  <1>2. CASE ParseStep
    BY <1>2, ParseKeepsWords
  <1>3. CASE OpenFiles \/ InstallAction \/ ChangeFiles \/ ReturnExitCode \/ RunAction \/ defCmdAction
             \/ UNCHANGED allVars
    <2>1. args' = args /\ stack' = stack /\ (pc' # "expand" \/ pc' = pc)
      BY <1>3 DEF OpenFiles, InstallAction, ChangeFiles, ReturnExitCode, RunAction, defCmdAction,
                  ExecRest, Goto, allVars, parseVars
    <2> QED
      BY <2>1 DEF WordsInv
  <1> QED
    BY <1>1, <1>2, <1>3 DEF MainNext, MainStep

-----------------------------------------------------------------------------
(***************************************************************************)
(* The raw values, and the places in the words and among the values.       *)
(***************************************************************************)
LEMMA CountsAre ==
  ASSUME WordsInv, PlaceInv, RawInv
  PROVE  /\ Len(args) \in Nat /\ Len(rawValues) \in Nat /\ DOMAIN rawValues = 1 .. Len(rawValues)
         /\ IsSequence(rawValues) /\ precmdValues \in Nat /\ precmdValues <= Len(rawValues)
         /\ argPos \in Nat /\ argPos >= 2 /\ argPos <= Len(args) + 2
         /\ numPos \in Nat /\ nextRaw \in Nat /\ nextRaw >= 1 /\ nextRaw <= Len(rawValues) + 1
         /\ ptr \in Nat \ {0}
  BY SequenceFacts DEF WordsInv, PlaceInv, RawInv

\* No raw value comes or changes, and the parse goes on as before or is left.
LEMMA RawsStay ==
  ASSUME RawInv, UNCHANGED <<opts, rawValues, precmdValues>>,
         \/ pc' \notin Reading \cup {"values"}
         \/ pc \in Reading /\ pc' \in Reading /\ UNCHANGED <<numPos, cmdMode>>
         \/ pc = "values" /\ pc' = "values"
  PROVE  RawInv'
  <1>1. Pending' = Pending
    BY DEF Pending
  <1>2. pc' = "values" => pc = "values"
    BY DEF Reading
  <1>3. pc' \in Reading => pc \in Reading /\ UNCHANGED <<numPos, cmdMode>>
    BY DEF Reading
  <1> QED
    BY <1>1, <1>2, <1>3 DEF RawInv

LEMMA PlaceMoves ==
  ASSUME NEW n \in Nat, NEW p \in 2 .. n + 2, NEW q \in p .. n + 2, NEW k \in Nat, k <= p - 2
  PROVE  q \in 2 .. n + 2 /\ k <= q - 2
  OBVIOUS

LEMMA OptionPushed ==
  ASSUME WordsInv, PlaceInv, RawInv, pc = "scan",
         NEW r, IsRaw(r), r.type = "option", r.opt \in DOMAIN opts,
         rawValues' = Append(rawValues, r),
         argPos' \in argPos .. Len(args) + 2, ptr' \in Nat \ {0}, pc' = "scan",
         UNCHANGED <<opts, args, precmdValues, numPos, cmdMode, nextRaw>>
  PROVE  PlaceInv' /\ RawInv'
  <1> DEFINE L == Len(rawValues)
             rs == Append(rawValues, r)
  <1>1. /\ Len(args) \in Nat /\ L \in Nat /\ DOMAIN rawValues = 1 .. L /\ IsSequence(rawValues)
        /\ precmdValues \in Nat /\ precmdValues <= L /\ argPos \in Nat /\ argPos >= 2
        /\ numPos \in Nat /\ nextRaw \in Nat /\ nextRaw >= 1 /\ nextRaw <= L + 1
    BY CountsAre
  <1>2. /\ IsSequence(rs) /\ Len(rs) = L + 1 /\ rs[L + 1] = r /\ rawValues' = rs
        /\ \A k \in 1 .. L : rs[k] = rawValues[k]
    BY <1>1, SequenceGrows
  <1>3. DOMAIN rs = 1 .. L + 1
    BY <1>2, SequenceFacts
  <1> HIDE DEF rs, L
  <1>4. \A k \in DOMAIN rs : k \in DOMAIN rawValues \/ k = L + 1
    BY <1>1, <1>3
  <1>5. Pending' = Pending
    <2>1. \A k : k \in Pending' <=> k \in precmdValues + 1 .. L + 1 /\ rs[k].type = "operand"
      BY <1>2 DEF Pending
    <2>2. \A k : k \in Pending <=> k \in precmdValues + 1 .. L /\ rawValues[k].type = "operand"
      BY DEF Pending, L
    <2>3. \A k \in precmdValues + 1 .. L + 1 : k \in 1 .. L \/ k = L + 1
      BY <1>1
    <2>4. \A k \in precmdValues + 1 .. L : k \in 1 .. L /\ k \in precmdValues + 1 .. L + 1
      BY <1>1
    <2>5. \A k \in 1 .. L : k \in precmdValues + 1 .. L + 1 => k \in precmdValues + 1 .. L
      BY <1>1
    <2> QED
      BY <1>2, <2>1, <2>2, <2>3, <2>4, <2>5
  <1>6. PlaceInv'
    <2>1. nextRaw' \in 1 .. Len(rawValues') + 1
      BY <1>1, <1>2
    <2>2. argPos' \in 2 .. Len(args') + 2 /\ numPos' <= argPos' - 2
      <3>1. Len(args') = Len(args) /\ numPos' = numPos /\ numPos <= argPos - 2
        BY DEF PlaceInv
      <3>2. argPos' \in 2 .. Len(args) + 2 /\ numPos <= argPos' - 2
        <4>1. argPos \in 2 .. Len(args) + 2 /\ numPos <= argPos - 2
          BY DEF PlaceInv
        <4> QED
          BY <1>1, <4>1, PlaceMoves
      <3> QED
        BY <3>1, <3>2
    <2>3. nextRaw' = 1
      BY DEF PlaceInv
    <2> QED
      BY <2>1, <2>2, <2>3 DEF PlaceInv
  <1>7. \A k \in DOMAIN rs : IsRaw(rs[k]) /\ (rs[k].type = "option" => rs[k].opt \in DOMAIN opts)
    BY <1>1, <1>2, <1>4 DEF RawInv
  <1>8. \A k \in 1 .. precmdValues : rs[k].type = "operand" => rs[k].opt \in DOMAIN opts
    <2>1. \A k \in 1 .. precmdValues : k \in 1 .. L
      BY <1>1
    <2> QED
      BY <1>2, <2>1 DEF RawInv
  <1>9. precmdValues' \in 0 .. Len(rs)
    BY <1>1, <1>2
  <1>10. pc' \in Reading /\ pc' # "values" /\ pc \in Reading
    BY DEF Reading
  <1> QED
    BY <1>2, <1>5, <1>6, <1>7, <1>8, <1>9, <1>10 DEF RawInv

LEMMA RawIsRaw ==
  ASSUME NEW type \in {"option", "operand", "command"}, NEW i, NEW pos, NEW text
  PROVE  /\ IsRaw(Raw(type, i, pos, text))
         /\ Raw(type, i, pos, text).type = type /\ Raw(type, i, pos, text).opt = i
  BY DEF IsRaw, Raw

LEMMA RawStaysRaw ==
  ASSUME NEW r, IsRaw(r), NEW null
  PROVE  /\ IsRaw([r EXCEPT !.null = null])
         /\ [r EXCEPT !.null = null].type = r.type /\ [r EXCEPT !.null = null].opt = r.opt
  <1> DEFINE q == [r EXCEPT !.null = null]
  <1>1. q = [type |-> r.type, opt |-> r.opt, pos |-> r.pos, text |-> r.text, null |-> null]
    BY DEF IsRaw
  <1>2. q.type = r.type /\ q.opt = r.opt /\ q.pos = r.pos /\ q.text = r.text /\ q.null = null
    BY <1>1
  <1> HIDE DEF q
  <1>3. IsRaw(q)
    BY <1>1, <1>2 DEF IsRaw
  <1> QED
    BY <1>2, <1>3 DEF q

LEMMA OptionValueKeeps ==
  ASSUME WordsInv, PlaceInv, RawInv, pc = "scan", argPos <= Len(args),
         NEW n \in Names(opts), NEW text, NEW equal \in BOOLEAN, OptionValue(n, text, equal),
         UNCHANGED <<opts, args, precmdValues, numPos, cmdMode, nextRaw>>
  PROVE  PlaceInv' /\ RawInv'
  <1>1. /\ Len(args) \in Nat /\ argPos \in Nat /\ argPos >= 2 /\ n.opt \in DOMAIN opts
    BY CountsAre DEF Names
  <1> DEFINE r1 == Raw("option", n.opt, argPos, text)
             r2 == [Raw("option", n.opt, argPos, <<>>) EXCEPT !.null = TRUE]
             r3 == Raw("option", n.opt, argPos + 1, args[argPos + 1])
  <1>2. /\ IsRaw(r1) /\ r1.type = "option" /\ r1.opt \in DOMAIN opts
        /\ IsRaw(r2) /\ r2.type = "option" /\ r2.opt \in DOMAIN opts
        /\ IsRaw(r3) /\ r3.type = "option" /\ r3.opt \in DOMAIN opts
    <2>1. /\ IsRaw(r1) /\ r1.type = "option" /\ r1.opt \in DOMAIN opts
          /\ IsRaw(r3) /\ r3.type = "option" /\ r3.opt \in DOMAIN opts
      BY <1>1, RawIsRaw
    <2>2. IsRaw(r2) /\ r2.type = "option" /\ r2.opt \in DOMAIN opts
      <3> DEFINE r0 == Raw("option", n.opt, argPos, <<>>)
      <3>1. IsRaw(r0) /\ r0.type = "option" /\ r0.opt = n.opt
        BY RawIsRaw
      <3>2. r2 = [r0 EXCEPT !.null = TRUE]
        OBVIOUS
      <3> HIDE DEF r0, r2
      <3>3. IsRaw(r2) /\ r2.type = r0.type /\ r2.opt = r0.opt
        BY <3>1, <3>2, RawStaysRaw
      <3> QED
        BY <1>1, <3>1, <3>3
    <2> QED
      BY <2>1, <2>2
  <1> HIDE DEF r1, r2, r3
  <1>3. \/ /\ rawValues' = Append(rawValues, r1) \/ rawValues' = Append(rawValues, r2)
           /\ argPos' = argPos + 1 /\ ptr' = 1 /\ pc' = "scan"
        \/ /\ argPos # Len(args) /\ rawValues' = Append(rawValues, r3)
           /\ argPos' = argPos + 2 /\ ptr' = 1 /\ pc' = "scan"
        \/ pc' = "rejected" /\ UNCHANGED <<rawValues, argPos, ptr>>
    BY DEF OptionValue, Push, NextWord, Goto, BadUsage, r1, r2, r3
  <1>4. CASE /\ rawValues' = Append(rawValues, r1) \/ rawValues' = Append(rawValues, r2)
             /\ argPos' = argPos + 1 /\ ptr' = 1 /\ pc' = "scan"
    <2>1. argPos' \in argPos .. Len(args) + 2 /\ ptr' \in Nat \ {0}
      BY <1>1, <1>4
    <2>2. CASE rawValues' = Append(rawValues, r1)
      BY <1>2, <1>4, <2>1, <2>2, OptionPushed
    <2>3. CASE rawValues' = Append(rawValues, r2)
      BY <1>2, <1>4, <2>1, <2>3, OptionPushed
    <2> QED
      BY <1>4, <2>2, <2>3
  <1>5. CASE /\ argPos # Len(args) /\ rawValues' = Append(rawValues, r3)
             /\ argPos' = argPos + 2 /\ ptr' = 1 /\ pc' = "scan"
    <2>1. argPos' \in argPos .. Len(args) + 2 /\ ptr' \in Nat \ {0}
      BY <1>1, <1>5
    <2> QED
      BY <1>2, <1>5, <2>1, OptionPushed
  <1>6. CASE pc' = "rejected" /\ UNCHANGED <<rawValues, argPos, ptr>>
    <2>1. RawInv'
      BY <1>6, RawsStay DEF Reading
    <2> QED
      BY <1>6, <2>1 DEF PlaceInv
  <1> QED
    BY <1>3, <1>4, <1>5, <1>6

LEMMA NamesOfIndex ==
  ASSUME OptionsInv
  PROVE  /\ \A letter \in DOMAIN ndx.short : ndx.short[letter] \in Names(opts)
         /\ \A key \in DOMAIN ndx.long : ndx.long[key] \in Names(opts)
  <1>1. ndx.short \in Tables(Letters, Names(opts)) /\ ndx.long \in Tables(Keys(opts), Names(opts))
    BY DEF OptionsInv, Indexes
  <1> QED
    BY <1>1, TableValues

\* A word that is refused ends the parse and leaves what was read.
LEMMA Refused ==
  ASSUME PlaceInv, RawInv, pc' \in Stopped,
         UNCHANGED <<opts, args, argPos, ptr, numPos, nextRaw, rawValues, precmdValues>>
  PROVE  PlaceInv' /\ RawInv'
  <1>1. RawInv'
    BY RawsStay DEF Reading, Stopped
  <1> QED
    BY <1>1 DEF PlaceInv, Stopped

\* What the steps that read options have in common.
LEMMA OptionsAreRead ==
  ASSUME WordsInv, PlaceInv, RawInv, InOptions
  PROVE  /\ pc = "scan" /\ argPos <= Len(args) /\ at \in Nat \ {0}
         /\ Len(args) \in Nat /\ argPos \in Nat /\ argPos >= 2
         /\ argPos \in argPos .. Len(args) + 2 /\ argPos + 1 \in argPos .. Len(args) + 2
  <1>1. pc = "scan" /\ argPos <= Len(args)
    BY DEF InOptions, Scanning
  <1>2. Len(args) \in Nat /\ argPos \in Nat /\ argPos >= 2 /\ ptr \in Nat \ {0}
    BY CountsAre
  <1>3. at \in Nat \ {0}
    BY <1>2 DEF at
  <1> QED
    BY <1>1, <1>2, <1>3

LEMMA ShortNameKeeps ==
  ASSUME OptionsInv, WordsInv, PlaceInv, RawInv, ShortName
  PROVE  PlaceInv' /\ RawInv'
  <1>1. UNCHANGED <<opts, args, precmdValues, numPos, cmdMode, nextRaw>>
    BY DEF ShortName, ScanRest, setup, valueVars
  <1>2. /\ pc = "scan" /\ argPos <= Len(args) /\ at \in Nat \ {0}
        /\ argPos \in argPos .. Len(args) + 2
    BY OptionsAreRead DEF ShortName
  <1>3. CASE arg[at] \notin DOMAIN ndx.short
    <2>1. pc' = "rejected" /\ UNCHANGED <<rawValues, argPos, ptr>>
      BY <1>3 DEF ShortName, BadUsage
    <2> QED
      BY <1>1, <2>1, Refused DEF Stopped
  <1>4. CASE arg[at] \in DOMAIN ndx.short
    <2> DEFINE n == ndx.short[arg[at]]
               r == Raw("option", n.opt, argPos, IF n.invert THEN <<"0">> ELSE <<"1">>)
    <2>1. n \in Names(opts)
      BY <1>4, NamesOfIndex
    <2>2. n.opt \in DOMAIN opts
      BY <2>1 DEF Names
    <2>3. \/ Push(r) /\ ptr' = at + 1 /\ argPos' = argPos /\ Goto("scan")
          \/ OptionValue(n, SubSeq(arg, at + 1, Len(arg)), FALSE)
      BY <1>4 DEF ShortName
    <2> HIDE DEF n
    <2>4. CASE Push(r) /\ ptr' = at + 1 /\ argPos' = argPos /\ Goto("scan")
      <3>1. IsRaw(r) /\ r.type = "option" /\ r.opt = n.opt
        BY RawIsRaw
      <3> HIDE DEF r
      <3>2. rawValues' = Append(rawValues, r) /\ pc' = "scan"
        BY <2>4 DEF Push, Goto
      <3>3. ptr' \in Nat \ {0}
        BY <1>2, <2>4
      <3>4. argPos' \in argPos .. Len(args) + 2
        BY <1>2, <2>4
      <3> QED
        BY <1>1, <1>2, <2>2, <3>1, <3>2, <3>3, <3>4, OptionPushed
    <2>5. CASE OptionValue(n, SubSeq(arg, at + 1, Len(arg)), FALSE)
      BY <1>1, <1>2, <2>1, <2>5, OptionValueKeeps
    <2> QED
      BY <2>3, <2>4, <2>5
  <1> QED
    BY <1>3, <1>4

\* The next word is read without a value.
LEMMA PlaceMovesOn ==
  ASSUME WordsInv, PlaceInv, RawInv, pc = "scan", argPos <= Len(args), pc' = "scan", NextWord,
         UNCHANGED <<opts, args, rawValues, precmdValues, numPos, cmdMode, nextRaw>>
  PROVE  PlaceInv' /\ RawInv'
  <1>1. RawInv'
    BY RawsStay DEF Reading
  <1>2. /\ Len(args) \in Nat /\ argPos \in Nat /\ argPos >= 2 /\ numPos \in Nat
    BY CountsAre
  <1>3. argPos + 1 \in argPos .. Len(args) + 2 /\ argPos \in 2 .. Len(args) + 2 /\ numPos <= argPos - 2
    BY <1>2 DEF PlaceInv
  <1>4. argPos + 1 \in 2 .. Len(args) + 2 /\ numPos <= (argPos + 1) - 2
    BY <1>2, <1>3, PlaceMoves
  <1>5. argPos' = argPos + 1 /\ ptr' = 1 /\ ptr' \in Nat \ {0}
    BY DEF NextWord
  <1> QED
    BY <1>1, <1>4, <1>5 DEF PlaceInv

LEMMA LongNameKeeps ==
  ASSUME OptionsInv, WordsInv, PlaceInv, RawInv, LongName
  PROVE  PlaceInv' /\ RawInv'
  <1> DEFINE rest  == SubSeq(arg, at + 1, Len(arg))
             equal == "=" \in ToSet(rest)
             key   == IF equal THEN SubSeq(rest, 1, SelectInSeq(rest, LAMBDA s : s = "=") - 1)
                      ELSE rest
             text  == SubSeq(rest, Len(key) + 2, Len(rest))
             n     == ndx.long[key]
             val   == equal => text \in TrueWords
             r     == Raw("option", n.opt, argPos, IF n.invert = val THEN <<"0">> ELSE <<"1">>)
  <1>1. UNCHANGED <<opts, args, precmdValues, numPos, cmdMode, nextRaw>>
    BY DEF LongName, ScanRest, setup, valueVars
  <1>2. /\ pc = "scan" /\ argPos <= Len(args)
        /\ argPos + 1 \in argPos .. Len(args) + 2
    BY OptionsAreRead DEF LongName
  <1>3. \/ BadUsage /\ UNCHANGED <<rawValues, argPos, ptr>>
        \/ key \in DOMAIN ndx.long /\ OptionValue(n, text, equal)
        \/ key \in DOMAIN ndx.long /\ Push(r) /\ NextWord /\ Goto("scan")
    BY DEF LongName
  <1> HIDE DEF key, text, rest, equal, val
  <1>4. CASE BadUsage /\ UNCHANGED <<rawValues, argPos, ptr>>
    BY <1>1, <1>4, Refused DEF BadUsage, Stopped
  <1>5. key \in DOMAIN ndx.long => n \in Names(opts) /\ n.opt \in DOMAIN opts
    BY NamesOfIndex DEF Names
  <1> HIDE DEF n
  <1>6. CASE key \in DOMAIN ndx.long /\ OptionValue(n, text, equal)
    <2>1. equal \in BOOLEAN
      BY DEF equal
    <2> QED
      BY <1>1, <1>2, <1>5, <1>6, <2>1, OptionValueKeeps
  <1>7. CASE key \in DOMAIN ndx.long /\ Push(r) /\ NextWord /\ Goto("scan")
    <2>1. IsRaw(r) /\ r.type = "option" /\ r.opt = n.opt
      BY RawIsRaw
    <2> HIDE DEF r
    <2>2. rawValues' = Append(rawValues, r) /\ pc' = "scan" /\ argPos' = argPos + 1 /\ ptr' = 1
      BY <1>7 DEF Push, Goto, NextWord
    <2>3. ptr' \in Nat \ {0} /\ argPos' \in argPos .. Len(args) + 2
      BY <1>2, <2>2
    <2> QED
      BY <1>1, <1>2, <1>5, <1>7, <2>1, <2>2, <2>3, OptionPushed
  <1> QED
    BY <1>3, <1>4, <1>6, <1>7

LEMMA WordsWithoutValueKeep ==
  ASSUME WordsInv, PlaceInv, RawInv, EndOfCluster \/ BareDashes \/ UnknownArg
  PROVE  PlaceInv' /\ RawInv'
  <1>1. /\ pc = "scan" /\ argPos <= Len(args) /\ NextWord /\ pc' = "scan"
        /\ UNCHANGED <<opts, args, rawValues, precmdValues, numPos, cmdMode, nextRaw>>
    BY DEF EndOfCluster, BareDashes, UnknownArg, ScanRest, setup, valueVars, Goto, InOptions,
           InPositional, Scanning
  <1> QED
    BY <1>1, PlaceMovesOn

LEMMA PendingIsFinite ==
  ASSUME Len(rawValues) \in Nat, precmdValues \in Nat
  PROVE  IsFiniteSet(Pending)
  <1>1. IsFiniteSet(precmdValues + 1 .. Len(rawValues))
    BY FS_Interval
  <1> QED
    BY <1>1, FS_Subset DEF Pending

LEMMA OperandWordKeeps ==
  ASSUME WordsInv, PlaceInv, RawInv, OperandWord
  PROVE  PlaceInv' /\ RawInv'
  <1> DEFINE L == Len(rawValues)
             r == Raw("operand", 0, argPos, arg)
             rs == Append(rawValues, r)
  <1>1. /\ pc = "scan" /\ pc' = "scan" /\ argPos <= Len(args) /\ rawValues' = rs
        /\ numPos' = numPos + 1 /\ argPos' = argPos + 1 /\ ptr' = 1 /\ cmdMode # "unknown"
        /\ UNCHANGED <<opts, args, precmdValues, cmdMode, nextRaw>>
    BY DEF OperandWord, ScanRest, setup, valueVars, Goto, InPositional, Scanning, Push, NextWord
  <1>2. IsRaw(r) /\ r.type = "operand"
    BY RawIsRaw
  <1> HIDE DEF r
  <1>3. /\ Len(args) \in Nat /\ L \in Nat /\ DOMAIN rawValues = 1 .. L /\ IsSequence(rawValues)
        /\ precmdValues \in Nat /\ precmdValues <= L /\ argPos \in Nat /\ argPos >= 2
        /\ numPos \in Nat
    BY CountsAre
  <1>4. /\ IsSequence(rs) /\ Len(rs) = L + 1 /\ rs[L + 1] = r
        /\ \A k \in 1 .. L : rs[k] = rawValues[k]
    BY <1>3, SequenceGrows
  <1>5. DOMAIN rs = 1 .. L + 1
    BY <1>4, SequenceFacts
  <1>6. nextRaw = 1 /\ numPos <= argPos - 2
    BY <1>1 DEF PlaceInv
  <1>7. IsFiniteSet(Pending) /\ Cardinality(Pending) = numPos
    BY <1>1, <1>3, PendingIsFinite DEF RawInv, Reading
  <1> HIDE DEF rs
  <1>8. Pending' = Pending \cup {L + 1}
    <2>1. \A k : k \in Pending' <=> k \in precmdValues + 1 .. L + 1 /\ rs[k].type = "operand"
      BY <1>1, <1>4 DEF Pending
    <2>2. \A k : k \in Pending <=> k \in precmdValues + 1 .. L /\ rawValues[k].type = "operand"
      BY DEF Pending
    <2> HIDE DEF L
    <2>3. \A k \in precmdValues + 1 .. L + 1 : k \in precmdValues + 1 .. L \/ k = L + 1
      BY <1>3
    <2>4. \A k \in precmdValues + 1 .. L : k \in 1 .. L /\ k \in precmdValues + 1 .. L + 1
      BY <1>3
    <2>5. L + 1 \in precmdValues + 1 .. L + 1
      BY <1>3
    <2> QED
      BY <1>2, <1>4, <2>1, <2>2, <2>3, <2>4, <2>5
  <1>9. L + 1 \notin Pending
    BY <1>3 DEF Pending
  <1>10. Cardinality(Pending') = numPos + 1
    BY <1>7, <1>8, <1>9, FS_AddElement
  <1> HIDE DEF L
  <1>11. PlaceInv'
    <2>1. nextRaw' = 1 /\ nextRaw' \in 1 .. Len(rawValues') + 1
      BY <1>1, <1>3, <1>4, <1>6
    <2>2. Len(args') = Len(args)
      BY <1>1
    <2>3. argPos + 1 \in 2 .. Len(args) + 2 /\ numPos + 1 \in Nat
          /\ numPos + 1 <= (argPos + 1) - 2 /\ numPos + 1 <= Len(args)
      <3>1. argPos <= Len(args)
        BY <1>1
      <3> QED
        BY <1>3, <1>6, <3>1
    <2>4. /\ argPos' \in 2 .. Len(args') + 2 /\ numPos' \in Nat
          /\ numPos' <= argPos' - 2 /\ numPos' <= Len(args')
      BY <1>1, <2>2, <2>3
    <2> QED
      BY <1>1, <2>1, <2>4 DEF PlaceInv
  <1>12. \A k \in DOMAIN rs : k \in DOMAIN rawValues \/ k = L + 1
    BY <1>3, <1>5
  <1>13. \A k \in DOMAIN rs : IsRaw(rs[k]) /\ (rs[k].type = "option" => rs[k].opt \in DOMAIN opts)
    BY <1>2, <1>3, <1>4, <1>12 DEF RawInv
  <1>14. \A k \in 1 .. precmdValues : rs[k].type = "operand" => rs[k].opt \in DOMAIN opts
    <2>1. \A k \in 1 .. precmdValues : k \in 1 .. L
      BY <1>3
    <2> QED
      BY <1>4, <2>1 DEF RawInv
  <1>15. precmdValues \in 0 .. Len(rs)
    BY <1>3, <1>4
  <1>16. cmdMode = "pending" => precmdValues = 0
    BY <1>1 DEF RawInv, Reading
  <1> QED
    BY <1>1, <1>4, <1>10, <1>11, <1>13, <1>14, <1>15, <1>16 DEF RawInv

LEMMA CommandWordKeeps ==
  ASSUME OptionsInv, WordsInv, PlaceInv, RawInv, CommandWord
  PROVE  PlaceInv' /\ RawInv'
  <1> DEFINE A == AssignOperands(1, numPos)
             r == Raw("command", 0, 0, arg)
             rs == Append(A, r)
             L == Len(rawValues)
  <1>1. /\ pc = "scan" /\ argPos <= Len(args) /\ cmdMode = "pending" /\ numPos = ndx.minOprs
        /\ rawValues' = rs /\ precmdValues' = Len(rs) /\ numPos' = 0
        /\ UNCHANGED <<opts, args, nextRaw>>
    BY DEF CommandWord, ScanRest, setup, valueVars, InPositional, Scanning
  <1>2. \/ pc' = "scan" /\ argPos' = argPos + 1 /\ ptr' = 1 /\ cmdMode' \in {"found", "unknown"}
        \/ pc' = "rejected" /\ UNCHANGED <<argPos, ptr>>
    BY DEF CommandWord, NextWord, Goto, BadUsage
  <1>3. IsRaw(r) /\ r.type = "command"
    BY RawIsRaw
  <1> HIDE DEF r
  <1>4. /\ Len(args) \in Nat /\ L \in Nat /\ DOMAIN rawValues = 1 .. L /\ IsSequence(rawValues)
        /\ argPos \in Nat /\ argPos >= 2 /\ numPos \in Nat /\ ptr \in Nat \ {0}
    BY CountsAre
  <1>5. pc \in Reading
    BY <1>1 DEF Reading
  <1>6. precmdValues + 1 = 1
    BY <1>1, <1>5 DEF RawInv
  <1>7. Matched(opts, ndx, numPos).used >= numPos
    <2>1. Matched(opts, ndx, numPos).used = numPos
      BY <1>1, <1>4, MatchedIsDeal DEF OptionsInv
    <2> QED
      BY <1>4, <2>1
  <1>8. IsAssigned(A)
    BY <1>5, <1>6, <1>7, OperandsAreAssigned
  <1> HIDE DEF A
  <1>9. /\ IsSequence(rs) /\ Len(rs) = L + 1 /\ rs[L + 1] = r
        /\ \A k \in 1 .. L : rs[k] = A[k]
    <2>1. IsSequence(A) /\ Len(A) = L
      BY <1>8 DEF IsAssigned
    <2> HIDE DEF L
    <2> QED
      BY <2>1, SequenceGrows
  <1>10. DOMAIN rs = 1 .. L + 1
    BY <1>9, SequenceFacts
  <1> HIDE DEF rs
  <1>11. \A k \in 1 .. L : IsRaw(A[k]) /\ (A[k].type # "command" => A[k].opt \in DOMAIN opts)
    BY <1>4, <1>8 DEF IsAssigned
  <1> HIDE DEF L
  <1>12. \A k \in 1 .. L + 1 : k \in 1 .. L \/ k = L + 1
    BY <1>4
  <1>13. \A k \in 1 .. L + 1 : IsRaw(rs[k]) /\ (rs[k].type # "command" => rs[k].opt \in DOMAIN opts)
    BY <1>3, <1>9, <1>11, <1>12
  <1>14. Pending' = {}
    <2>1. Pending' = {k \in (L + 1) + 1 .. L + 1 : rs[k].type = "operand"}
      BY <1>1, <1>9 DEF Pending
    <2>2. (L + 1) + 1 .. L + 1 = {}
      BY <1>4
    <2> QED
      BY <2>1, <2>2
  <1>15. PlaceInv'
    <2>1. nextRaw' = 1 /\ nextRaw' \in 1 .. Len(rawValues') + 1
      BY <1>1, <1>4, <1>9 DEF PlaceInv
    <2>2. Len(args') = Len(args)
      BY <1>1
    <2>3. /\ argPos + 1 \in 2 .. Len(args) + 2 /\ 0 <= (argPos + 1) - 2 /\ 0 <= Len(args)
          /\ argPos \in 2 .. Len(args) + 2 /\ 0 <= argPos - 2
      <3>1. argPos <= Len(args)
        BY <1>1
      <3> QED
        BY <1>4, <3>1
    <2>4. argPos' \in 2 .. Len(args') + 2 /\ 0 <= argPos' - 2 /\ ptr' \in Nat \ {0}
      BY <1>2, <1>4, <2>2, <2>3
    <2> QED
      BY <1>1, <1>2, <2>1, <2>2, <2>3, <2>4 DEF PlaceInv
  <1>16. precmdValues' = L + 1 /\ L + 1 \in 0 .. L + 1
    BY <1>1, <1>4, <1>9
  <1>17. Cardinality(Pending') = 0
    BY <1>14, FS_EmptySet
  <1>18. RawInv'
    <2>1. DOMAIN rawValues' = 1 .. L + 1 /\ rawValues' = rs /\ Len(rs) = L + 1 /\ opts' = opts
      BY <1>1, <1>9, <1>10
    <2> QED
      BY <1>1, <1>2, <1>9, <1>13, <1>16, <1>17, <2>1 DEF RawInv, Reading
  <1> QED
    BY <1>15, <1>18

LEMMA AssignRestKeeps ==
  ASSUME OptionsInv, WordsInv, PlaceInv, RawInv, AssignRest
  PROVE  PlaceInv' /\ RawInv'
  <1> DEFINE A == AssignOperands(precmdValues + 1, numPos)
             used == Matched(opts, ndx, numPos).used
  <1>1. /\ pc = "scan"
        /\ UNCHANGED <<opts, args, argPos, ptr, cmdMode, numPos, precmdValues, nextRaw>>
    BY DEF AssignRest, setup, valueVars
  <1>2. /\ Len(args) \in Nat /\ Len(rawValues) \in Nat /\ DOMAIN rawValues = 1 .. Len(rawValues)
        /\ IsSequence(rawValues) /\ numPos \in Nat /\ precmdValues \in Nat
    BY CountsAre
  <1>3. pc \in Reading
    BY <1>1 DEF Reading
  <1>4. \/ pc' \in Stopped /\ UNCHANGED rawValues
        \/ pc' = "values" /\ cmdMode = "unknown" /\ UNCHANGED rawValues
        \/ pc' = "values" /\ ~(used < numPos) /\ rawValues' = A
    BY DEF AssignRest, BadUsage, BadValue, Abort, Goto, Stopped
  <1>5. CASE pc' \in Stopped /\ UNCHANGED rawValues
    BY <1>1, <1>5, Refused
  <1>6. ASSUME IsSequence(rawValues'), Len(rawValues') = Len(rawValues), pc' = "values",
               \A k \in DOMAIN rawValues :
                 IsRaw(rawValues'[k]) /\ (rawValues'[k].type # "command" => rawValues'[k].opt \in DOMAIN opts)
        PROVE  PlaceInv' /\ RawInv'
    <2>1. DOMAIN rawValues' = DOMAIN rawValues
      BY <1>2, <1>6, SequenceFacts
    <2>2. PlaceInv'
      BY <1>1, <1>6 DEF PlaceInv
    <2>3. \A k \in 1 .. precmdValues : k \in DOMAIN rawValues
      <3>1. precmdValues <= Len(rawValues)
        BY CountsAre
      <3> QED
        BY <1>2, <3>1
    <2>4. precmdValues' \in 0 .. Len(rawValues')
      BY <1>1, <1>6 DEF RawInv
    <2>5. opts' = opts /\ precmdValues' = precmdValues
      BY <1>1
    <2> QED
      BY <1>6, <2>1, <2>2, <2>3, <2>4, <2>5 DEF RawInv, Reading
  <1>7. CASE pc' = "values" /\ cmdMode = "unknown" /\ UNCHANGED rawValues
    <2>1. Cardinality(Pending) = 0 /\ IsFiniteSet(Pending)
      BY <1>2, <1>3, <1>7, PendingIsFinite DEF RawInv
    <2>2. Pending = {}
      BY <2>1, FS_EmptySet
    <2>3. ASSUME NEW k \in DOMAIN rawValues
          PROVE  IsRaw(rawValues[k]) /\ (rawValues[k].type # "command" => rawValues[k].opt \in DOMAIN opts)
      <3>1. k \in 1 .. precmdValues \/ k \in precmdValues + 1 .. Len(rawValues)
        BY <1>2
      <3>2. rawValues[k].type = "operand" => k \in 1 .. precmdValues
        BY <2>2, <3>1 DEF Pending
      <3> QED
        BY <3>2 DEF RawInv, IsRaw
    <2>4. rawValues' = rawValues /\ pc' = "values"
      BY <1>7
    <2> QED
      BY <1>2, <1>6, <2>3, <2>4
  <1>8. CASE pc' = "values" /\ ~(used < numPos) /\ rawValues' = A
    <2>1. used \in 0 .. numPos
      BY <1>2, MatchedIsDeal DEF OptionsInv, Deals
    <2>2. used >= numPos
      BY <1>2, <1>8, <2>1
    <2>3. IsAssigned(A)
      BY <1>3, <2>2, OperandsAreAssigned
    <2> QED
      BY <1>6, <1>8, <2>3 DEF IsAssigned
  <1> QED
    BY <1>4, <1>5, <1>7, <1>8

\* Parsing the values and the checks after them leave the words and the raw values.
LEMMA ValuesKeep ==
  ASSUME WordsInv, PlaceInv, RawInv, ParseValue \/ CheckMinimums \/ AfterActions
  PROVE  PlaceInv' /\ RawInv'
  <1>1. UNCHANGED <<opts, args, argPos, ptr, numPos, cmdMode, rawValues, precmdValues>>
    BY DEF ParseValue, CheckMinimums, AfterActions, ValueRest, setup, scanVars
  <1>2. nextRaw' = nextRaw \/ (nextRaw <= Len(rawValues) /\ nextRaw' = nextRaw + 1)
    BY DEF ParseValue, CheckMinimums, AfterActions, valueVars
  <1>3. \/ pc = "values" /\ pc' = "values"
        \/ pc' \in {"after", "accepted", "rejected", "terminated"}
    BY DEF ParseValue, CheckMinimums, AfterActions, Goto, BadUsage, BadValue, Abort, ExitParse
  <1>4. nextRaw' \in 1 .. Len(rawValues) + 1
    <2>1. Len(rawValues) \in Nat /\ nextRaw \in 1 .. Len(rawValues) + 1
      BY CountsAre DEF PlaceInv
    <2> QED
      BY <1>2, <2>1
  <1>5. PlaceInv'
    BY <1>1, <1>3, <1>4 DEF PlaceInv
  <1>6. RawInv'
    BY <1>1, <1>3, RawsStay DEF Reading
  <1> QED
    BY <1>5, <1>6

\* Nor does anything that comes before the first word is read.
LEMMA ExpandKeeps ==
  ASSUME OptionsInv, WordsInv, PlaceInv, RawInv, WordsInv',
         NextFrameWord \/ expandResponseFile \/ LeaveResponseFile \/ EndExpand \/ BeforeActions
  PROVE  PlaceInv' /\ RawInv'
  <1>1. UNCHANGED <<opts, argPos, ptr, numPos, cmdMode, nextRaw, rawValues, precmdValues>>
    BY DEF NextFrameWord, expandResponseFile, LeaveResponseFile, EndExpand, BeforeActions, FileVars,
           setup, scanVars, valueVars
  <1>2. pc \in {"expand", "before"} /\ pc' \in {"expand", "before", "scan", "rejected"}
    BY DEF NextFrameWord, expandResponseFile, LeaveResponseFile, EndExpand, BeforeActions, Goto,
           BadUsage
  <1>3. Len(args') \in Nat
    <2>1. IsSequence(args')
      BY DEF WordsInv
    <2> QED
      BY <2>1, SequenceFacts
  <1>4. argPos' = 2 /\ numPos' = 0 /\ nextRaw' = 1
    BY <1>1, <1>2 DEF PlaceInv
  <1>5. PlaceInv'
    <2>1. 2 \in 2 .. Len(args') + 2 /\ 0 <= Len(args') /\ 0 <= 2 - 2
      BY <1>3
    <2> QED
      BY <1>1, <1>4, <2>1 DEF PlaceInv
  <1>6. RawInv'
    BY <1>1, <1>2, RawsStay DEF Reading
  <1> QED
    BY <1>5, <1>6

\* A parse begins without raw values.
LEMMA StartKeeps ==
  ASSUME WordsInv', StartParse(argv)
  PROVE  PlaceInv' /\ RawInv'
  <1>1. /\ argPos' = 2 /\ ptr' = 1 /\ numPos' = 0 /\ rawValues' = <<>> /\ precmdValues' = 0
        /\ nextRaw' = 1 /\ cmdMode' \in {"pending", "none"} /\ pc' \in {"expand", "before"}
    BY DEF StartParse
  <1>2. Len(args') \in Nat
    <2>1. IsSequence(args')
      BY DEF WordsInv
    <2> QED
      BY <2>1, SequenceFacts
  <1>3. IsSequence(<<>>) /\ Len(<<>>) = 0 /\ DOMAIN <<>> = {}
    BY SequenceEmpty
  <1>4. PlaceInv'
    <2>1. /\ 2 \in 2 .. Len(args') + 2 /\ 0 <= Len(args') /\ 0 <= 2 - 2
          /\ 1 \in 1 .. 0 + 1 /\ 1 \in Nat \ {0}
      BY <1>2
    <2> QED
      BY <1>1, <1>3, <2>1 DEF PlaceInv
  <1>5. Pending' = {}
    <2>1. 0 + 1 .. 0 = {}
      OBVIOUS
    <2> QED
      BY <1>1, <1>3, <2>1 DEF Pending
  <1>6. Cardinality(Pending') = 0
    BY <1>5, FS_EmptySet
  <1> QED
    BY <1>1, <1>3, <1>4, <1>6 DEF RawInv, Reading

LEMMA PlacesKept ==
  ASSUME OptionsInv, WordsInv, PlaceInv, RawInv, [MainNext]_allVars
  PROVE  PlaceInv' /\ RawInv'
  <1>1. WordsInv'
    BY WordsKept
  <1>2. CASE FirstParse \/ SecondParse
    BY <1>1, <1>2, StartKeeps DEF FirstParse, SecondParse
  <1>3. CASE ParseStep
    <2>1. CASE NextFrameWord \/ expandResponseFile \/ LeaveResponseFile \/ EndExpand \/ BeforeActions
      BY <1>1, <2>1, ExpandKeeps
    <2>2. CASE ShortName
      BY <2>2, ShortNameKeeps
    <2>3. CASE LongName
      BY <2>3, LongNameKeeps
    <2>4. CASE EndOfCluster \/ BareDashes \/ UnknownArg
      BY <2>4, WordsWithoutValueKeep
    <2>5. CASE CommandWord
      BY <2>5, CommandWordKeeps
    <2>6. CASE OperandWord
      BY <2>6, OperandWordKeeps
    <2>7. CASE AssignRest
      BY <2>7, AssignRestKeeps
    <2>8. CASE ParseValue \/ CheckMinimums \/ AfterActions
      BY <2>8, ValuesKeep
    <2> QED
      BY <1>3, <2>1, <2>2, <2>3, <2>4, <2>5, <2>6, <2>7, <2>8 DEF ParseStep
  <1>4. CASE OpenFiles \/ InstallAction \/ ChangeFiles \/ ReturnExitCode \/ RunAction \/ defCmdAction
             \/ UNCHANGED allVars
    <2>1. UNCHANGED <<opts, args, argPos, ptr, numPos, cmdMode, nextRaw, rawValues, precmdValues>>
      BY <1>4 DEF OpenFiles, InstallAction, ChangeFiles, ReturnExitCode, RunAction, defCmdAction,
                  ExecRest, setup, scanVars, valueVars, allVars, parseVars
    <2>2. pc' = pc \/ pc' \notin Reading \cup {"values"}
      BY <1>4 DEF OpenFiles, InstallAction, ChangeFiles, ReturnExitCode, RunAction, defCmdAction,
                  Goto, allVars, parseVars, Reading
    <2>3. Pending' = Pending
      BY <2>1 DEF Pending
    <2>4. RawInv'
      BY <2>1, <2>2, <2>3 DEF RawInv
    <2>5. PlaceInv'
      BY <2>1, <2>2 DEF PlaceInv, Reading
    <2> QED
      BY <2>4, <2>5
  <1> QED
    BY <1>2, <1>3, <1>4 DEF MainNext, MainStep

-----------------------------------------------------------------------------
LEMMA RunsKept ==
  ASSUME RunsInv, [MainNext]_allVars
  PROVE  RunsInv'
  <1>1. ExitsKnown'
    BY ExitsKept DEF RunsInv
  <1>2. run' \in 0 .. 2
    BY DEF RunsInv, MainNext, MainStep, FirstParse, OpenFiles, InstallAction, SecondParse,
           ReturnExitCode, RunAction, defCmdAction, ChangeFiles, ExecRest, allVars, mainVars
  <1>3. ran' \in 0 .. 1
    <2>1. CASE RunAction
      <3>1. ran = 0 /\ ran' = ran + 1
        BY <2>1 DEF RunAction, ActionIs, RunsInv, ExitsKnown, Going
      <3> QED
        BY <3>1
    <2>2. CASE ~RunAction
      BY <2>2 DEF RunsInv, MainNext, MainStep, FirstParse, OpenFiles, InstallAction, SecondParse,
                  ReturnExitCode, defCmdAction, ChangeFiles, ExecRest, allVars, mainVars
    <2> QED
      BY <2>1, <2>2
  <1>4. exitCode' \in {kExitOk, kExitUsage, kExitSoftware}
    <2>1. CASE FirstParse \/ SecondParse
      BY <2>1 DEF FirstParse, SecondParse, StartParse
    <2>2. CASE OpenFiles \/ InstallAction \/ ChangeFiles \/ ReturnExitCode \/ UNCHANGED allVars
      BY <2>2 DEF OpenFiles, InstallAction, ChangeFiles, ReturnExitCode, Goto, exitVars, RunsInv,
                  allVars, parseVars
    <2>3. CASE RunAction \/ defCmdAction
      BY <2>3 DEF RunAction, defCmdAction
    <2>4. CASE ParseStep /\ UNCHANGED mainVars
      <3>1. Outcome
        BY <2>4, ParseOutcome
      <3> QED
        BY <3>1 DEF Outcome, exitVars, BadUsage, ExitParse, Abort, RunsInv
    <2> QED
      BY <2>1, <2>2, <2>3, <2>4 DEF MainNext, MainStep
  <1> QED
    BY <1>1, <1>2, <1>3, <1>4 DEF RunsInv

LEMMA CommandBegins ==
  ASSUME MainInit
  PROVE  CommandIInv
  <1>1. program \in Programs /\ files \in FileSystems /\ argv \in Argvs(program)
    BY DEF MainInit
  <1>2. OptsOK(opts) /\ HelpKnown(opts, cmds)
    <2>1. opts = program.opts /\ cmds = program.cmds
      BY DEF MainInit
    <2>2. OptsOK(program.opts) /\ HelpKnown(program.opts, program.cmds)
      BY <1>1, DimcliParseAssumption DEF HelpKnown, HelpOf
    <2> QED
      BY <2>1, <2>2
  <1>3. ndx \in Indexes(opts)
    BY EmptyIsIndex DEF MainInit
  <1>4. IsSequence(<<>>) /\ Len(<<>>) = 0 /\ DOMAIN <<>> = {}
    BY SequenceEmpty
  <1>5. /\ pc = "start" /\ args = <<>> /\ argPos = 2 /\ ptr = 1 /\ numPos = 0 /\ rawValues = <<>>
        /\ precmdValues = 0 /\ nextRaw = 1
    BY DEF MainInit
  <1>6. WordsInv
    BY <1>4, <1>5 DEF WordsInv
  <1>7. PlaceInv
    BY <1>4, <1>5 DEF PlaceInv
  <1>8. RawInv
    BY <1>4, <1>5 DEF RawInv, Reading
  <1>9. RunsInv
    BY DEF MainInit, RunsInv, ExitsKnown, Going, Parsing
  <1> QED
    BY <1>1, <1>2, <1>3, <1>6, <1>7, <1>8, <1>9 DEF CommandIInv, OptionsInv

\* The inductive invariant of the two parses.
THEOREM CommandInvariance == MainSpec => []CommandIInv
  <1>1. MainInit => CommandIInv
    BY CommandBegins
  <1>2. CommandIInv /\ [MainNext]_allVars => CommandIInv'
    BY OptionsKept, WordsKept, PlacesKept, RunsKept DEF CommandIInv
  <1> QED
    BY <1>1, <1>2, PTL DEF MainSpec

\* Each command has one help option however often the command line is parsed, the places in
\* the words and among the raw values stay where there are some, and when the values are
\* parsed each raw value is of an option: whatever the options, words and response files are.
THEOREM CommandTypeCorrect == MainSpec => []CommandTypeOK
  <1>1. CommandIInv => CommandTypeOK
    <2> SUFFICES ASSUME CommandIInv
                 PROVE  CommandTypeOK
      OBVIOUS
    <2>1. ASSUME NEW c \in DOMAIN cmds
          PROVE  Cardinality({i \in DOMAIN opts : opts[i].command = c /\ opts[i].check = "help"}) = 1
      <3>1. PICK i \in DOMAIN opts : HelpOf(opts, c) = {i}
        BY <2>1 DEF CommandIInv, OptionsInv, HelpKnown
      <3>2. Cardinality({i}) = 1
        BY FS_Singleton
      <3> QED
        BY <3>1, <3>2 DEF HelpOf
    <2>2. Len(rawValues) \in Nat
      BY CountsAre DEF CommandIInv
    <2>3. nextRaw \in 1 .. Len(rawValues) + 2
      <3>1. nextRaw \in 1 .. Len(rawValues) + 1
        BY DEF CommandIInv, PlaceInv
      <3> QED
        BY <2>2, <3>1
    <2>4. \A k \in DOMAIN rawValues :
            rawValues[k].type # "command" /\ pc = "values" => rawValues[k].opt \in DOMAIN opts
      BY DEF CommandIInv, RawInv, IsRaw
    <2>5. numPos \in 0 .. Len(args)
      <3>1. Len(args) \in Nat /\ numPos \in Nat /\ numPos <= Len(args)
        BY CountsAre DEF CommandIInv, PlaceInv
      <3> QED
        BY <3>1
    <2>6. /\ argPos \in 2 .. Len(args) + 2 /\ ptr \in Nat \ {0}
          /\ precmdValues \in 0 .. Len(rawValues)
      BY DEF CommandIInv, PlaceInv, RawInv
    <2>7. run \in 0 .. 2 /\ ran \in 0 .. 1 /\ exitCode \in {kExitOk, kExitUsage, kExitSoftware}
      BY DEF CommandIInv, RunsInv
    <2> QED
      BY <2>1, <2>3, <2>4, <2>5, <2>6, <2>7 DEF CommandTypeOK
  <1> QED
    BY <1>1, CommandInvariance, PTL

\* The assertion where the command comes (cli.cpp:2403): the values before it are as many as
\* the operands required, and assignOperands deals out all of them.
NoExtras ==
  pc = "scan" /\ InPositional /\ cmdMode = "pending" /\ numPos = ndx.minOprs =>
    Matched(opts, ndx, numPos).used = numPos

\* The assertion holds in whatever order the operands are declared, scalar or vector, with
\* whatever minimums and maximums.
THEOREM OperandCountsMatch == MainSpec => []NoExtras
  <1>1. CommandIInv => NoExtras
    <2> SUFFICES ASSUME CommandIInv, numPos = ndx.minOprs
                 PROVE  Matched(opts, ndx, numPos).used = numPos
      BY DEF NoExtras
    <2>1. numPos \in Nat /\ OptsOK(opts) /\ ndx \in Indexes(opts)
      BY DEF CommandIInv, PlaceInv, OptionsInv
    <2> QED
      BY <2>1, MatchedIsDeal
  <1> QED
    BY <1>1, CommandInvariance, PTL
-----------------------------------------------------------------------------
(***************************************************************************)
(* What is given when a parse succeeds.                                    *)
(***************************************************************************)
Commands(os) == {os[i].command : i \in DOMAIN os}

\* Whether a word may be a command, and what the options have had since they were touched.
Mixes == program.allowUnknown \/ Cardinality(DOMAIN cmds \cup Commands(opts)) > 1

ModeInv ==
  /\ cmdMode \in {"none", "pending", "found", "unknown"}
  /\ Mixes => FixedOperands(opts)
  /\ cmdMode # "none" => Mixes
  /\ pc # "start" => Commands(opts) \subseteq DOMAIN cmds

LEMMA TouchKeepsCommands ==
  ASSUME OptsOK(opts), touchAllCmds
  PROVE  /\ DOMAIN cmds' = DOMAIN cmds \cup Commands(opts)
         /\ Commands(opts') = Commands(opts)
         /\ FixedOperands(opts) => FixedOperands(opts')
  <1> DEFINE new == SetToSeq(Untouched)
             L == Len(opts)
             os == opts'
  <1>1. IsTouched(os, new) /\ DOMAIN cmds' = Untouched \cup DOMAIN cmds
    BY TouchAdds
  <1>2. Untouched = Commands(opts) \ DOMAIN cmds
    BY DEF Untouched, Commands
  <1>3. DOMAIN cmds' = DOMAIN cmds \cup Commands(opts)
    BY <1>1, <1>2
  <1> HIDE DEF new
  <1>4. /\ \A k \in DOMAIN new : new[k] \in Untouched
        /\ \A i \in 1 .. L : os[i] = opts[i]
    BY <1>1 DEF IsTouched
  <1>5. /\ L \in Nat /\ DOMAIN opts = 1 .. L
        /\ Len(new) \in Nat /\ DOMAIN new = 1 .. Len(new)
        /\ DOMAIN os = 1 .. L + Len(new)
        /\ \A i \in DOMAIN os :
              \/ i \in 1 .. L /\ os[i] = opts[i]
              \/ i - L \in 1 .. Len(new) /\ os[i] = helpOpt(new[i - L])
    BY <1>1, TouchedIs
  <1> HIDE DEF os, L
  <1>6. \A i \in DOMAIN os : (i \in DOMAIN opts /\ os[i] = opts[i])
                             \/ \E c \in Untouched : os[i] = helpOpt(c)
    BY <1>4, <1>5
  <1>7. \A i \in DOMAIN opts : i \in DOMAIN os /\ os[i] = opts[i]
    <2>1. \A i \in 1 .. L : i \in 1 .. L + Len(new)
      BY <1>5
    <2> QED
      BY <1>4, <1>5, <2>1
  <1>8. \A c : helpOpt(c).command = c
    BY DEF helpOpt
  <1>9. Commands(os) = Commands(opts)
    <2>1. \A i \in DOMAIN os : os[i].command \in Commands(opts)
      BY <1>2, <1>6, <1>8 DEF Commands
    <2>2. \A i \in DOMAIN opts : opts[i].command \in Commands(os)
      BY <1>7 DEF Commands
    <2> QED
      BY <2>1, <2>2 DEF Commands
  <1>10. ASSUME NEW c
         PROVE  \A k \in DOMAIN helpOpt(c).names : helpOpt(c).names[k].form = ""
    <2> DEFINE name == [form |-> "", key |-> <<"help">>, modifier |-> "", dot |-> TRUE]
    <2>1. helpOpt(c).names = <<name>>
      BY DEF helpOpt
    <2>2. name.form = ""
      OBVIOUS
    <2> DEFINE names == <<name>>
    <2> HIDE DEF name
    <2>3. DOMAIN names = 1 .. 1 /\ names[1] = name
      OBVIOUS
    <2> HIDE DEF names
    <2>4. \A k \in DOMAIN names : k = 1
      BY <2>3
    <2>5. \A k \in DOMAIN names : names[k].form = ""
      BY <2>2, <2>3, <2>4
    <2>6. helpOpt(c).names = names
      BY <2>1 DEF names
    <2> QED
      BY <2>5, <2>6
  <1>11. FixedOperands(opts) => FixedOperands(os)
    <2> SUFFICES ASSUME FixedOperands(opts), NEW i \in DOMAIN os, NEW k \in DOMAIN os[i].names,
                        os[i].command = <<>>, os[i].max # 0, os[i].names[k].form # ""
                 PROVE  /\ os[i].names[k].form # "[" /\ os[i].names[k].modifier # "?"
                        /\ os[i].min = os[i].max
      BY DEF FixedOperands
    <2>1. CASE i \in DOMAIN opts /\ os[i] = opts[i]
      BY <2>1 DEF FixedOperands
    <2>2. CASE \E c \in Untouched : os[i] = helpOpt(c)
      BY <1>10, <2>2
    <2> QED
      BY <1>6, <2>1, <2>2
  <1> QED
    BY <1>3, <1>9, <1>11 DEF os

LEMMA StartKeepsMode ==
  ASSUME OptionsInv, ModeInv, StartParse(argv)
  PROVE  ModeInv' /\ cmdMode' \in {"none", "pending"}
  <1>1. touchAllCmds /\ program' = program /\ OptsOK(opts) /\ pc' \in {"expand", "before"}
        /\ cmdMode' = IF program.allowUnknown \/ Cardinality(DOMAIN cmds') > 1 THEN "pending" ELSE "none"
    BY DEF StartParse, OptionsInv
  <1>2. /\ DOMAIN cmds' = DOMAIN cmds \cup Commands(opts)
        /\ Commands(opts') = Commands(opts)
        /\ FixedOperands(opts) => FixedOperands(opts')
    BY <1>1, TouchKeepsCommands
  <1>3. DOMAIN cmds' \cup Commands(opts') = DOMAIN cmds'
    BY <1>2
  <1>4. Mixes' <=> program.allowUnknown \/ Cardinality(DOMAIN cmds') > 1
    BY <1>1, <1>3 DEF Mixes
  <1>5. Mixes <=> program.allowUnknown \/ Cardinality(DOMAIN cmds') > 1
    BY <1>2 DEF Mixes
  <1> QED
    BY <1>1, <1>2, <1>4, <1>5 DEF ModeInv

\* Only a word that is the command changes the mode.
LEMMA ParseKeepsMode ==
  ASSUME ParseStep
  PROVE  cmdMode' = cmdMode \/ (cmdMode = "pending" /\ cmdMode' \in {"found", "unknown"})
  <1>1. CASE NextFrameWord \/ expandResponseFile \/ LeaveResponseFile \/ EndExpand \/ BeforeActions
    BY <1>1 DEF NextFrameWord, expandResponseFile, LeaveResponseFile, EndExpand, BeforeActions,
                FileVars, scanVars
  <1>2. CASE ShortName \/ EndOfCluster \/ BareDashes \/ LongName
    BY <1>2 DEF ShortName, EndOfCluster, BareDashes, LongName
  <1>3. CASE CommandWord
    BY <1>3 DEF CommandWord
  <1>4. CASE UnknownArg \/ OperandWord \/ AssignRest
    BY <1>4 DEF UnknownArg, OperandWord, AssignRest
  <1>5. CASE ParseValue \/ CheckMinimums \/ AfterActions
    BY <1>5 DEF ParseValue, CheckMinimums, AfterActions, ValueRest, scanVars
  <1> QED
    BY <1>1, <1>2, <1>3, <1>4, <1>5 DEF ParseStep

LEMMA ModeKept ==
  ASSUME OptionsInv, ModeInv, [MainNext]_allVars
  PROVE  ModeInv'
  <1>1. CASE FirstParse \/ SecondParse
    BY <1>1, StartKeepsMode DEF FirstParse, SecondParse
  <1>2. CASE ParseStep /\ UNCHANGED mainVars
    <2>1. UNCHANGED <<program, opts, cmds>>
      BY <1>2, ParseKeepsSetup DEF setup
    <2>2. pc # "start"
      BY <1>2, ParseOutcome DEF Parsing
    <2>3. Mixes' <=> Mixes
      BY <2>1 DEF Mixes
    <2> QED
      BY <1>2, <2>1, <2>2, <2>3, ParseKeepsMode DEF ModeInv
  <1>3. CASE InstallAction
    <2>1. UNCHANGED <<program, opts, cmdMode>> /\ DOMAIN cmds' = DOMAIN cmds /\ pc # "start"
      BY <1>3 DEF InstallAction, scanVars
    <2>2. Mixes' <=> Mixes
      BY <2>1 DEF Mixes
    <2> QED
      BY <2>1, <2>2 DEF ModeInv
  <1>4. CASE OpenFiles \/ ChangeFiles \/ ReturnExitCode \/ RunAction \/ defCmdAction \/ UNCHANGED allVars
    <2>1. UNCHANGED <<opts, cmds, program, cmdMode>> /\ (pc' = pc \/ pc # "start")
      BY <1>4 DEF OpenFiles, ChangeFiles, ReturnExitCode, RunAction, defCmdAction, ActionIs,
                  ExecRest, setup, scanVars, allVars, parseVars
    <2>2. Mixes' <=> Mixes
      BY <2>1 DEF Mixes
    <2> QED
      BY <2>1, <2>2 DEF ModeInv
  <1> QED
    BY <1>1, <1>2, <1>3, <1>4 DEF MainNext, MainStep

LEMMA ModeBegins ==
  ASSUME MainInit
  PROVE  ModeInv
  <1>1. program \in Programs /\ opts = program.opts /\ cmds = program.cmds /\ cmdMode = "none" /\ pc = "start"
    BY DEF MainInit
  <1>2. HasCommands(program) <=> Mixes
    BY <1>1 DEF HasCommands, Mixes, Commands
  <1>3. HasCommands(program) => FixedOperands(program.opts)
    BY <1>1, DimcliParseAssumption
  <1> QED
    BY <1>1, <1>2, <1>3 DEF ModeInv

-----------------------------------------------------------------------------
Matching == {"expand", "before", "scan", "values", "after", "accepted"}

\* The command, if there is one, is the last of the raw values that were read before it was
\* known, and decides what the operands after it are.
MatchInv ==
  pc \in Matching =>
    /\ cmdMode \in {"none", "pending"} =>
         /\ precmdValues = 0 /\ ndx = Index(opts, <<>>)
         /\ \A k \in DOMAIN rawValues : rawValues[k].type # "command"
    /\ cmdMode \in {"found", "unknown"} =>
         /\ precmdValues \in DOMAIN rawValues /\ rawValues[precmdValues].type = "command"
         /\ \A k \in DOMAIN rawValues : rawValues[k].type = "command" => k = precmdValues
    /\ cmdMode = "found" => ndx = Index(opts, rawValues[precmdValues].text)
    /\ cmdMode = "unknown" =>
         ndx = Index(opts, <<>>) /\ rawValues[precmdValues].text \notin DOMAIN cmds
    /\ pc \in {"values", "after", "accepted"} =>
         command = IF cmdMode \in {"found", "unknown"} /\ nextRaw > precmdValues
                   THEN rawValues[precmdValues].text ELSE <<>>

\* The operands of option i among the first m raw values.
OperandsTo(rs, m, i) == {k \in 1 .. m : rs[k].type = "operand" /\ rs[k].opt = i}

TopHasMinimums(os, rs, m) ==
  \A j \in DOMAIN Index(os, <<>>).operands :
    LET n == Index(os, <<>>).operands[j] IN Cardinality(OperandsTo(rs, m, n.opt)) >= os[n.opt].min

\* Where the command came each operand of the top level had its minimum.
TopInv == pc \in Matching /\ cmdMode = "found" => TopHasMinimums(opts, rawValues, precmdValues)

\* What a step of the scan other than that of the command comes to: at most one raw value
\* comes, of an option or an operand.
ScanGrows ==
  /\ pc \in Reading /\ pc' \in Reading \cup {"rejected"}
  /\ UNCHANGED <<program, opts, cmds, cmdMode, ndx, precmdValues, nextRaw, values>>
  /\ rawValues' = rawValues \/ \E r : r.type # "command" /\ rawValues' = Append(rawValues, r)

LEMMA OptionValueGrows ==
  ASSUME NEW n, NEW text, NEW equal \in BOOLEAN, OptionValue(n, text, equal)
  PROVE  /\ pc' \in {"scan", "rejected"}
         /\ rawValues' = rawValues \/ \E r : r.type # "command" /\ rawValues' = Append(rawValues, r)
  <1> DEFINE r1 == Raw("option", n.opt, argPos, text)
             r2 == [Raw("option", n.opt, argPos, <<>>) EXCEPT !.null = TRUE]
             r3 == Raw("option", n.opt, argPos + 1, args[argPos + 1])
  <1>1. r1.type = "option" /\ r2.type = "option" /\ r3.type = "option"
    BY DEF Raw
  <1> HIDE DEF r1, r2, r3
  <1>2. /\ pc' \in {"scan", "rejected"}
        /\ \/ rawValues' = rawValues \/ rawValues' = Append(rawValues, r1)
           \/ rawValues' = Append(rawValues, r2) \/ rawValues' = Append(rawValues, r3)
    BY DEF OptionValue, Push, NextWord, Goto, BadUsage, r1, r2, r3
  <1> QED
    BY <1>1, <1>2

LEMMA ScanStepGrows ==
  ASSUME \/ NextFrameWord \/ expandResponseFile \/ LeaveResponseFile \/ EndExpand \/ BeforeActions
         \/ ShortName \/ LongName \/ EndOfCluster \/ BareDashes \/ UnknownArg \/ OperandWord
  PROVE  ScanGrows
  <1>1. CASE NextFrameWord \/ expandResponseFile \/ LeaveResponseFile \/ EndExpand \/ BeforeActions
    BY <1>1 DEF NextFrameWord, expandResponseFile, LeaveResponseFile, EndExpand, BeforeActions,
                FileVars, setup, scanVars, valueVars, Goto, BadUsage, Reading, ScanGrows
  <1>2. CASE EndOfCluster \/ BareDashes \/ UnknownArg
    BY <1>2 DEF EndOfCluster, BareDashes, UnknownArg, ScanRest, setup, valueVars, Goto, Reading,
                InOptions, InPositional, Scanning, ScanGrows
  <1>3. CASE OperandWord
    <2> DEFINE r == Raw("operand", 0, argPos, arg)
    <2>1. r.type # "command"
      BY DEF Raw
    <2> HIDE DEF r
    <2>2. rawValues' = Append(rawValues, r) /\ pc = "scan" /\ pc' = "scan"
          /\ UNCHANGED <<program, opts, cmds, cmdMode, ndx, precmdValues, nextRaw, values>>
      BY <1>3 DEF OperandWord, Push, Goto, ScanRest, setup, valueVars, InPositional, Scanning, r
    <2> QED
      BY <2>1, <2>2 DEF ScanGrows, Reading
  <1>4. CASE ShortName
    <2> DEFINE n == ndx.short[arg[at]]
               r == Raw("option", n.opt, argPos, IF n.invert THEN <<"0">> ELSE <<"1">>)
    <2>1. pc = "scan" /\ UNCHANGED <<program, opts, cmds, cmdMode, ndx, precmdValues, nextRaw, values>>
      BY <1>4 DEF ShortName, ScanRest, setup, valueVars, InOptions, Scanning
    <2>2. \/ pc' = "rejected" /\ rawValues' = rawValues
          \/ rawValues' = Append(rawValues, r) /\ pc' = "scan"
          \/ OptionValue(n, SubSeq(arg, at + 1, Len(arg)), FALSE)
      BY <1>4 DEF ShortName, Push, Goto, BadUsage
    <2>3. r.type # "command"
      BY DEF Raw
    <2> HIDE DEF n, r
    <2>4. /\ pc' \in {"scan", "rejected"}
          /\ rawValues' = rawValues \/ \E q : q.type # "command" /\ rawValues' = Append(rawValues, q)
      BY <2>2, <2>3, OptionValueGrows
    <2> QED
      BY <2>1, <2>4 DEF ScanGrows, Reading
  <1>5. CASE LongName
    <2> DEFINE rest  == SubSeq(arg, at + 1, Len(arg))
               equal == "=" \in ToSet(rest)
               key   == IF equal THEN SubSeq(rest, 1, SelectInSeq(rest, LAMBDA s : s = "=") - 1)
                        ELSE rest
               text  == SubSeq(rest, Len(key) + 2, Len(rest))
               n     == ndx.long[key]
               val   == equal => text \in TrueWords
               r     == Raw("option", n.opt, argPos, IF n.invert = val THEN <<"0">> ELSE <<"1">>)
    <2>1. pc = "scan" /\ UNCHANGED <<program, opts, cmds, cmdMode, ndx, precmdValues, nextRaw, values>>
      BY <1>5 DEF LongName, ScanRest, setup, valueVars, InOptions, Scanning
    <2>2. \/ BadUsage /\ rawValues' = rawValues
          \/ Push(r) /\ Goto("scan")
          \/ OptionValue(n, text, equal)
      BY <1>5 DEF LongName
    <2>3. r.type # "command" /\ equal \in BOOLEAN
      BY DEF Raw
    <2> HIDE DEF n, r, text, key, equal, rest, val
    <2>4. /\ pc' \in {"scan", "rejected"}
          /\ rawValues' = rawValues \/ \E q : q.type # "command" /\ rawValues' = Append(rawValues, q)
      BY <2>2, <2>3, OptionValueGrows DEF Push, Goto, BadUsage
    <2> QED
      BY <2>1, <2>4 DEF ScanGrows, Reading
  <1> QED
    BY <1>1, <1>2, <1>3, <1>4, <1>5

LEMMA RawsGrow ==
  ASSUME RawInv, ScanGrows
  PROVE  /\ \A k \in DOMAIN rawValues : k \in DOMAIN rawValues' /\ rawValues'[k] = rawValues[k]
         /\ \A k \in DOMAIN rawValues' :
              rawValues'[k].type # "command" \/ k \in DOMAIN rawValues
  <1> DEFINE L == Len(rawValues)
  <1>1. IsSequence(rawValues) /\ L \in Nat /\ DOMAIN rawValues = 1 .. L
    BY SequenceFacts DEF RawInv
  <1>2. CASE rawValues' = rawValues
    BY <1>2
  <1>3. CASE \E r : r.type # "command" /\ rawValues' = Append(rawValues, r)
    <2>1. PICK r : r.type # "command" /\ rawValues' = Append(rawValues, r)
      BY <1>3
    <2> DEFINE rs == Append(rawValues, r)
    <2>2. /\ IsSequence(rs) /\ Len(rs) = L + 1 /\ rs[L + 1] = r
          /\ \A k \in 1 .. L : rs[k] = rawValues[k]
      BY <1>1, SequenceGrows
    <2>3. DOMAIN rs = 1 .. L + 1
      BY <2>2, SequenceFacts
    <2> HIDE DEF rs, L
    <2>4. \A k \in 1 .. L + 1 : k \in 1 .. L \/ k = L + 1
      BY <1>1
    <2>5. \A k \in 1 .. L : k \in 1 .. L + 1
      BY <1>1
    <2> QED
      BY <1>1, <2>1, <2>2, <2>3, <2>4, <2>5 DEF rs
  <1> QED
    BY <1>2, <1>3 DEF ScanGrows

\* assignOperands gives the values that are pending their operands in the order they come.
LEMMA AssignsByNumber ==
  ASSUME OptionsInv, RawInv, pc \in Reading,
         NEW A, A = AssignOperands(precmdValues + 1, numPos),
         NEW counts, counts = Matched(opts, ndx, numPos).counts, NEW k \in DOMAIN rawValues
  PROVE  /\ k \in Pending =>
              /\ A[k].opt = ndx.operands[OperandOf(counts, Number(Pending, k))].opt
              /\ A[k].text = rawValues[k].text /\ A[k].type = rawValues[k].type
              /\ A[k].pos = rawValues[k].pos
         /\ k \notin Pending => A[k] = rawValues[k]
  <1> DEFINE start == precmdValues + 1
             From(j) == Cardinality({i \in start .. j : rawValues[i].type = "operand"})
             Assign(c, j) ==
               IF j >= start /\ rawValues[j].type = "operand"
               THEN [rawValues[j] EXCEPT !.opt = ndx.operands[OperandOf(c, From(j))].opt]
               ELSE rawValues[j]
             All(c) == [j \in DOMAIN rawValues |-> Assign(c, j)]
  <1>1. /\ Len(rawValues) \in Nat /\ DOMAIN rawValues = 1 .. Len(rawValues)
        /\ precmdValues \in Nat
    BY SequenceFacts DEF RawInv
  <1>2. A = All(counts)
    <2>1. {All(c) : c \in {counts}} = {All(counts)}
      OBVIOUS
    <2>2. A = The({All(c) : c \in {counts}})
      BY DEF AssignOperands
    <2> HIDE DEF All
    <2> QED
      BY <2>1, <2>2, TheOne
  <1>3. A[k] = Assign(counts, k)
    BY <1>2
  <1>4. k \in Pending <=> k >= start /\ rawValues[k].type = "operand"
    BY <1>1 DEF Pending
  <1>5. k \in Pending => From(k) = Number(Pending, k)
    <2> SUFFICES ASSUME k \in Pending
                 PROVE  From(k) = Number(Pending, k)
      OBVIOUS
    <2>1. k \in Nat /\ k <= Len(rawValues)
      BY <1>1
    <2>2. \A i \in start .. k : i \in start .. Len(rawValues) /\ i <= k
      BY <1>1, <2>1
    <2>3. \A i \in start .. Len(rawValues) : i <= k => i \in start .. k
      BY <1>1, <2>1
    <2>4. {i \in start .. k : rawValues[i].type = "operand"} = {i \in Pending : i <= k}
      BY <2>2, <2>3 DEF Pending
    <2> QED
      BY <2>4 DEF Number
  <1> HIDE DEF From
  <1>6. CASE k \in Pending
    <2> DEFINE opt == ndx.operands[OperandOf(counts, From(k))].opt
    <2>1. A[k] = [rawValues[k] EXCEPT !.opt = opt]
      BY <1>3, <1>4, <1>6
    <2>2. IsRaw(rawValues[k])
      BY DEF RawInv
    <2>3. opt = ndx.operands[OperandOf(counts, Number(Pending, k))].opt
      BY <1>5, <1>6
    <2> HIDE DEF opt
    <2>4. A[k].opt = opt /\ A[k].text = rawValues[k].text /\ A[k].type = rawValues[k].type
          /\ A[k].pos = rawValues[k].pos
      BY <2>1, <2>2 DEF IsRaw
    <2> QED
      BY <1>6, <2>3, <2>4
  <1>7. CASE k \notin Pending
    BY <1>3, <1>4, <1>7
  <1> QED
    BY <1>6, <1>7

\* The raw values up to the command stay as they are.
LEMMA ScanKeepsMatch ==
  ASSUME RawInv, MatchInv, ScanGrows
  PROVE  MatchInv'
  <1>1. /\ \A k \in DOMAIN rawValues : k \in DOMAIN rawValues' /\ rawValues'[k] = rawValues[k]
        /\ \A k \in DOMAIN rawValues' :
             rawValues'[k].type # "command" \/ k \in DOMAIN rawValues
    BY RawsGrow
  <1>2. pc \in Matching /\ pc' \notin {"values", "after", "accepted"}
    BY DEF ScanGrows, Reading, Matching
  <1>3. UNCHANGED <<opts, cmds, cmdMode, ndx, precmdValues>>
    BY DEF ScanGrows
  <1> QED
    BY <1>1, <1>2, <1>3 DEF MatchInv

LEMMA CommandKeepsMatch ==
  ASSUME OptionsInv, WordsInv, PlaceInv, RawInv, ModeInv, MatchInv, CommandWord
  PROVE  MatchInv'
  <1> DEFINE A == AssignOperands(1, numPos)
             r == Raw("command", 0, 0, arg)
             rs == Append(A, r)
             L == Len(rawValues)
  <1>1. /\ pc = "scan" /\ cmdMode = "pending" /\ numPos = ndx.minOprs
        /\ rawValues' = rs /\ precmdValues' = Len(rs)
        /\ UNCHANGED <<opts, cmds>>
    BY DEF CommandWord, ScanRest, setup, InPositional, Scanning
  <1>2. r.type = "command" /\ r.text = arg
    BY DEF Raw
  <1> HIDE DEF r
  <1>3. pc \in Reading /\ pc \in Matching
    BY <1>1 DEF Reading, Matching
  <1>4. precmdValues + 1 = 1 /\ numPos \in Nat
    BY <1>1, <1>3 DEF RawInv, PlaceInv
  <1>5. Matched(opts, ndx, numPos).used >= numPos
    <2>1. Matched(opts, ndx, numPos).used = numPos
      BY <1>1, <1>4, MatchedIsDeal DEF OptionsInv
    <2> QED
      BY <1>4, <2>1
  <1>6. IsAssigned(A)
    BY <1>3, <1>4, <1>5, OperandsAreAssigned
  <1>7. L \in Nat /\ DOMAIN rawValues = 1 .. L
    BY SequenceFacts DEF RawInv
  <1> HIDE DEF A
  <1>8. /\ IsSequence(rs) /\ Len(rs) = L + 1 /\ rs[L + 1] = r
        /\ \A k \in 1 .. L : rs[k] = A[k]
    <2>1. IsSequence(A) /\ Len(A) = L
      BY <1>6 DEF IsAssigned
    <2> HIDE DEF L
    <2> QED
      BY <2>1, SequenceGrows
  <1>9. DOMAIN rs = 1 .. L + 1 /\ L + 1 \in 1 .. L + 1 /\ \A k \in 1 .. L + 1 : k \in 1 .. L \/ k = L + 1
    <2>1. DOMAIN rs = 1 .. L + 1
      BY <1>8, SequenceFacts
    <2> HIDE DEF rs, L
    <2> QED
      BY <1>7, <2>1
  <1>10. \A k \in 1 .. L : rawValues[k].type # "command"
    BY <1>1, <1>3, <1>7 DEF MatchInv
  <1>11. \A k \in 1 .. L : rs[k].type # "command"
    BY <1>6, <1>7, <1>8, <1>10 DEF IsAssigned
  <1> HIDE DEF rs, L
  <1>12. \/ pc' = "rejected"
         \/ /\ arg \in DOMAIN cmds /\ cmdMode' = "found" /\ ndx' = Index(opts, arg) /\ pc' = "scan"
         \/ /\ arg \notin DOMAIN cmds /\ cmdMode' = "unknown" /\ ndx' = ndx /\ pc' = "scan"
    BY DEF CommandWord, Goto, BadUsage
  <1>13. ndx = Index(opts, <<>>)
    BY <1>1, <1>3 DEF MatchInv
  <1>14. precmdValues' = L + 1 /\ rawValues'[L + 1].type = "command" /\ rawValues'[L + 1].text = arg
         /\ L + 1 \in DOMAIN rawValues'
         /\ \A k \in DOMAIN rawValues' : rawValues'[k].type = "command" => k = L + 1
    BY <1>1, <1>2, <1>8, <1>9, <1>11
  <1> QED
    BY <1>1, <1>12, <1>13, <1>14 DEF MatchInv, Matching

LEMMA AssignKeepsMatch ==
  ASSUME OptionsInv, WordsInv, PlaceInv, RawInv, ModeInv, MatchInv, AssignRest
  PROVE  MatchInv'
  <1> DEFINE A == AssignOperands(precmdValues + 1, numPos)
  <1>1. pc = "scan" /\ UNCHANGED <<opts, cmds, cmdMode, ndx, precmdValues, nextRaw>>
    BY DEF AssignRest, setup, valueVars
  <1>2. pc \in Reading /\ pc \in Matching
    BY <1>1 DEF Reading, Matching
  <1>3. \/ pc' \in Stopped
        \/ /\ pc' = "values" /\ command' = <<>>
           /\ rawValues' = rawValues \/ (rawValues' = A /\ ~(Matched(opts, ndx, numPos).used < numPos))
    BY DEF AssignRest, BadUsage, BadValue, Abort, Goto, Stopped
  <1>4. CASE pc' \in Stopped
    BY <1>4 DEF MatchInv, Matching, Stopped
  <1>5. CASE pc' = "values" /\ command' = <<>>
             /\ (rawValues' = rawValues \/ (rawValues' = A /\ ~(Matched(opts, ndx, numPos).used < numPos)))
    <2>1. DOMAIN rawValues' = DOMAIN rawValues /\ \A k \in DOMAIN rawValues :
            /\ rawValues'[k].type = rawValues[k].type /\ rawValues'[k].text = rawValues[k].text
      <3>1. CASE rawValues' = rawValues
        BY <3>1
      <3>2. CASE rawValues' = A /\ ~(Matched(opts, ndx, numPos).used < numPos)
        <4>1. Matched(opts, ndx, numPos).used >= numPos
          <5> DEFINE used == Matched(opts, ndx, numPos).used
          <5>1. numPos \in Nat
            BY DEF PlaceInv
          <5>2. used \in 0 .. numPos
            BY <5>1, MatchedIsDeal DEF OptionsInv, Deals
          <5>3. ~(used < numPos)
            BY <3>2
          <5> HIDE DEF used
          <5>4. used >= numPos
            BY <5>1, <5>2, <5>3
          <5> QED
            BY <5>4 DEF used
        <4>2. IsAssigned(A)
          BY <1>2, <4>1, OperandsAreAssigned
        <4>3. DOMAIN A = DOMAIN rawValues
          <5>1. IsSequence(A) /\ IsSequence(rawValues) /\ Len(A) = Len(rawValues)
            BY <4>2 DEF IsAssigned, RawInv
          <5> QED
            BY <5>1, SequenceFacts
        <4>4. \A k \in DOMAIN rawValues : A[k].text = rawValues[k].text /\ A[k].type = rawValues[k].type
          BY <1>2, AssignsByNumber
        <4> HIDE DEF A
        <4> QED
          BY <3>2, <4>3, <4>4
      <3> QED
        BY <1>5, <3>1, <3>2
    <2>2. nextRaw' = 1
      BY <1>1, <1>2 DEF PlaceInv, Reading
    <2>3. cmdMode \in {"found", "unknown"} => ~(nextRaw' > precmdValues')
      <3>1. cmdMode \in {"found", "unknown"} => precmdValues \in Nat /\ precmdValues >= 1
        <4>1. Len(rawValues) \in Nat /\ DOMAIN rawValues = 1 .. Len(rawValues)
          BY CountsAre
        <4> QED
          BY <1>2, <4>1 DEF MatchInv
      <3> QED
        BY <1>1, <2>2, <3>1
    <2> QED
      BY <1>1, <1>2, <1>5, <2>1, <2>3 DEF MatchInv
  <1> QED
    BY <1>3, <1>4, <1>5

\* The command is known once its raw value was parsed.
LEMMA ParseValueKeepsMatch ==
  ASSUME WordsInv, PlaceInv, RawInv, ModeInv, MatchInv, ParseValue
  PROVE  MatchInv'
  <1>1. /\ pc = "values" /\ nextRaw <= Len(rawValues) /\ nextRaw' = nextRaw + 1
        /\ pc' \in {"values"} \cup Stopped
        /\ UNCHANGED <<opts, cmds, cmdMode, ndx, precmdValues, rawValues>>
    BY DEF ParseValue, ValueRest, setup, scanVars, Goto, BadUsage, BadValue, Abort, ExitParse, Stopped
  <1>2. command' = IF rawValues[nextRaw].type = "command" THEN rawValues[nextRaw].text ELSE command
    BY DEF ParseValue
  <1>3. nextRaw \in DOMAIN rawValues /\ nextRaw \in Nat /\ precmdValues \in Nat
    BY <1>1, CountsAre
  <1>4. nextRaw' > precmdValues <=> nextRaw > precmdValues \/ nextRaw = precmdValues
    BY <1>1, <1>3
  <1>5. nextRaw = precmdValues => ~(nextRaw > precmdValues)
    BY <1>3
  <1>6. pc \in Matching
    BY <1>1 DEF Matching
  <1>7. CASE cmdMode \in {"none", "pending"}
    <2>1. command = <<>> /\ rawValues[nextRaw].type # "command"
      BY <1>1, <1>3, <1>6, <1>7 DEF MatchInv
    <2> QED
      BY <1>1, <1>2, <1>6, <1>7, <2>1 DEF MatchInv
  <1>8. CASE cmdMode \in {"found", "unknown"}
    <2>1. rawValues[nextRaw].type = "command" <=> nextRaw = precmdValues
      BY <1>3, <1>6, <1>8 DEF MatchInv
    <2>2. command = IF nextRaw > precmdValues THEN rawValues[precmdValues].text ELSE <<>>
      BY <1>1, <1>6, <1>8 DEF MatchInv
    <2>3. command' = IF nextRaw' > precmdValues THEN rawValues[precmdValues].text ELSE <<>>
      BY <1>2, <1>4, <1>5, <2>1, <2>2
    <2> QED
      BY <1>1, <1>6, <1>8, <2>3 DEF MatchInv
  <1> QED
    BY <1>7, <1>8 DEF ModeInv

\* The steps that leave a parse, or come after it.
After == OpenFiles \/ InstallAction \/ ReturnExitCode \/ RunAction \/ defCmdAction

LEMMA AfterIsOut ==
  ASSUME After
  PROVE  pc' \notin Matching
  BY DEF After, OpenFiles, InstallAction, ReturnExitCode, RunAction, defCmdAction, Goto, Matching

LEMMA MatchKept ==
  ASSUME OptionsInv, WordsInv, PlaceInv, RawInv, ModeInv, MatchInv, [MainNext]_allVars
  PROVE  MatchInv'
  <1>1. CASE FirstParse \/ SecondParse
    <2>1. StartParse(argv)
      BY <1>1 DEF FirstParse, SecondParse
    <2>2. cmdMode' \in {"none", "pending"}
      BY <2>1, StartKeepsMode
    <2>3. /\ precmdValues' = 0 /\ rawValues' = <<>> /\ pc' \in {"expand", "before"}
          /\ ndx' = Index(opts', <<>>)
      BY <2>1 DEF StartParse, touchAllCmds
    <2>4. DOMAIN rawValues' = {}
      BY <2>3, SequenceEmpty
    <2> QED
      BY <2>2, <2>3, <2>4 DEF MatchInv
  <1>2. CASE ParseStep
    <2>1. CASE \/ NextFrameWord \/ expandResponseFile \/ LeaveResponseFile \/ EndExpand \/ BeforeActions
               \/ ShortName \/ LongName \/ EndOfCluster \/ BareDashes \/ UnknownArg \/ OperandWord
      BY <2>1, ScanStepGrows, ScanKeepsMatch
    <2>2. CASE CommandWord
      BY <2>2, CommandKeepsMatch
    <2>3. CASE AssignRest
      BY <2>3, AssignKeepsMatch
    <2>4. CASE ParseValue
      BY <2>4, ParseValueKeepsMatch
    <2>5. CASE CheckMinimums \/ AfterActions
      <3>1. /\ pc \in {"values", "after"}
            /\ UNCHANGED <<opts, cmds, cmdMode, ndx, precmdValues, rawValues, nextRaw, command>>
        BY <2>5 DEF CheckMinimums, AfterActions, ValueRest, setup, scanVars, valueVars
      <3> QED
        BY <3>1 DEF MatchInv, Matching
    <2> QED
      BY <1>2, <2>1, <2>2, <2>3, <2>4, <2>5 DEF ParseStep
  <1>3. CASE After
    BY <1>3, AfterIsOut DEF MatchInv
  <1>4. CASE ChangeFiles \/ UNCHANGED allVars
    <2>1. UNCHANGED <<pc, opts, cmds, cmdMode, ndx, precmdValues, rawValues, nextRaw, command>>
      BY <1>4 DEF ChangeFiles, allVars, parseVars, setup, scanVars, valueVars
    <2> QED
      BY <2>1 DEF MatchInv
  <1> QED
    BY <1>1, <1>2, <1>3, <1>4 DEF MainNext, MainStep, After

\* Each operand of the top level takes its minimum of the values before the command.
LEMMA CommandMeetsMinimums ==
  ASSUME OptionsInv, WordsInv, PlaceInv, RawInv, ModeInv, MatchInv, CommandWord
  PROVE  TopHasMinimums(opts, rawValues', precmdValues')
  <1> DEFINE A == AssignOperands(1, numPos)
             r == Raw("command", 0, 0, arg)
             rs == Append(A, r)
             L == Len(rawValues)
             m == Matched(opts, ndx, numPos)
             N == Len(ndx.operands)
  <1>1. /\ pc = "scan" /\ cmdMode = "pending" /\ numPos = ndx.minOprs
        /\ rawValues' = rs /\ precmdValues' = Len(rs)
    BY DEF CommandWord, InPositional, Scanning
  <1>2. pc \in Reading /\ pc \in Matching
    BY <1>1 DEF Reading, Matching
  <1>3. precmdValues + 1 = 1 /\ numPos \in Nat /\ Cardinality(Pending) = numPos
    BY <1>1, <1>2 DEF RawInv, PlaceInv
  <1>4. OptsOK(opts) /\ ndx \in Indexes(opts)
    BY DEF OptionsInv
  <1>5. /\ m \in Deals(N, numPos) /\ m.used = numPos
        /\ \A k \in 1 .. N : m.counts[k] >= Needs(opts, ndx.operands[k])
    BY <1>1, <1>3, <1>4, MatchedIsDeal
  <1>6. m.counts \in [1 .. N -> Nat] /\ SumsTo(m.counts, N, numPos) /\ N \in Nat
        /\ DOMAIN ndx.operands = 1 .. N /\ ndx.operands \in Seq(OperandNames(opts))
    BY <1>4, <1>5 DEF Deals, Indexes
  <1>7. IsAssigned(A)
    <2>1. m.used >= numPos
      BY <1>3, <1>5
    <2> QED
      BY <1>2, <1>3, <2>1, OperandsAreAssigned
  <1>8. L \in Nat /\ DOMAIN rawValues = 1 .. L /\ precmdValues \in Nat
    BY SequenceFacts DEF RawInv
  <1>9. \A k \in Pending : k \in 1 .. L /\ rawValues[k].type = "operand"
    BY <1>3 DEF Pending
  <1>10. \A k \in Pending : A[k].opt = ndx.operands[OperandOf(m.counts, Number(Pending, k))].opt
                            /\ A[k].type = "operand"
    BY <1>2, <1>3, <1>8, <1>9, AssignsByNumber
  <1>11. IsFiniteSet(Pending) /\ Pending \subseteq Nat
    <2>1. IsFiniteSet(Pending)
      BY <1>8, PendingIsFinite
    <2> QED
      BY <1>9, <2>1
  <1> HIDE DEF A, m, N
  <1>12. Len(rs) = L + 1 /\ \A k \in 1 .. L : rs[k] = A[k]
    <2>1. IsSequence(A) /\ Len(A) = L
      BY <1>7 DEF IsAssigned
    <2> HIDE DEF L
    <2> QED
      BY <2>1, SequenceGrows
  <1> HIDE DEF rs, L
  <1>13. ndx = Index(opts, <<>>)
    BY <1>1, <1>2 DEF MatchInv
  <1>14. FixedOperands(opts)
    BY <1>1 DEF ModeInv
  <1> SUFFICES ASSUME NEW j \in DOMAIN ndx.operands
               PROVE  Cardinality(OperandsTo(rs, L + 1, ndx.operands[j].opt)) >= opts[ndx.operands[j].opt].min
    BY <1>1, <1>12, <1>13 DEF TopHasMinimums
  <1> DEFINE n == ndx.operands[j]
             P == PlacesOf(Pending, m.counts, j)
             B == {k \in 1 .. L + 1 : rs[k].type = "operand" /\ rs[k].opt = n.opt}
  <1>15. OperandsTo(rs, L + 1, n.opt) = B
    BY DEF OperandsTo
  <1>16. Cardinality(P) = m.counts[j]
    <2>1. SumsTo(m.counts, N, Cardinality(Pending)) /\ j \in 1 .. N
      BY <1>3, <1>6
    <2> QED
      BY <1>6, <1>11, <2>1, EachGetsItsCount
  <1>17. ~n.optional
    BY <1>4, <1>13, <1>14, OperandsOfCommand
  <1>18. m.counts[j] >= opts[n.opt].min /\ m.counts[j] \in Nat /\ opts[n.opt].min \in Nat
    <2>1. Needs(opts, n) = opts[n.opt].min
      BY <1>17 DEF Needs
    <2>2. n \in OperandNames(opts)
      BY <1>6
    <2>3. opts[n.opt].min \in Nat
      BY <1>4, <2>2 DEF OperandNames, Names, OptsOK
    <2> QED
      BY <1>5, <1>6, <2>1, <2>3
  <1>19. P \subseteq B
    <2> SUFFICES ASSUME NEW k \in P
                 PROVE  k \in B
      OBVIOUS
    <2>1. k \in Pending /\ OperandOf(m.counts, Number(Pending, k)) = j
      BY DEF PlacesOf
    <2>2. k \in 1 .. L /\ A[k].opt = n.opt /\ A[k].type = "operand"
      BY <1>9, <1>10, <2>1
    <2>3. rs[k] = A[k] /\ k \in 1 .. L + 1
      BY <1>8, <1>12, <2>2 DEF L
    <2> QED
      BY <2>2, <2>3
  <1>20. IsFiniteSet(B)
    <2>1. IsFiniteSet(1 .. L + 1)
      BY <1>8, FS_Interval DEF L
    <2> QED
      BY <2>1, FS_Subset
  <1> HIDE DEF P, B
  <1>21. Cardinality(P) <= Cardinality(B) /\ Cardinality(B) \in Nat
    BY <1>19, <1>20, FS_Subset, FS_CardinalityType
  <1>22. Cardinality(B) >= opts[n.opt].min
    BY <1>16, <1>18, <1>21
  <1> QED
    BY <1>15, <1>22

\* Nothing else changes what comes before the command.
LEMMA BeforeStays ==
  ASSUME TopInv, MatchInv,
         pc' \in Matching => /\ pc \in Matching /\ UNCHANGED <<opts, cmdMode, precmdValues>>
                             /\ cmdMode = "found" => \A k \in 1 .. precmdValues : rawValues'[k] = rawValues[k]
  PROVE  TopInv'
  <1> SUFFICES ASSUME pc' \in Matching, cmdMode' = "found"
               PROVE  TopHasMinimums(opts', rawValues', precmdValues')
    BY DEF TopInv
  <1>1. /\ pc \in Matching /\ opts' = opts /\ cmdMode = "found" /\ precmdValues' = precmdValues
        /\ \A k \in 1 .. precmdValues : rawValues'[k] = rawValues[k]
    OBVIOUS
  <1>2. \A i : OperandsTo(rawValues', precmdValues, i) = OperandsTo(rawValues, precmdValues, i)
    BY <1>1 DEF OperandsTo
  <1>3. TopHasMinimums(opts, rawValues, precmdValues)
    BY <1>1 DEF TopInv
  <1> QED
    BY <1>1, <1>2, <1>3 DEF TopHasMinimums

LEMMA TopKept ==
  ASSUME OptionsInv, WordsInv, PlaceInv, RawInv, ModeInv, MatchInv, TopInv, [MainNext]_allVars
  PROVE  TopInv'
  <1>0. cmdMode = "found" /\ pc \in Matching => \A k \in 1 .. precmdValues : k \in DOMAIN rawValues
    <2>1. Len(rawValues) \in Nat /\ DOMAIN rawValues = 1 .. Len(rawValues) /\ precmdValues \in Nat
          /\ precmdValues <= Len(rawValues)
      BY CountsAre
    <2> QED
      BY <2>1
  <1>1. CASE FirstParse \/ SecondParse
    <2>1. cmdMode' \in {"none", "pending"}
      BY <1>1, StartKeepsMode DEF FirstParse, SecondParse
    <2> QED
      BY <2>1 DEF TopInv
  <1>2. CASE ParseStep
    <2>1. CASE \/ NextFrameWord \/ expandResponseFile \/ LeaveResponseFile \/ EndExpand \/ BeforeActions
               \/ ShortName \/ LongName \/ EndOfCluster \/ BareDashes \/ UnknownArg \/ OperandWord
      <3>1. ScanGrows
        BY <2>1, ScanStepGrows
      <3>2. \A k \in DOMAIN rawValues : rawValues'[k] = rawValues[k]
        BY <3>1, RawsGrow
      <3>3. pc \in Matching /\ UNCHANGED <<opts, cmdMode, precmdValues>>
        BY <3>1 DEF ScanGrows, Reading, Matching
      <3> QED
        BY <1>0, <3>2, <3>3, BeforeStays
    <2>2. CASE CommandWord
      <3>1. opts' = opts
        BY <2>2 DEF CommandWord, ScanRest, setup
      <3> QED
        BY <2>2, <3>1, CommandMeetsMinimums DEF TopInv
    <2>3. CASE AssignRest
      <3> DEFINE A == AssignOperands(precmdValues + 1, numPos)
      <3>1. pc = "scan" /\ UNCHANGED <<opts, cmdMode, precmdValues>>
            /\ (rawValues' = rawValues \/ rawValues' = A)
        BY <2>3 DEF AssignRest, setup
      <3>2. pc \in Reading /\ pc \in Matching
        BY <3>1 DEF Reading, Matching
      <3>3. \A k \in DOMAIN rawValues : k \notin Pending => A[k] = rawValues[k]
        BY <3>2, AssignsByNumber
      <3> HIDE DEF A
      <3>4. \A k \in 1 .. precmdValues : k \notin Pending
        <4>1. precmdValues \in Nat
          BY CountsAre
        <4> QED
          BY <4>1 DEF Pending
      <3> QED
        BY <1>0, <3>1, <3>2, <3>3, <3>4, BeforeStays
    <2>4. CASE ParseValue \/ CheckMinimums \/ AfterActions
      <3>1. pc \in Matching /\ UNCHANGED <<opts, cmdMode, precmdValues, rawValues>>
        BY <2>4 DEF ParseValue, CheckMinimums, AfterActions, ValueRest, setup, scanVars, Matching
      <3> QED
        BY <3>1, BeforeStays
    <2> QED
      BY <1>2, <2>1, <2>2, <2>3, <2>4 DEF ParseStep
  <1>3. CASE After
    BY <1>3, AfterIsOut DEF TopInv
  <1>4. CASE ChangeFiles \/ UNCHANGED allVars
    <2>1. UNCHANGED <<pc, opts, cmdMode, precmdValues, rawValues>>
      BY <1>4 DEF ChangeFiles, allVars, parseVars, setup, scanVars
    <2> QED
      BY <2>1, BeforeStays
  <1> QED
    BY <1>1, <1>2, <1>3, <1>4 DEF MainNext, MainStep, After

\* The raw values of option i before the m-th.
ParsedOf(rs, m, i) == {k \in 1 .. m - 1 : rs[k].type # "command" /\ rs[k].opt = i}

\* An option has the values that were parsed, or the last of them.
HoldsParsed(o, vs, P) ==
  /\ IsSequence(vs)
  /\ o.vector => Len(vs) = Cardinality(P) /\ (o.max # -1 => Len(vs) <= o.max)
  /\ ~o.vector /\ P # {} => vs # <<>>

ValuesInv ==
  pc \in Matching =>
    /\ DOMAIN values = DOMAIN opts
    /\ \A i \in DOMAIN opts : HoldsParsed(opts[i], values[i], ParsedOf(rawValues, nextRaw, i))
    /\ pc \in {"after", "accepted"} => nextRaw = Len(rawValues) + 1

LEMMA NothingParsed ==
  ASSUME NEW o, o.max = -1 \/ o.max \in Nat, NEW rs, NEW i
  PROVE  HoldsParsed(o, <<>>, ParsedOf(rs, 1, i)) /\ ParsedOf(rs, 1, i) = {}
  <1>1. ParsedOf(rs, 1, i) = {}
    <2>1. 1 .. 1 - 1 = {}
      OBVIOUS
    <2> QED
      BY <2>1 DEF ParsedOf
  <1>2. IsSequence(<<>>) /\ Len(<<>>) = 0 /\ Cardinality({}) = 0
    BY SequenceEmpty, FS_EmptySet
  <1>3. o.max # -1 => 0 <= o.max
    OBVIOUS
  <1> QED
    BY <1>1, <1>2, <1>3 DEF HoldsParsed

LEMMA ParsedMore ==
  ASSUME NEW o, o.max = -1 \/ o.max \in Nat, NEW vs, NEW P, IsFiniteSet(P), HoldsParsed(o, vs, P),
         NEW k, k \notin P, NEW v, ~(o.vector /\ Len(vs) = o.max)
  PROVE  HoldsParsed(o, IF o.vector THEN Append(vs, v) ELSE <<v>>, P \cup {k})
  <1>1. CASE o.vector
    <2> DEFINE more == Append(vs, v)
               n == Len(vs)
               max == o.max
    <2>1. IsSequence(more) /\ Len(more) = n + 1 /\ n \in Nat
      BY SequenceGrows, SequenceFacts DEF HoldsParsed
    <2>2. Cardinality(P \cup {k}) = n + 1
      BY <1>1, FS_AddElement DEF HoldsParsed
    <2>3. (max # -1 => n <= max) /\ n # max /\ (max = -1 \/ max \in Nat)
      BY <1>1 DEF HoldsParsed
    <2> HIDE DEF max
    <2>4. max # -1 => n + 1 <= max
      BY <2>1, <2>3
    <2> HIDE DEF n, more
    <2>5. HoldsParsed(o, more, P \cup {k})
      BY <1>1, <2>1, <2>2, <2>4 DEF HoldsParsed, max
    <2> QED
      BY <1>1, <2>5 DEF more
  <1>2. CASE ~o.vector
    <2>1. IsSequence(<<v>>) /\ Len(<<v>>) = 1
      BY SequenceOne
    <2>2. <<v>> # <<>>
      OBVIOUS
    <2> QED
      BY <1>2, <2>1, <2>2 DEF HoldsParsed
  <1> QED
    BY <1>1, <1>2

LEMMA ParseValueKeepsValues ==
  ASSUME OptionsInv, WordsInv, PlaceInv, RawInv, ValuesInv, ParseValue
  PROVE  ValuesInv'
  <1> DEFINE r == rawValues[nextRaw]
             i == r.opt
             P(j) == ParsedOf(rawValues, nextRaw, j)
             v == [text |-> IF r.null THEN opts[i].implicit ELSE r.text, pos |-> r.pos]
  <1>1. /\ pc = "values" /\ nextRaw <= Len(rawValues) /\ nextRaw' = nextRaw + 1
        /\ pc' \in {"values"} \cup Stopped /\ UNCHANGED <<opts, rawValues>>
    BY DEF ParseValue, ValueRest, setup, scanVars, Goto, BadUsage, BadValue, Abort, ExitParse, Stopped
  <1>2. pc' = "values" =>
          \/ r.type = "command" /\ values' = values
          \/ r.type # "command" /\ ~Full(i) /\ values' = [values EXCEPT ![i] = Assigned(i, v)]
    BY DEF ParseValue, Goto, BadUsage, BadValue, Abort
  <1>3. nextRaw \in DOMAIN rawValues /\ nextRaw \in Nat /\ nextRaw >= 1
    BY <1>1, CountsAre
  <1>4. r.type # "command" => i \in DOMAIN opts
    BY <1>1, <1>3 DEF RawInv, IsRaw
  <1>5. DOMAIN values = DOMAIN opts /\ \A j \in DOMAIN opts : HoldsParsed(opts[j], values[j], P(j))
    BY <1>1 DEF ValuesInv, Matching
  <1> HIDE DEF r, v
  <1>6. \A j : ParsedOf(rawValues, nextRaw + 1, j) =
               IF r.type # "command" /\ i = j THEN P(j) \cup {nextRaw} ELSE P(j)
    <2> TAKE j
    <2>1. \A k : k \in 1 .. (nextRaw + 1) - 1 <=> k \in 1 .. nextRaw - 1 \/ k = nextRaw
      BY <1>3
    <2>2. nextRaw \notin 1 .. nextRaw - 1
      BY <1>3
    <2> QED
      BY <2>1, <2>2 DEF ParsedOf, r
  <1>7. \A j : IsFiniteSet(P(j)) /\ nextRaw \notin P(j)
    <2> TAKE j
    <2>1. IsFiniteSet(1 .. nextRaw - 1) /\ nextRaw \notin 1 .. nextRaw - 1
      BY <1>3, FS_Interval
    <2> QED
      BY <2>1, FS_Subset DEF ParsedOf
  <1> HIDE DEF P
  <1>8. CASE r.type = "command" /\ values' = values /\ pc' = "values"
    BY <1>1, <1>5, <1>6, <1>8 DEF ValuesInv, P
  <1>9. CASE r.type # "command" /\ ~Full(i) /\ values' = [values EXCEPT ![i] = Assigned(i, v)] /\ pc' = "values"
    <2>1. DOMAIN values' = DOMAIN opts /\ values'[i] = Assigned(i, v)
          /\ \A j \in DOMAIN opts : j # i => values'[j] = values[j]
      BY <1>4, <1>5, <1>9
    <2>2. \A j \in DOMAIN opts : j # i => HoldsParsed(opts[j], values'[j], ParsedOf(rawValues, nextRaw + 1, j))
      BY <1>5, <1>6, <2>1
    <2>3. HoldsParsed(opts[i], values'[i], ParsedOf(rawValues, nextRaw + 1, i))
      <3> DEFINE o == opts[i]
                 vs == values[i]
      <3>1. o.max = -1 \/ o.max \in Nat
        BY <1>4, <1>9 DEF OptionsInv, OptsOK
      <3>2. HoldsParsed(o, vs, P(i)) /\ IsFiniteSet(P(i)) /\ nextRaw \notin P(i)
        BY <1>4, <1>5, <1>7, <1>9
      <3>3. ~(o.vector /\ Len(vs) = o.max)
        BY <1>9 DEF Full
      <3> HIDE DEF o, vs
      <3>4. HoldsParsed(o, IF o.vector THEN Append(vs, v) ELSE <<v>>, P(i) \cup {nextRaw})
        BY <3>1, <3>2, <3>3, ParsedMore
      <3> QED
        BY <1>6, <1>9, <2>1, <3>4 DEF Assigned, o, vs
    <2> QED
      BY <1>1, <1>9, <2>1, <2>2, <2>3 DEF ValuesInv
  <1>10. CASE pc' \in Stopped
    BY <1>10 DEF ValuesInv, Matching, Stopped
  <1> QED
    BY <1>1, <1>2, <1>8, <1>9, <1>10

LEMMA ValuesKept ==
  ASSUME OptionsInv, WordsInv, PlaceInv, RawInv, ValuesInv, [MainNext]_allVars
  PROVE  ValuesInv'
  <1>1. CASE FirstParse \/ SecondParse
    <2>1. StartParse(argv)
      BY <1>1 DEF FirstParse, SecondParse
    <2>2. /\ opts' = TouchedOpts /\ values' = [i \in DOMAIN TouchedOpts |-> <<>>] /\ nextRaw' = 1
          /\ pc' \in {"expand", "before"}
      BY <2>1 DEF StartParse, touchAllCmds, ResetOpts
    <2>3. OptsOK(opts')
      BY <2>1, TouchKeepsHelp DEF StartParse, OptionsInv
    <2>4. \A i \in DOMAIN opts' : values'[i] = <<>> /\ (opts'[i].max = -1 \/ opts'[i].max \in Nat)
      BY <2>2, <2>3 DEF OptsOK
    <2>5. \A i \in DOMAIN opts' : HoldsParsed(opts'[i], values'[i], ParsedOf(rawValues', 1, i))
      BY <2>4, NothingParsed
    <2> QED
      BY <2>2, <2>5 DEF ValuesInv
  <1>2. CASE ParseStep
    <2>1. CASE ParseValue
      BY <2>1, ParseValueKeepsValues
    <2>2. CASE CheckMinimums \/ AfterActions
      <3>1. /\ pc \in {"values", "after"} /\ UNCHANGED <<opts, rawValues, nextRaw, values>>
            /\ pc = "values" => nextRaw > Len(rawValues)
        BY <2>2 DEF CheckMinimums, AfterActions, ValueRest, setup, scanVars, valueVars
      <3>2. nextRaw \in Nat /\ Len(rawValues) \in Nat /\ nextRaw <= Len(rawValues) + 1
        BY CountsAre
      <3>3. nextRaw > Len(rawValues) => nextRaw = Len(rawValues) + 1
        BY <3>2
      <3> QED
        BY <3>1, <3>3 DEF ValuesInv, Matching
    <2>3. CASE \/ NextFrameWord \/ expandResponseFile \/ LeaveResponseFile \/ EndExpand \/ BeforeActions
               \/ ShortName \/ LongName \/ EndOfCluster \/ BareDashes \/ UnknownArg \/ OperandWord
               \/ CommandWord \/ AssignRest
      <3>1. /\ pc \in Reading /\ pc' \notin {"after", "accepted"} /\ UNCHANGED <<opts, nextRaw, values>>
        <4>1. CASE \/ NextFrameWord \/ expandResponseFile \/ LeaveResponseFile \/ EndExpand \/ BeforeActions
                   \/ ShortName \/ LongName \/ EndOfCluster \/ BareDashes \/ UnknownArg \/ OperandWord
          BY <4>1, ScanStepGrows DEF ScanGrows, Reading
        <4>2. CASE CommandWord \/ AssignRest
          BY <4>2 DEF CommandWord, AssignRest, ScanRest, setup, valueVars, Goto, BadUsage,
                      BadValue, Abort, InPositional, Scanning, Reading
        <4> QED
          BY <2>3, <4>1, <4>2
      <3>2. nextRaw = 1
        BY <3>1 DEF PlaceInv, Reading
      <3>3. \A i : ParsedOf(rawValues, 1, i) = {} /\ ParsedOf(rawValues', 1, i) = {}
        <4>1. 1 .. 1 - 1 = {}
          OBVIOUS
        <4> QED
          BY <4>1 DEF ParsedOf
      <3>4. pc \in Matching
        BY <3>1 DEF Reading, Matching
      <3> QED
        BY <3>1, <3>2, <3>3, <3>4 DEF ValuesInv
    <2> QED
      BY <1>2, <2>1, <2>2, <2>3 DEF ParseStep
  <1>3. CASE After
    BY <1>3, AfterIsOut DEF ValuesInv
  <1>4. CASE ChangeFiles \/ UNCHANGED allVars
    <2>1. UNCHANGED <<pc, opts, rawValues, nextRaw, values>>
      BY <1>4 DEF ChangeFiles, allVars, parseVars, setup, scanVars, valueVars
    <2> QED
      BY <2>1 DEF ValuesInv
  <1> QED
    BY <1>1, <1>2, <1>3, <1>4 DEF MainNext, MainStep, After

\* What was checked before a parse succeeds.
CheckedInv ==
  /\ pc \in {"after", "accepted"} => ~TooFew
  /\ pc = "accepted" =>
       \A i \in DOMAIN opts : opts[i].require /\ opts[i].command \in {<<>>, command} => Given(i)
  /\ pc \in Matching \cup {"start"} => parseExit = FALSE

LEMMA CheckedKept ==
  ASSUME CheckedInv, [MainNext]_allVars
  PROVE  CheckedInv'
  <1>1. CASE FirstParse \/ SecondParse
    BY <1>1 DEF FirstParse, SecondParse, StartParse, CheckedInv
  <1>2. CASE ParseStep
    <2>1. pc \in Parsing /\ Outcome
      BY <1>2, ParseOutcome
    <2>2. pc' \in Matching \cup {"start"} => parseExit' = FALSE
      <3>1. parseExit = FALSE
        BY <2>1 DEF CheckedInv, Parsing, Matching
      <3> QED
        BY <2>1, <3>1 DEF Outcome, exitVars, BadUsage, ExitParse, Abort, Matching
    <2>3. CASE CheckMinimums
      <3>1. UNCHANGED <<opts, ndx, values>> /\ (pc' = "after" => ~TooFew)
            /\ pc' # "accepted"
        BY <2>3 DEF CheckMinimums, ValueRest, setup, scanVars, valueVars, BadUsage, Goto
      <3>2. TooFew' <=> TooFew
        BY <3>1 DEF TooFew, Given, SizeOf
      <3> QED
        BY <2>2, <3>1, <3>2 DEF CheckedInv
    <2>4. CASE AfterActions
      <3>1. /\ UNCHANGED <<opts, ndx, values, command>> /\ pc = "after"
            /\ pc' = "accepted" =>
                 ~\E i \in DOMAIN opts : /\ opts[i].command \in {<<>>, command}
                                         /\ opts[i].require /\ ~Given(i)
        BY <2>4 DEF AfterActions, ValueRest, setup, scanVars, valueVars, BadUsage, Goto
      <3>2. TooFew' <=> TooFew
        BY <3>1 DEF TooFew, Given, SizeOf
      <3>3. ~TooFew
        BY <3>1 DEF CheckedInv
      <3>4. \A i : Given(i)' <=> Given(i)
        BY <3>1 DEF Given
      <3> QED
        BY <2>2, <3>1, <3>2, <3>3, <3>4 DEF CheckedInv, Given
    <2>5. CASE ~CheckMinimums /\ ~AfterActions
      <3>1. pc' \notin {"after", "accepted"}
        <4>1. CASE \/ NextFrameWord \/ expandResponseFile \/ LeaveResponseFile \/ EndExpand \/ BeforeActions
                   \/ ShortName \/ LongName \/ EndOfCluster \/ BareDashes \/ UnknownArg \/ OperandWord
          BY <4>1, ScanStepGrows DEF ScanGrows, Reading
        <4>2. CASE CommandWord \/ AssignRest \/ ParseValue
          BY <4>2 DEF CommandWord, AssignRest, ParseValue, Goto, BadUsage, BadValue, Abort, ExitParse
        <4> QED
          BY <1>2, <2>5, <4>1, <4>2 DEF ParseStep
      <3> QED
        BY <2>2, <3>1 DEF CheckedInv
    <2> QED
      BY <2>3, <2>4, <2>5
  <1>3. CASE After
    <2>1. pc' # "start"
      BY <1>3 DEF After, OpenFiles, InstallAction, ReturnExitCode, RunAction, defCmdAction, Goto
    <2> QED
      BY <1>3, <2>1, AfterIsOut DEF CheckedInv, Matching
  <1>4. CASE ChangeFiles \/ UNCHANGED allVars
    <2>1. UNCHANGED <<pc, opts, ndx, values, command, parseExit>>
      BY <1>4 DEF ChangeFiles, allVars, parseVars, setup, scanVars, valueVars, exitVars
    <2>2. TooFew' <=> TooFew
      BY <2>1 DEF TooFew, Given, SizeOf
    <2> QED
      BY <2>1, <2>2 DEF CheckedInv, Given
  <1> QED
    BY <1>1, <1>2, <1>3, <1>4 DEF MainNext, MainStep, After

\* What the checks find of an option that has its name in the index in use.
LEMMA NamedHasMinimum ==
  ASSUME CommandIInv, ValuesInv, CheckedInv, pc = "accepted",
         NEW i \in DOMAIN opts, NamedFirst(ndx, i), Given(i)
  PROVE  SizeOf(i) >= opts[i].min
  <1>1. OptsOK(opts)
    BY DEF CommandIInv, OptionsInv
  <1>2. HoldsParsed(opts[i], values[i], ParsedOf(rawValues, nextRaw, i))
    BY DEF ValuesInv, Matching
  <1>3. ~(SizeOf(i) < opts[i].min)
    BY DEF NamedFirst, CheckedInv, TooFew
  <1>4. opts[i].min \in Nat /\ SizeOf(i) \in Nat
    <2>1. IsSequence(values[i])
      BY <1>2 DEF HoldsParsed
    <2>2. Len(values[i]) \in Nat
      BY <2>1, SequenceFacts
    <2> QED
      BY <1>1, <2>2 DEF OptsOK, SizeOf
  <1> QED
    BY <1>3, <1>4

\* What the checks find of the operands in the index in use.
LEMMA CheckedHaveMinimum ==
  ASSUME CommandIInv, ValuesInv, CheckedInv, pc = "accepted",
         NEW k \in DOMAIN ndx.operands, ~ndx.operands[k].optional
  PROVE  /\ Given(ndx.operands[k].opt)
         /\ SizeOf(ndx.operands[k].opt) >= opts[ndx.operands[k].opt].min
  <1> DEFINE i == ndx.operands[k].opt
  <1>1. OptsOK(opts) /\ ndx \in Indexes(opts)
    BY DEF CommandIInv, OptionsInv
  <1>2. \A j \in DOMAIN opts : HoldsParsed(opts[j], values[j], ParsedOf(rawValues, nextRaw, j))
    BY DEF ValuesInv, Matching
  <1>3. Given(i) /\ ~(SizeOf(i) < opts[i].min)
    BY DEF CheckedInv, TooFew
  <1>4. i \in DOMAIN opts
    BY <1>1 DEF Indexes, OperandNames, Names
  <1> HIDE DEF i
  <1>5. opts[i].min \in Nat /\ SizeOf(i) \in Nat
    <2>1. IsSequence(values[i])
      BY <1>2, <1>4 DEF HoldsParsed
    <2>2. Len(values[i]) \in Nat
      BY <2>1, SequenceFacts
    <2> QED
      BY <1>1, <1>4, <2>2 DEF OptsOK, SizeOf
  <1>6. SizeOf(i) >= opts[i].min
    BY <1>3, <1>5
  <1> QED
    BY <1>3, <1>6 DEF i

LEMMA AcceptedLacksNothing ==
  ASSUME CommandIInv, ModeInv, MatchInv, TopInv, ValuesInv, CheckedInv
  PROVE  AcceptedIsComplete
  <1> SUFFICES ASSUME pc = "accepted"
               PROVE  AcceptedIsComplete
    BY DEF AcceptedIsComplete
  <1>1. pc \in Matching
    BY DEF Matching
  <1>2. OptsOK(opts) /\ ndx \in Indexes(opts)
    BY DEF CommandIInv, OptionsInv
  <1>3. ~parseExit /\ exitCode = kExitOk
    BY <1>1 DEF CheckedInv, CommandIInv, RunsInv, ExitsKnown, Going
  <1>4. \A i \in DOMAIN opts : opts[i].require /\ opts[i].command \in {<<>>, command} => Given(i)
    BY DEF CheckedInv
  <1>5. \A i \in DOMAIN opts : HoldsParsed(opts[i], values[i], ParsedOf(rawValues, nextRaw, i))
    BY <1>1 DEF ValuesInv
  <1>6. \A i \in DOMAIN opts : opts[i].vector /\ opts[i].max # -1 => Len(values[i]) <= opts[i].max
    BY <1>5 DEF HoldsParsed
  <1>7. \A k \in DOMAIN ndx.operands :
          ~ndx.operands[k].optional =>
            Given(ndx.operands[k].opt) /\ SizeOf(ndx.operands[k].opt) >= opts[ndx.operands[k].opt].min
    BY CheckedHaveMinimum
  <1>8. cmdMode = "found" => ndx = Index(opts, command)
    <2> SUFFICES ASSUME cmdMode = "found"
                 PROVE  ndx = Index(opts, command)
      OBVIOUS
    <2>1. nextRaw = Len(rawValues) + 1 /\ precmdValues \in DOMAIN rawValues
      BY <1>1 DEF ValuesInv, MatchInv
    <2>2. nextRaw > precmdValues
      BY <2>1, CountsAre DEF CommandIInv
    <2> QED
      BY <1>1, <2>2 DEF MatchInv
  <1>9. cmdMode = "unknown" => command \notin DOMAIN cmds
    <2> SUFFICES ASSUME cmdMode = "unknown"
                 PROVE  command \notin DOMAIN cmds
      OBVIOUS
    <2>1. nextRaw = Len(rawValues) + 1 /\ precmdValues \in DOMAIN rawValues
      BY <1>1 DEF ValuesInv, MatchInv
    <2>2. nextRaw > precmdValues
      BY <2>1, CountsAre DEF CommandIInv
    <2> QED
      BY <1>1, <2>2 DEF MatchInv
  <1>10. cmdMode \in {"none", "pending"} => ndx = Index(opts, <<>>) /\ command = <<>>
    BY <1>1 DEF MatchInv
  <1>11. cmdMode = "unknown" => ndx = Index(opts, <<>>)
    BY <1>1 DEF MatchInv
  \* The operands of the top level when there is a command.
  <1>12. ASSUME cmdMode = "found", NEW k \in DOMAIN Index(opts, <<>>).operands
         PROVE  LET i == Index(opts, <<>>).operands[k].opt IN Given(i) /\ SizeOf(i) >= opts[i].min
    <2> DEFINE i == Index(opts, <<>>).operands[k].opt
               m == precmdValues
               B == OperandsTo(rawValues, m, i)
               P == ParsedOf(rawValues, nextRaw, i)
    <2>1. FixedOperands(opts)
      BY <1>12 DEF ModeInv
    <2>2. i \in DOMAIN opts /\ opts[i].max # 0 /\ opts[i].min = opts[i].max
      BY <1>2, <2>1, OperandsOfCommand
    <2>3. Cardinality(B) >= opts[i].min
      BY <1>1, <1>12 DEF TopInv, TopHasMinimums
    <2>4. nextRaw = Len(rawValues) + 1 /\ m \in Nat /\ m <= Len(rawValues) /\ Len(rawValues) \in Nat
      BY <1>1, CountsAre DEF ValuesInv, CommandIInv
    <2>5. B \subseteq P
      <3>1. \A j \in 1 .. m : j \in 1 .. nextRaw - 1
        BY <2>4
      <3> QED
        BY <3>1 DEF OperandsTo, ParsedOf
    <2>6. IsFiniteSet(P)
      <3>1. IsFiniteSet(1 .. nextRaw - 1)
        BY <2>4, FS_Interval
      <3> QED
        BY <3>1, FS_Subset DEF ParsedOf
    <2>7. HoldsParsed(opts[i], values[i], P)
      BY <1>5, <2>2
    <2> HIDE DEF i, B, P
    <2>8. opts[i].min \in Nat /\ opts[i].min # 0 /\ (~opts[i].vector => opts[i].min = 1)
      <3>1. opts[i].min \in Nat /\ (~opts[i].vector => opts[i].min = 1)
        BY <1>2, <2>2 DEF OptsOK
      <3> QED
        BY <2>2, <3>1
    <2>9. Cardinality(B) \in Nat /\ Cardinality(P) \in Nat /\ Cardinality(B) <= Cardinality(P)
      <3>1. IsFiniteSet(B) /\ Cardinality(B) <= Cardinality(P)
        BY <2>5, <2>6, FS_Subset
      <3> QED
        BY <2>6, <3>1, FS_CardinalityType
    <2>10. Cardinality(P) >= opts[i].min /\ Cardinality(P) # 0
      BY <2>3, <2>8, <2>9
    <2>11. P # {}
      BY <2>10, FS_EmptySet
    <2>12. CASE opts[i].vector
      <3>1. Len(values[i]) = Cardinality(P)
        BY <2>7, <2>12 DEF HoldsParsed
      <3>2. values[i] # <<>>
        BY <2>10, <3>1, SequenceEmpty
      <3> QED
        BY <2>10, <2>12, <3>1, <3>2 DEF Given, SizeOf, i
    <2>13. CASE ~opts[i].vector
      <3>1. values[i] # <<>>
        BY <2>7, <2>11, <2>13 DEF HoldsParsed
      <3>2. SizeOf(i) = 1 /\ opts[i].min = 1
        BY <2>8, <2>13 DEF SizeOf
      <3>3. SizeOf(i) >= opts[i].min
        BY <3>2
      <3> QED
        BY <3>1, <3>3 DEF Given, i
    <2> QED
      BY <2>12, <2>13
  \* An unknown command has no options.
  <1>13. ASSUME NEW c, c \notin DOMAIN cmds, NEW k \in DOMAIN Index(opts, c).operands
         PROVE  FALSE
    <2>1. Index(opts, c).operands[k].opt \in DOMAIN opts
          /\ opts[Index(opts, c).operands[k].opt].command = c
      BY <1>2, <1>13, OperandsOfCommand
    <2>2. c \in Commands(opts)
      BY <2>1 DEF Commands
    <2>3. Commands(opts) \subseteq DOMAIN cmds
      BY DEF ModeInv
    <2> QED
      BY <1>13, <2>2, <2>3
  <1>14. ASSUME NEW c \in {<<>>, command}, NEW k \in DOMAIN Index(opts, c).operands,
                ~Index(opts, c).operands[k].optional
         PROVE  LET n == Index(opts, c).operands[k] IN Given(n.opt) /\ SizeOf(n.opt) >= opts[n.opt].min
    <2>1. CASE ndx = Index(opts, c)
      BY <1>7, <1>14, <2>1
    <2>2. CASE ndx # Index(opts, c) /\ cmdMode = "found"
      <3>1. c = <<>>
        BY <1>8, <1>14, <2>2
      <3> QED
        BY <1>12, <1>14, <2>2, <3>1
    <2>3. CASE ndx # Index(opts, c) /\ cmdMode = "unknown"
      <3>1. c = command
        BY <1>11, <1>14, <2>3
      <3> QED
        BY <1>9, <1>13, <1>14, <2>3, <3>1
    <2> QED
      BY <1>10, <1>14, <2>1, <2>2, <2>3 DEF ModeInv
  <1>15. cmdMode # "unknown" =>
           \A i \in DOMAIN opts : Given(i) /\ NamedFirst(Index(opts, command), i)
                                   => SizeOf(i) >= opts[i].min
    BY <1>8, <1>10, NamedHasMinimum DEF ModeInv
  <1> QED
    BY <1>3, <1>4, <1>6, <1>14, <1>15 DEF AcceptedIsComplete

\* When a parse succeeds nothing is missing: however words, commands, operands and vectors
\* are mixed, and though the operands of the top level are not looked at again once the
\* command is known.
THEOREM AcceptedComplete == MainSpec => []AcceptedIsComplete
  <1> DEFINE Inv == ModeInv /\ MatchInv /\ TopInv /\ ValuesInv /\ CheckedInv
  <1>1. MainInit => Inv
    <2> SUFFICES ASSUME MainInit
                 PROVE  Inv
      OBVIOUS
    <2>1. pc = "start" /\ parseExit = FALSE
      BY DEF MainInit
    <2> QED
      BY <2>1, ModeBegins DEF MatchInv, TopInv, ValuesInv, CheckedInv, Matching
  <1>2. CommandIInv /\ Inv /\ [MainNext]_allVars => Inv'
    BY ModeKept, MatchKept, TopKept, ValuesKept, CheckedKept DEF CommandIInv
  <1>3. CommandIInv /\ Inv => AcceptedIsComplete
    BY AcceptedLacksNothing
  <1> HIDE DEF Inv
  <1> QED
    BY <1>1, <1>2, <1>3, CommandInvariance, PTL DEF MainSpec
-----------------------------------------------------------------------------
(***************************************************************************)
(* Which operand each positional value went to.                            *)
(***************************************************************************)
OperandsAfter(rs, m) == {k \in m + 1 .. Len(rs) : rs[k].type = "operand"}

\* All n operands among the raw values after the first m were dealt, each to the operand its
\* number gives.
DealtByNumber(os, x, n, rs, m) ==
  LET deal == Matched(os, x, n)
      P    == OperandsAfter(rs, m)
  IN /\ deal.used = n /\ Cardinality(P) = n
     /\ \A k \in P : rs[k].opt = x.operands[OperandOf(deal.counts, Number(P, k))].opt

\* When the values are parsed the operands are known.
DealtInv ==
  pc \in {"values", "after", "accepted"} /\ cmdMode # "unknown" =>
    DealtByNumber(opts, ndx, numPos, rawValues, precmdValues)

LEMMA AssignDeals ==
  ASSUME OptionsInv, WordsInv, PlaceInv, RawInv, AssignRest
  PROVE  DealtInv'
  <1> DEFINE A == AssignOperands(precmdValues + 1, numPos)
             deal == Matched(opts, ndx, numPos)
             P == OperandsAfter(A, precmdValues)
  <1>1. pc = "scan" /\ UNCHANGED <<opts, cmdMode, ndx, numPos, precmdValues>>
    BY DEF AssignRest, setup
  <1>2. pc' \in {"values", "after", "accepted"} /\ cmdMode # "unknown" =>
          rawValues' = A /\ ~(deal.used < numPos)
    BY DEF AssignRest, BadUsage, BadValue, Abort
  <1> SUFFICES ASSUME pc' \in {"values", "after", "accepted"}, cmdMode # "unknown"
               PROVE  DealtByNumber(opts, ndx, numPos, A, precmdValues)
    BY <1>1, <1>2 DEF DealtInv
  <1>3. pc \in Reading /\ numPos \in Nat
    BY <1>1 DEF Reading, PlaceInv
  <1>4. deal.used = numPos
    <2> DEFINE used == deal.used
    <2>1. used \in 0 .. numPos
      BY <1>3, MatchedIsDeal DEF OptionsInv, Deals
    <2>2. ~(used < numPos)
      BY <1>2
    <2> HIDE DEF used
    <2>3. used = numPos
      BY <1>3, <2>1, <2>2
    <2> QED
      BY <2>3 DEF used
  <1>5. IsAssigned(A)
    <2>1. deal.used >= numPos
      BY <1>3, <1>4
    <2> QED
      BY <1>3, <2>1, OperandsAreAssigned
  <1>6. \A k \in DOMAIN rawValues :
          k \in Pending => A[k].opt = ndx.operands[OperandOf(deal.counts, Number(Pending, k))].opt
    BY <1>3, AssignsByNumber
  <1> HIDE DEF A
  <1>7. P = Pending
    <2>1. Len(A) = Len(rawValues) /\ \A k \in DOMAIN rawValues : A[k].type = rawValues[k].type
      BY <1>5 DEF IsAssigned
    <2>2. DOMAIN rawValues = 1 .. Len(rawValues) /\ precmdValues \in Nat /\ Len(rawValues) \in Nat
      BY CountsAre
    <2>3. \A k \in precmdValues + 1 .. Len(rawValues) : k \in DOMAIN rawValues
      BY <2>2
    <2> QED
      BY <2>1, <2>3 DEF OperandsAfter, Pending
  <1>8. \A k \in Pending : k \in DOMAIN rawValues
    <2>1. DOMAIN rawValues = 1 .. Len(rawValues) /\ precmdValues \in Nat /\ Len(rawValues) \in Nat
      BY CountsAre
    <2> QED
      BY <2>1 DEF Pending
  <1>9. Cardinality(Pending) = numPos
    BY <1>3 DEF RawInv
  <1> HIDE DEF deal, P
  <1>10. \A k \in P : A[k].opt = ndx.operands[OperandOf(deal.counts, Number(P, k))].opt
    BY <1>6, <1>7, <1>8
  <1>11. Cardinality(P) = numPos
    BY <1>7, <1>9
  <1> QED
    BY <1>4, <1>10, <1>11 DEF DealtByNumber, deal, P

LEMMA DealtKept ==
  ASSUME OptionsInv, WordsInv, PlaceInv, RawInv, DealtInv, [MainNext]_allVars
  PROVE  DealtInv'
  <1>1. CASE FirstParse \/ SecondParse
    <2>1. pc' \in {"expand", "before"}
      BY <1>1 DEF FirstParse, SecondParse, StartParse
    <2> QED
      BY <2>1 DEF DealtInv
  <1>2. CASE ParseStep
    <2>1. CASE \/ NextFrameWord \/ expandResponseFile \/ LeaveResponseFile \/ EndExpand \/ BeforeActions
               \/ ShortName \/ LongName \/ EndOfCluster \/ BareDashes \/ UnknownArg \/ OperandWord
      <3>1. pc' \in Reading \cup {"rejected"}
        BY <2>1, ScanStepGrows DEF ScanGrows
      <3> QED
        BY <3>1 DEF DealtInv, Reading
    <2>2. CASE CommandWord
      <3>1. pc' \in {"scan", "rejected"}
        BY <2>2 DEF CommandWord, Goto, BadUsage
      <3> QED
        BY <3>1 DEF DealtInv
    <2>3. CASE AssignRest
      BY <2>3, AssignDeals
    <2>4. CASE ParseValue \/ CheckMinimums \/ AfterActions
      <3>1. /\ pc \in {"values", "after"}
            /\ UNCHANGED <<opts, cmdMode, ndx, numPos, precmdValues, rawValues>>
        BY <2>4 DEF ParseValue, CheckMinimums, AfterActions, ValueRest, setup, scanVars
      <3> QED
        BY <3>1 DEF DealtInv
    <2> QED
      BY <1>2, <2>1, <2>2, <2>3, <2>4 DEF ParseStep
  <1>3. CASE After
    BY <1>3, AfterIsOut DEF DealtInv, Matching
  <1>4. CASE ChangeFiles \/ UNCHANGED allVars
    <2>1. UNCHANGED <<pc, opts, cmdMode, ndx, numPos, precmdValues, rawValues>>
      BY <1>4 DEF ChangeFiles, allVars, parseVars, setup, scanVars
    <2> QED
      BY <2>1 DEF DealtInv
  <1> QED
    BY <1>1, <1>2, <1>3, <1>4 DEF MainNext, MainStep, After

\* The operand of raw value k, found by its option.
RankIn(x, rs, k) == CHOOSE i \in DOMAIN x.operands : x.operands[i].opt = rs[k].opt

\* The ranks of the values at P ascend, and each operand has as many of them as counted.
RanksAscend(x, rs, P, counts) ==
  /\ \A j, k \in P : j < k => RankIn(x, rs, j) <= RankIn(x, rs, k)
  /\ \A i \in DOMAIN x.operands : Cardinality({k \in P : RankIn(x, rs, k) = i}) = counts[i]

\* Operand numbers follow the places of the values, and each operand has the values counted.
LEMMA DealtOperands ==
  ASSUME NEW os, OptsOK(os), NEW x \in Indexes(os), NEW n \in Nat, NEW rs, NEW m \in Nat,
         Len(rs) \in Nat, DealtByNumber(os, x, n, rs, m),
         \A a, b \in DOMAIN x.operands : x.operands[a].opt = x.operands[b].opt => a = b
  PROVE  RanksAscend(x, rs, OperandsAfter(rs, m), Matched(os, x, n).counts)
  <1> DEFINE N == Len(x.operands)
             deal == Matched(os, x, n)
             counts == deal.counts
             P == OperandsAfter(rs, m)
             Of(k) == OperandOf(counts, Number(P, k))
  <1>1. N \in Nat /\ DOMAIN x.operands = 1 .. N
    BY DEF Indexes
  <1>2. /\ deal.used = n /\ Cardinality(P) = n
        /\ \A k \in P : rs[k].opt = x.operands[Of(k)].opt
    BY DEF DealtByNumber
  <1>3. deal \in Deals(N, n)
    BY MatchedIsDeal
  <1>4. counts \in [1 .. N -> Nat] /\ SumsTo(counts, N, n)
    BY <1>2, <1>3 DEF Deals
  <1>5. P \subseteq Nat /\ IsFiniteSet(P)
    <2>1. m + 1 \in Int /\ Len(rs) \in Int
      OBVIOUS
    <2>2. IsFiniteSet(m + 1 .. Len(rs))
      BY <2>1, FS_Interval
    <2>3. P \in SUBSET (m + 1 .. Len(rs))
      BY DEF OperandsAfter
    <2>4. m + 1 .. Len(rs) \subseteq Nat
      OBVIOUS
    <2> HIDE DEF P
    <2> QED
      BY <2>2, <2>3, <2>4, FS_Subset
  <1> HIDE DEF deal, counts, P, N
  <1>6. \A k \in P : Number(P, k) \in 1 .. n
    BY <1>2, <1>5, NumbersAscend
  <1>7. \A k \in P : Of(k) \in 1 .. N
    BY <1>1, <1>4, <1>6, OperandIsThere
  <1>8. \A k \in P : RankIn(x, rs, k) = Of(k)
    <2> SUFFICES ASSUME NEW k \in P
                 PROVE  RankIn(x, rs, k) = Of(k)
      OBVIOUS
    <2> DEFINE i == Of(k)
    <2>1. i \in DOMAIN x.operands /\ x.operands[i].opt = rs[k].opt
      BY <1>1, <1>2, <1>7
    <2>2. RankIn(x, rs, k) = CHOOSE j \in DOMAIN x.operands : x.operands[j].opt = rs[k].opt
      BY DEF RankIn
    <2> HIDE DEF i
    <2>3. \A j \in DOMAIN x.operands : x.operands[j].opt = rs[k].opt => j = i
      BY <2>1
    <2>4. RankIn(x, rs, k) = i
      BY <2>1, <2>2, <2>3
    <2> QED
      BY <2>4 DEF i
  <1>9. ASSUME NEW j \in P, NEW k \in P, j < k
        PROVE  RankIn(x, rs, j) <= RankIn(x, rs, k)
    <2>1. Number(P, j) < Number(P, k)
      BY <1>5, <1>9, NumbersAscend
    <2>2. Of(j) <= Of(k)
      BY <1>1, <1>4, <1>6, <2>1, OperandsAscend
    <2> QED
      BY <1>8, <2>2
  <1>10. ASSUME NEW i \in DOMAIN x.operands
         PROVE  Cardinality({k \in P : RankIn(x, rs, k) = i}) = counts[i]
    <2>1. {k \in P : RankIn(x, rs, k) = i} = PlacesOf(P, counts, i)
      BY <1>8 DEF PlacesOf
    <2>2. SumsTo(counts, N, Cardinality(P)) /\ i \in 1 .. N
      BY <1>1, <1>2, <1>4
    <2>3. N \in Nat /\ counts \in [1 .. N -> Nat] /\ P \subseteq Nat /\ IsFiniteSet(P)
      BY <1>1, <1>4, <1>5
    <2>4. Cardinality(PlacesOf(P, counts, i)) = counts[i]
      <3> HIDE DEF Of
      <3> QED
        BY ONLY <2>2, <2>3, EachGetsItsCount
    <2> QED
      BY <2>1, <2>4
  <1> QED
    BY <1>9, <1>10 DEF RanksAscend, P, counts, deal

LEMMA AcceptedIsInOrder ==
  ASSUME CommandIInv, ModeInv, MatchInv, ValuesInv, CheckedInv, DealtInv
  PROVE  OperandsInOrder
  <1> SUFFICES ASSUME pc = "accepted", cmdMode # "unknown"
               PROVE  OperandsInOrder
    BY DEF OperandsInOrder
  <1> DEFINE P == Operands(precmdValues)
             counts == Matched(opts, ndx, numPos).counts
             Rank(k) == CHOOSE i \in DOMAIN ndx.operands : ndx.operands[i].opt = rawValues[k].opt
             Count(i) == Cardinality({k \in P : Rank(k) = i})
             Opt(i) == opts[ndx.operands[i].opt]
             ByPlace(i) == Len(values[ndx.operands[i].opt]) = Count(i)
             N == Len(ndx.operands)
  <1>1. OptsOK(opts) /\ ndx \in Indexes(opts) /\ N \in Nat /\ DOMAIN ndx.operands = 1 .. N
    BY DEF CommandIInv, OptionsInv, Indexes
  <1>2. \A a, b \in DOMAIN ndx.operands : ndx.operands[a].opt = ndx.operands[b].opt => a = b
    <2>1. \E c : ndx = Index(opts, c)
      BY DEF MatchInv, Matching, ModeInv
    <2> QED
      BY <1>1, <2>1, OperandsDiffer
  <1>3. numPos \in Nat /\ precmdValues \in Nat /\ Len(rawValues) \in Nat
    BY CountsAre DEF CommandIInv
  <1>4. DealtByNumber(opts, ndx, numPos, rawValues, precmdValues)
    BY DEF DealtInv
  <1>5. P = OperandsAfter(rawValues, precmdValues) /\ \A k : Rank(k) = RankIn(ndx, rawValues, k)
    BY DEF Operands, OperandsAfter, RankIn
  <1>6. /\ \A j, k \in P : j < k => Rank(j) <= Rank(k)
        /\ \A i \in DOMAIN ndx.operands : Count(i) = counts[i]
    <2>1. RanksAscend(ndx, rawValues, OperandsAfter(rawValues, precmdValues), Matched(opts, ndx, numPos).counts)
      BY <1>1, <1>2, <1>3, <1>4, DealtOperands
    <2>2. RanksAscend(ndx, rawValues, P, counts)
      BY <1>5, <2>1
    <2> DEFINE A(i) == {k \in P : Rank(k) = i}
    <2> HIDE DEF P, counts, Rank
    <2>3. \A i : A(i) = {k \in P : RankIn(ndx, rawValues, k) = i}
      BY <1>5
    <2>4. \A i \in DOMAIN ndx.operands : Cardinality(A(i)) = counts[i]
      BY <2>2, <2>3 DEF RanksAscend
    <2> QED
      BY <1>5, <2>2, <2>4 DEF RanksAscend
  <1>7. /\ \A k \in 1 .. N : Opt(k).max # -1 => counts[k] <= Opt(k).max
        /\ \A i, j \in 1 .. N :
             /\ ndx.operands[i].optional /\ counts[i] > 0
             /\ ~ndx.operands[j].optional /\ counts[j] >= Opt(j).min
             => counts[j] = Opt(j).max
    <2>1. KeepsOrder(opts, ndx, Matched(opts, ndx, numPos).counts)
      BY <1>1, <1>3, DealtInOrder
    <2> QED
      BY <2>1 DEF KeepsOrder
  <1> HIDE DEF P, counts, Rank, Count
  <1>8. ASSUME NEW j \in 1 .. N, ~ndx.operands[j].optional, ByPlace(j)
        PROVE  counts[j] >= Opt(j).min
    <2> DEFINE o == ndx.operands[j].opt
    <2>1. Given(o) /\ SizeOf(o) >= opts[o].min
      BY <1>1, <1>8, CheckedHaveMinimum
    <2>2. o \in DOMAIN opts
      BY <1>1, <1>8 DEF Indexes, OperandNames, Names
    <2>3. Len(values[o]) = counts[j]
      BY <1>1, <1>6, <1>8
    <2> HIDE DEF o
    <2>4. IsSequence(values[o])
      BY <2>2 DEF ValuesInv, Matching, HoldsParsed
    <2>5. CASE opts[o].vector
      BY <2>1, <2>3, <2>5 DEF SizeOf, o
    <2>6. CASE ~opts[o].vector
      <3>1. opts[o].min = 1
        BY <1>1, <2>2, <2>6 DEF OptsOK
      <3>2. Len(values[o]) \in Nat /\ Len(values[o]) # 0
        <4>1. values[o] # <<>>
          BY <2>1 DEF Given
        <4> QED
          BY <2>4, <4>1 DEF IsSequence
      <3> QED
        BY <2>3, <3>1, <3>2 DEF o
    <2> QED
      BY <2>5, <2>6
  <1>9. \A i \in DOMAIN ndx.operands : Opt(i).max # -1 => Count(i) <= Opt(i).max
    BY <1>1, <1>6, <1>7
  <1>10. ASSUME NEW i \in DOMAIN ndx.operands, NEW j \in DOMAIN ndx.operands,
                ndx.operands[i].optional, Count(i) > 0, ~ndx.operands[j].optional, ByPlace(j)
         PROVE  Count(j) = Opt(j).max
    <2>1. i \in 1 .. N /\ j \in 1 .. N /\ Count(i) = counts[i] /\ Count(j) = counts[j]
      BY <1>1, <1>6
    <2>2. counts[j] >= Opt(j).min
      BY <1>8, <1>10, <2>1
    <2> QED
      BY <1>7, <1>10, <2>1, <2>2
  <1>11. /\ \A j, k \in P : j < k => Rank(j) <= Rank(k)
         /\ \A i \in DOMAIN ndx.operands : Opt(i).max # -1 => Count(i) <= Opt(i).max
         /\ \A i, j \in DOMAIN ndx.operands :
              ndx.operands[i].optional /\ Count(i) > 0 /\ ~ndx.operands[j].optional /\ ByPlace(j)
                => Count(j) = Opt(j).max
    BY <1>6, <1>9, <1>10
  <1> QED
    BY <1>11 DEF OperandsInOrder, P, Rank, Count

\* The values of the two parses go to the operands in their order, required ones first: a
\* value before another one has an operand no later, no operand has more values than its
\* maximum, and an optional operand has a value only when the required ones are full.
THEOREM OperandsAreInOrder == MainSpec => []OperandsInOrder
  <1> DEFINE Inv == ModeInv /\ MatchInv /\ TopInv /\ ValuesInv /\ CheckedInv /\ DealtInv
  <1>1. MainInit => Inv
    <2> SUFFICES ASSUME MainInit
                 PROVE  Inv
      OBVIOUS
    <2>1. pc = "start" /\ parseExit = FALSE
      BY DEF MainInit
    <2> QED
      BY <2>1, ModeBegins DEF MatchInv, TopInv, ValuesInv, CheckedInv, Matching, DealtInv
  <1>2. CommandIInv /\ Inv /\ [MainNext]_allVars => Inv'
    BY ModeKept, MatchKept, TopKept, ValuesKept, CheckedKept, DealtKept DEF CommandIInv
  <1>3. CommandIInv /\ Inv => OperandsInOrder
    BY AcceptedIsInOrder
  <1> HIDE DEF Inv
  <1> QED
    BY <1>1, <1>2, <1>3, CommandInvariance, PTL DEF MainSpec
-----------------------------------------------------------------------------
(***************************************************************************)
(* What comes after the end of the options.                                *)
(***************************************************************************)
\* A raw value that ends the options: it is of a final option, or an operand that is yet to
\* be assigned and comes after as many as precede a final one.
EndsOptionsNow(k) ==
  \/ rawValues[k].type # "command" /\ rawValues[k].opt # 0 /\ opts[rawValues[k].opt].finalOpt
  \/ k \in Pending /\ ndx.finalOpr \in Nat /\ ndx.finalOpr < Number(Pending, k)

\* The options end at word p.
EndsAt(p) ==
  \/ args[p] = <<"-", "-">> /\ \A k \in DOMAIN rawValues : rawValues[k].pos # p
  \/ \E k \in DOMAIN rawValues : rawValues[k].pos = p /\ EndsOptionsNow(k)

\* Word q was taken as it is.
TakenWhole(q) ==
  \/ \E k \in DOMAIN rawValues : /\ rawValues[k].text = args[q]
                                 /\ rawValues[k].pos = q \/ rawValues[k].type = "command"
  \/ args[q] \in ToSet(unknownArgs)

WholeAfterEnds(n) == \A p, q \in 2 .. n : p < q /\ EndsAt(p) => TakenWhole(q)

\* While words are read: words after an end of the options were taken whole and no option is
\* looked for any more; in the middle of a cluster its word is the last.
EndsKnown ==
  /\ pc \in {"expand", "before"} => rawValues = <<>> /\ ptr = 1
  /\ WholeAfterEnds(argPos - 1)
  /\ \A p \in 2 .. argPos - 1 : EndsAt(p) => ~moreOpts /\ ptr = 1
  /\ ptr > 1 => argPos <= Len(args) /\ args[argPos] # <<"-", "-">>
  /\ \A k \in DOMAIN rawValues :
       /\ rawValues[k].pos \in 0 .. argPos - 1 \/ (rawValues[k].pos = argPos /\ ptr > 1)
       /\ EndsOptionsNow(k) => ~moreOpts
  /\ ndx.finalOpr \in 0 .. numPos - 1 => ~moreOpts

FinalInv ==
  /\ FinalsFollowSingles(opts)
  /\ pc \in Reading => EndsKnown /\ IsSequence(unknownArgs)
  /\ pc \in {"values", "after", "accepted"} =>
       /\ WholeAfterEnds(Len(args))
       /\ \A k \in DOMAIN rawValues : rawValues[k].type # "command" => rawValues[k].opt # 0

\* A step of the scan in which the raw values there were end the options no more than before.
RawsEndAsBefore ==
  /\ \A k \in DOMAIN rawValues :
       /\ k \in DOMAIN rawValues' /\ rawValues'[k].pos = rawValues[k].pos
       /\ rawValues'[k].text = rawValues[k].text /\ rawValues'[k].type = rawValues[k].type
       /\ EndsOptionsNow(k)' => EndsOptionsNow(k)
  /\ args' = args /\ ToSet(unknownArgs) \subseteq ToSet(unknownArgs')

\* What the step makes of the words it reads, and of its new raw values.
WordsEndOptions ==
  /\ argPos' \in argPos .. Len(args) + 2 /\ ptr' \in Nat \ {0}
  /\ ptr' > 1 => argPos' = argPos /\ argPos <= Len(args) /\ args[argPos] # <<"-", "-">>
  /\ argPos' = argPos => ptr' > 1
  /\ moreOpts' => moreOpts
  /\ ~moreOpts /\ ptr = 1 => ptr' = 1
  /\ \A k \in DOMAIN rawValues' \ DOMAIN rawValues :
       /\ \/ rawValues'[k].pos \in {0} \cup argPos .. argPos' - 1
          \/ rawValues'[k].pos = argPos' /\ ptr' > 1
       /\ EndsOptionsNow(k)' => ~moreOpts'
  /\ ndx'.finalOpr \in 0 .. numPos' - 1 => ~moreOpts'
  /\ \A q \in argPos .. argPos' - 1 :
       /\ args[q] = <<"-", "-">> =>
            ~moreOpts' \/ \E k \in DOMAIN rawValues' : rawValues'[k].pos = q
       /\ (~moreOpts /\ ptr = 1) \/ q > argPos => TakenWhole(q)'

LEMMA OldEndsAreKept ==
  ASSUME RawsEndAsBefore,
         NEW p, \A k \in DOMAIN rawValues' \ DOMAIN rawValues : rawValues'[k].pos # p,
         EndsAt(p)'
  PROVE  EndsAt(p)
  <1>1. \A k \in DOMAIN rawValues' : rawValues'[k].pos = p =>
          k \in DOMAIN rawValues /\ rawValues[k].pos = p /\ (EndsOptionsNow(k)' => EndsOptionsNow(k))
    BY DEF RawsEndAsBefore
  <1>2. \A k \in DOMAIN rawValues : k \in DOMAIN rawValues' /\ rawValues'[k].pos = rawValues[k].pos
    BY DEF RawsEndAsBefore
  <1>3. args' = args
    BY DEF RawsEndAsBefore
  <1>4. CASE (args[p])' = <<"-", "-">> /\ \A k \in DOMAIN rawValues' : rawValues'[k].pos # p
    BY <1>2, <1>3, <1>4 DEF EndsAt
  <1>5. CASE \E k \in DOMAIN rawValues' : rawValues'[k].pos = p /\ EndsOptionsNow(k)'
    BY <1>1, <1>5 DEF EndsAt
  <1> QED
    BY <1>4, <1>5 DEF EndsAt

LEMMA WholeStaysWhole ==
  ASSUME RawsEndAsBefore, NEW q, TakenWhole(q)
  PROVE  TakenWhole(q)'
  <1>1. \A k \in DOMAIN rawValues :
          /\ k \in DOMAIN rawValues' /\ rawValues'[k].pos = rawValues[k].pos
          /\ rawValues'[k].text = rawValues[k].text /\ rawValues'[k].type = rawValues[k].type
    BY DEF RawsEndAsBefore
  <1>2. args' = args /\ ToSet(unknownArgs) \subseteq ToSet(unknownArgs')
    BY DEF RawsEndAsBefore
  <1>3. CASE \E k \in DOMAIN rawValues : /\ rawValues[k].text = args[q]
                                         /\ rawValues[k].pos = q \/ rawValues[k].type = "command"
    BY <1>1, <1>2, <1>3 DEF TakenWhole
  <1>4. CASE args[q] \in ToSet(unknownArgs)
    BY <1>2, <1>4 DEF TakenWhole
  <1> QED
    BY <1>3, <1>4 DEF TakenWhole

LEMMA ReadingKeepsEnds ==
  ASSUME WordsInv, PlaceInv, RawInv, EndsKnown, pc' = "scan", RawsEndAsBefore, WordsEndOptions
  PROVE  EndsKnown'
  <1>1. argPos \in Nat /\ argPos >= 2 /\ Len(args) \in Nat /\ ptr \in Nat \ {0}
    BY CountsAre
  <1>2. /\ argPos' \in Nat /\ argPos' >= argPos /\ ptr' \in Nat \ {0}
        /\ argPos' = argPos <=> ptr' > 1
        /\ ptr' > 1 => argPos <= Len(args) /\ args[argPos] # <<"-", "-">>
        /\ moreOpts' => moreOpts
        /\ ~moreOpts /\ ptr = 1 => ptr' = 1
        /\ ndx'.finalOpr \in 0 .. numPos' - 1 => ~moreOpts'
    BY <1>1 DEF WordsEndOptions
  <1>3. args' = args
    BY DEF RawsEndAsBefore
  <1>4. ASSUME NEW k \in DOMAIN rawValues'
        PROVE  /\ rawValues'[k].pos \in 0 .. argPos' - 1 \/ (rawValues'[k].pos = argPos' /\ ptr' > 1)
               /\ EndsOptionsNow(k)' => ~moreOpts'
    <2> DEFINE pos == rawValues'[k].pos
    <2>1. CASE k \in DOMAIN rawValues
      <3>1. /\ rawValues[k].pos \in 0 .. argPos - 1 \/ rawValues[k].pos = argPos
            /\ EndsOptionsNow(k) => ~moreOpts
        BY <2>1 DEF EndsKnown
      <3>2. pos = rawValues[k].pos /\ (EndsOptionsNow(k)' => EndsOptionsNow(k))
        BY <2>1 DEF RawsEndAsBefore
      <3> HIDE DEF pos
      <3>3. pos \in 0 .. argPos' - 1 \/ (pos = argPos' /\ ptr' > 1)
        BY <1>1, <1>2, <3>1, <3>2
      <3> QED
        BY <1>2, <3>1, <3>2, <3>3 DEF pos
    <2>2. CASE k \notin DOMAIN rawValues
      <3>1. /\ pos \in {0} \cup argPos .. argPos' - 1 \/ (pos = argPos' /\ ptr' > 1)
            /\ EndsOptionsNow(k)' => ~moreOpts'
        BY <2>2 DEF WordsEndOptions
      <3> HIDE DEF pos
      <3>2. pos \in 0 .. argPos' - 1 \/ (pos = argPos' /\ ptr' > 1)
        BY <1>1, <1>2, <3>1
      <3> QED
        BY <3>1, <3>2 DEF pos
    <2> QED
      BY <2>1, <2>2
  <1>5. ASSUME NEW p \in 2 .. argPos - 1, EndsAt(p)'
        PROVE  EndsAt(p) /\ ~moreOpts /\ ptr = 1
    <2>1. \A k \in DOMAIN rawValues' \ DOMAIN rawValues : rawValues'[k].pos # p
      <3> TAKE k \in DOMAIN rawValues' \ DOMAIN rawValues
      <3> DEFINE pos == rawValues'[k].pos
      <3>1. pos \in {0} \cup argPos .. argPos' - 1 \/ pos = argPos'
        BY DEF WordsEndOptions
      <3> HIDE DEF pos
      <3>2. pos # p
        BY <1>1, <1>2, <3>1
      <3> QED
        BY <3>2 DEF pos
    <2>2. EndsAt(p)
      BY <1>5, <2>1, OldEndsAreKept
    <2> QED
      BY <2>2 DEF EndsKnown
  <1>6. ASSUME NEW p \in argPos .. argPos' - 1, EndsAt(p)'
        PROVE  ~moreOpts'
    <2>1. args[p] = <<"-", "-">> /\ (\A k \in DOMAIN rawValues' : rawValues'[k].pos # p) => ~moreOpts'
      BY DEF WordsEndOptions
    <2>2. CASE args'[p] = <<"-", "-">> /\ \A k \in DOMAIN rawValues' : rawValues'[k].pos # p
      BY <1>3, <2>1, <2>2
    <2>3. CASE \E k \in DOMAIN rawValues' : rawValues'[k].pos = p /\ EndsOptionsNow(k)'
      BY <1>4, <2>3
    <2> QED
      BY <1>6, <2>2, <2>3 DEF EndsAt
  <1>7. \A p \in 2 .. argPos' - 1 : p \in 2 .. argPos - 1 \/ (p \in argPos .. argPos' - 1 /\ argPos' # argPos)
    <2> DEFINE n == argPos'
    <2>1. n \in Nat
      BY <1>2
    <2> HIDE DEF n
    <2>2. \A p \in 2 .. n - 1 : p \in 2 .. argPos - 1 \/ (p \in argPos .. n - 1 /\ n # argPos)
      BY <1>1, <2>1
    <2> QED
      BY <2>2 DEF n
  <1>8. \A p \in 2 .. argPos' - 1 : EndsAt(p)' => ~moreOpts' /\ ptr' = 1
    <2> TAKE p \in 2 .. argPos' - 1
    <2>1. argPos' # argPos => ptr' = 1
      BY <1>2
    <2> QED
      BY <1>2, <1>5, <1>6, <1>7, <2>1
  <1>9. ASSUME NEW p \in 2 .. argPos' - 1, NEW q \in 2 .. argPos' - 1, p < q, EndsAt(p)'
        PROVE  TakenWhole(q)'
    <2>1. CASE q \in 2 .. argPos - 1
      <3>1. p \in 2 .. argPos - 1
        BY <1>1, <1>9, <2>1
      <3>2. EndsAt(p)
        BY <1>5, <1>9, <3>1
      <3>3. TakenWhole(q)
        BY <1>9, <2>1, <3>1, <3>2 DEF EndsKnown, WholeAfterEnds
      <3> QED
        BY <3>3, WholeStaysWhole
    <2>2. CASE q \in argPos .. argPos' - 1
      <3>1. CASE p \in 2 .. argPos - 1
        <4>1. ~moreOpts /\ ptr = 1
          BY <1>5, <1>9, <3>1
        <4> QED
          BY <2>2, <4>1 DEF WordsEndOptions
      <3>2. CASE p \in argPos .. argPos' - 1
        <4>1. q > argPos
          BY <1>1, <1>9, <2>2, <3>2
        <4> QED
          BY <2>2, <4>1 DEF WordsEndOptions
      <3> QED
        BY <1>7, <3>1, <3>2
    <2> QED
      BY <1>7, <2>1, <2>2
  <1>10. WholeAfterEnds(argPos - 1)'
    BY <1>9 DEF WholeAfterEnds
  <1>11. ptr' > 1 => argPos' <= Len(args') /\ args'[argPos'] # <<"-", "-">>
    BY <1>2, <1>3
  <1> QED
    BY <1>2, <1>4, <1>8, <1>10, <1>11 DEF EndsKnown

\* A new raw value is after those there are, and these are numbered as before.
LEMMA PushedIsLast ==
  ASSUME WordsInv, PlaceInv, RawInv, NEW r, rawValues' = Append(rawValues, r),
         UNCHANGED <<args, opts, ndx, precmdValues, unknownArgs>>
  PROVE  /\ RawsEndAsBefore
         /\ Len(rawValues) + 1 \in DOMAIN rawValues' /\ rawValues'[Len(rawValues) + 1] = r
         /\ \A k \in DOMAIN rawValues' \ DOMAIN rawValues : k = Len(rawValues) + 1
         /\ r.type # "operand" => Len(rawValues) + 1 \notin Pending'
         /\ r.type = "operand" =>
              Number(Pending', Len(rawValues) + 1) = Cardinality(Pending) + 1
  <1> DEFINE L == Len(rawValues)
             rs == Append(rawValues, r)
  <1>1. /\ L \in Nat /\ DOMAIN rawValues = 1 .. L /\ IsSequence(rawValues)
        /\ precmdValues \in Nat /\ precmdValues <= L
    BY CountsAre
  <1>2. /\ IsSequence(rs) /\ Len(rs) = L + 1 /\ rs[L + 1] = r /\ rawValues' = rs
        /\ \A k \in 1 .. L : rs[k] = rawValues[k]
    BY <1>1, SequenceGrows
  <1>3. DOMAIN rs = 1 .. L + 1
    BY <1>2, SequenceFacts
  <1> HIDE DEF rs
  <1>4. /\ \A k : k \in Pending' <=> k \in precmdValues + 1 .. L + 1 /\ rs[k].type = "operand"
        /\ \A k : k \in Pending <=> k \in precmdValues + 1 .. L /\ rawValues[k].type = "operand"
    BY <1>2 DEF Pending
  <1> HIDE DEF L
  <1>5. \A k \in precmdValues + 1 .. L : k \in 1 .. L /\ k \in precmdValues + 1 .. L + 1
                                         /\ k <= L + 1 /\ k # L + 1
    BY <1>1
  <1>6. \A k \in precmdValues + 1 .. L + 1 : k \in precmdValues + 1 .. L \/ k = L + 1
    BY <1>1
  <1>7. L + 1 \in precmdValues + 1 .. L + 1 /\ L + 1 <= L + 1
    BY <1>1
  <1>8. /\ \A k : k \in Pending => k \in Pending' /\ k # L + 1 /\ k <= L + 1
        /\ \A k : k \in Pending' => k \in Pending \/ k = L + 1
        /\ L + 1 \in Pending' <=> r.type = "operand"
    BY <1>2, <1>4, <1>5, <1>6, <1>7
  <1>9. ASSUME NEW k \in 1 .. L
        PROVE  (k \in Pending' => k \in Pending) /\ Number(Pending', k) = Number(Pending, k)
    <2>1. k # L + 1 /\ ~(L + 1 <= k)
      BY <1>1
    <2>2. {j \in Pending' : j <= k} = {j \in Pending : j <= k}
      BY <1>8, <2>1
    <2> QED
      BY <1>8, <2>1, <2>2 DEF Number
  <1>10. ASSUME NEW k \in DOMAIN rawValues
         PROVE  /\ k \in DOMAIN rawValues' /\ rawValues'[k] = rawValues[k]
                /\ EndsOptionsNow(k)' => EndsOptionsNow(k)
    <2>1. k \in 1 .. L /\ k \in 1 .. L + 1
      BY <1>1 DEF L
    <2>2. rawValues'[k] = rawValues[k] /\ k \in DOMAIN rawValues'
      BY <1>2, <1>3, <2>1 DEF L
    <2>3. opts' = opts /\ ndx' = ndx
      OBVIOUS
    <2>4. (k \in Pending' => k \in Pending) /\ Number(Pending', k) = Number(Pending, k)
      BY <1>9, <2>1
    <2> HIDE DEF L
    <2>5. EndsOptionsNow(k)' => EndsOptionsNow(k)
      BY <2>2, <2>3, <2>4 DEF EndsOptionsNow
    <2> QED
      BY <2>2, <2>5
  <1>11. RawsEndAsBefore
    BY <1>10 DEF RawsEndAsBefore
  <1>12. \A k \in DOMAIN rawValues' \ DOMAIN rawValues : k = L + 1
    <2>1. \A k \in 1 .. L + 1 : k \in 1 .. L \/ k = L + 1
      BY <1>1
    <2>2. DOMAIN rawValues' = 1 .. L + 1 /\ DOMAIN rawValues = 1 .. L
      BY <1>1, <1>2, <1>3
    <2> QED
      BY <2>1, <2>2
  <1>13. r.type = "operand" => Number(Pending', L + 1) = Cardinality(Pending) + 1
    <2> SUFFICES ASSUME r.type = "operand"
                 PROVE  Number(Pending', L + 1) = Cardinality(Pending) + 1
      OBVIOUS
    <2>1. {j \in Pending' : j <= L + 1} = Pending \cup {L + 1}
      BY <1>7, <1>8
    <2>2. IsFiniteSet(Pending) /\ L + 1 \notin Pending
      BY <1>1, <1>8, PendingIsFinite DEF L
    <2> QED
      BY <2>1, <2>2, FS_AddElement DEF Number
  <1>14. L + 1 \in DOMAIN rawValues' /\ rawValues'[L + 1] = r
    <2>1. L + 1 \in 1 .. L + 1
      BY <1>1
    <2> QED
      BY <1>2, <1>3, <2>1
  <1> QED
    BY <1>8, <1>11, <1>12, <1>13, <1>14 DEF L

\* What a step that reads an option comes to.
TakesOption ==
  /\ pc = "scan" /\ pc' = "scan" /\ argPos <= Len(args) /\ args[argPos] # <<"-", "-">> /\ (moreOpts \/ ptr > 1)
  /\ UNCHANGED <<args, opts, ndx, precmdValues, unknownArgs, numPos>>
  /\ \E r : /\ rawValues' = Append(rawValues, r) /\ r.type = "option"
            /\ moreOpts' = (moreOpts /\ ~opts[r.opt].finalOpt)
            /\ \/ r.pos = argPos /\ argPos' = argPos /\ ptr' \in Nat /\ ptr' > 1
               \/ r.pos = argPos /\ argPos' = argPos + 1 /\ ptr' = 1
               \/ /\ r.pos = argPos + 1 /\ argPos' = argPos + 2 /\ ptr' = 1
                  /\ argPos # Len(args) /\ r.text = args[argPos + 1]

LEMMA TakesOptionKeepsEnds ==
  ASSUME WordsInv, PlaceInv, RawInv, EndsKnown, pc' = "scan", TakesOption
  PROVE  EndsKnown'
  <1> DEFINE L == Len(rawValues)
  <1>1. PICK r : /\ rawValues' = Append(rawValues, r) /\ r.type = "option"
                 /\ moreOpts' = (moreOpts /\ ~opts[r.opt].finalOpt)
                 /\ \/ r.pos = argPos /\ argPos' = argPos /\ ptr' \in Nat /\ ptr' > 1
                    \/ r.pos = argPos /\ argPos' = argPos + 1 /\ ptr' = 1
                    \/ /\ r.pos = argPos + 1 /\ argPos' = argPos + 2 /\ ptr' = 1
                       /\ argPos # Len(args) /\ r.text = args[argPos + 1]
    BY DEF TakesOption
  <1>2. /\ argPos <= Len(args) /\ args[argPos] # <<"-", "-">> /\ (moreOpts \/ ptr > 1)
        /\ UNCHANGED <<args, opts, ndx, precmdValues, unknownArgs, numPos>>
    BY DEF TakesOption
  <1>3. argPos \in Nat /\ Len(args) \in Nat /\ ptr \in Nat
    BY CountsAre
  <1>4. /\ RawsEndAsBefore
        /\ L + 1 \in DOMAIN rawValues' /\ rawValues'[L + 1] = r
        /\ \A k \in DOMAIN rawValues' \ DOMAIN rawValues : k = L + 1
        /\ L + 1 \notin Pending'
    BY <1>1, <1>2, PushedIsLast
  <1> HIDE DEF L
  <1>5. ASSUME NEW k, k = L + 1
        PROVE  EndsOptionsNow(k)' => ~moreOpts'
    <2>1. rawValues'[k] = r /\ k \notin Pending' /\ opts' = opts
      BY <1>2, <1>4, <1>5
    <2> QED
      BY <1>1, <2>1 DEF EndsOptionsNow
  <1> DEFINE pos == r.pos
             n == argPos'
  <1>6. /\ argPos' \in argPos .. Len(args) + 2 /\ ptr' \in Nat \ {0}
        /\ ptr' > 1 => argPos' = argPos
        /\ argPos' = argPos => ptr' > 1
        /\ pos \in {0} \cup argPos .. n - 1 \/ (pos = argPos' /\ ptr' > 1)
    BY <1>1, <1>2, <1>3
  <1>7. ndx'.finalOpr \in 0 .. numPos' - 1 => ~moreOpts'
    BY <1>1, <1>2 DEF EndsKnown
  <1>8. ASSUME NEW q \in argPos .. n - 1
        PROVE  /\ args[q] = <<"-", "-">> => \E k \in DOMAIN rawValues' : rawValues'[k].pos = q
               /\ (~moreOpts /\ ptr = 1) \/ q > argPos => TakenWhole(q)'
    <2>1. q = argPos \/ (q = argPos + 1 /\ pos = argPos + 1 /\ r.text = args[argPos + 1] /\ q > argPos)
      BY <1>1, <1>3
    <2>2. CASE q = argPos
      <3>1. ~(q > argPos) /\ ~(~moreOpts /\ ptr = 1)
        BY <1>2, <1>3, <2>2
      <3> QED
        BY <1>2, <2>2, <3>1
    <2>3. CASE q = argPos + 1 /\ pos = argPos + 1 /\ r.text = args[argPos + 1]
      <3>1. rawValues'[L + 1].pos = q /\ rawValues'[L + 1].text = args'[q]
        BY <1>2, <1>4, <2>3
      <3> QED
        BY <1>4, <3>1 DEF TakenWhole
    <2> QED
      BY <2>1, <2>2, <2>3
  <1> HIDE DEF n, pos
  <1>9. ~moreOpts /\ ptr = 1 => ptr' = 1
    BY <1>2, <1>3
  <1>10. \A k \in DOMAIN rawValues' \ DOMAIN rawValues :
           /\ \/ rawValues'[k].pos \in {0} \cup argPos .. argPos' - 1
              \/ rawValues'[k].pos = argPos' /\ ptr' > 1
           /\ EndsOptionsNow(k)' => ~moreOpts'
    BY <1>4, <1>5, <1>6 DEF n, pos
  <1>11. moreOpts' => moreOpts
    BY <1>1
  <1>12. WordsEndOptions
    BY <1>2, <1>6, <1>7, <1>8, <1>9, <1>10, <1>11 DEF WordsEndOptions, n
  <1> QED
    BY <1>4, <1>12, ReadingKeepsEnds

LEMMA OptionValueTakes ==
  ASSUME NEW n, NEW text, NEW equal \in BOOLEAN, OptionValue(n, text, equal)
  PROVE  \/ pc' = "rejected"
         \/ \E r : /\ pc' = "scan" /\ rawValues' = Append(rawValues, r)
                   /\ r.type = "option" /\ r.opt = n.opt
                   /\ \/ r.pos = argPos /\ argPos' = argPos + 1 /\ ptr' = 1
                      \/ /\ r.pos = argPos + 1 /\ argPos' = argPos + 2 /\ ptr' = 1
                         /\ argPos # Len(args) /\ r.text = args[argPos + 1]
  <1> DEFINE r1 == Raw("option", n.opt, argPos, text)
             r2 == [Raw("option", n.opt, argPos, <<>>) EXCEPT !.null = TRUE]
             r3 == Raw("option", n.opt, argPos + 1, args[argPos + 1])
  <1>1. /\ r1.type = "option" /\ r1.opt = n.opt /\ r1.pos = argPos
        /\ r2.type = "option" /\ r2.opt = n.opt /\ r2.pos = argPos
        /\ r3.type = "option" /\ r3.opt = n.opt /\ r3.pos = argPos + 1 /\ r3.text = args[argPos + 1]
    BY DEF Raw
  <1> HIDE DEF r1, r2, r3
  <1>2. \/ /\ rawValues' = Append(rawValues, r1) \/ rawValues' = Append(rawValues, r2)
           /\ argPos' = argPos + 1 /\ ptr' = 1 /\ pc' = "scan"
        \/ /\ argPos # Len(args) /\ rawValues' = Append(rawValues, r3)
           /\ argPos' = argPos + 2 /\ ptr' = 1 /\ pc' = "scan"
        \/ pc' = "rejected"
    BY DEF OptionValue, Push, NextWord, Goto, BadUsage, r1, r2, r3
  <1> QED
    BY <1>1, <1>2

LEMMA ShortNameTakes ==
  ASSUME OptionsInv, WordsInv, PlaceInv, RawInv, ShortName
  PROVE  pc' = "rejected" \/ TakesOption
  <1>1. UNCHANGED <<args, opts, ndx, precmdValues, unknownArgs, numPos>>
    BY DEF ShortName, ScanRest, setup, valueVars
  <1>2. /\ pc = "scan" /\ argPos <= Len(args) /\ at \in Nat \ {0} /\ ptr \in Nat \ {0}
        /\ moreOpts \/ ptr > 1
        /\ at <= Len(arg) /\ arg[at] # "-"
    <2>1. pc = "scan" /\ argPos <= Len(args) /\ at \in Nat \ {0} /\ ptr \in Nat \ {0}
      BY OptionsAreRead, CountsAre DEF ShortName
    <2> QED
      BY <2>1 DEF ShortName, InOptions
  <1>3. args[argPos] # <<"-", "-">>
    <2>1. at >= 2
      BY <1>2 DEF at
    <2> DEFINE dashes == <<"-", "-">>
    <2>2. Len(dashes) = 2 /\ dashes[2] = "-"
      OBVIOUS
    <2>3. ASSUME arg = dashes
          PROVE  FALSE
      <3>1. at = 2
        BY <1>2, <2>1, <2>2, <2>3
      <3> QED
        BY <1>2, <2>2, <2>3, <3>1
    <2> QED
      BY <2>3 DEF arg
  <1>4. CASE arg[at] \notin DOMAIN ndx.short
    BY <1>4 DEF ShortName, BadUsage
  <1>5. CASE arg[at] \in DOMAIN ndx.short
    <2> DEFINE n == ndx.short[arg[at]]
               r == Raw("option", n.opt, argPos, IF n.invert THEN <<"0">> ELSE <<"1">>)
               Moves(q) == \/ q.pos = argPos /\ argPos' = argPos /\ ptr' \in Nat /\ ptr' > 1
                           \/ q.pos = argPos /\ argPos' = argPos + 1 /\ ptr' = 1
                           \/ /\ q.pos = argPos + 1 /\ argPos' = argPos + 2 /\ ptr' = 1
                              /\ argPos # Len(args) /\ q.text = args[argPos + 1]
    <2>1. /\ moreOpts' = (moreOpts /\ ~opts[n.opt].finalOpt)
          /\ \/ Push(r) /\ ptr' = at + 1 /\ argPos' = argPos /\ pc' = "scan"
             \/ OptionValue(n, SubSeq(arg, at + 1, Len(arg)), FALSE)
      BY <1>5 DEF ShortName, EndsOptions, Goto
    <2>2. r.type = "option" /\ r.opt = n.opt /\ r.pos = argPos
      BY DEF Raw
    <2> HIDE DEF n, r
    <2>3. pc' = "rejected" \/ \E q : /\ pc' = "scan" /\ rawValues' = Append(rawValues, q)
                                     /\ q.type = "option" /\ q.opt = n.opt /\ Moves(q)
      <3>1. CASE Push(r) /\ ptr' = at + 1 /\ argPos' = argPos /\ pc' = "scan"
        <4>1. ptr' \in Nat /\ ptr' > 1
          BY <1>2, <3>1
        <4> QED
          BY <2>2, <3>1, <4>1 DEF Push
      <3>2. CASE OptionValue(n, SubSeq(arg, at + 1, Len(arg)), FALSE)
        <4> DEFINE text == SubSeq(arg, at + 1, Len(arg))
        <4> HIDE DEF text
        <4>1. OptionValue(n, text, FALSE)
          BY <3>2 DEF text
        <4> QED
          BY <4>1, OptionValueTakes
      <3> QED
        BY <2>1, <3>1, <3>2
    <2> QED
      BY <1>1, <1>2, <1>3, <2>1, <2>3 DEF TakesOption
  <1> QED
    BY <1>4, <1>5

LEMMA LongNameTakes ==
  ASSUME OptionsInv, WordsInv, PlaceInv, RawInv, LongName
  PROVE  pc' = "rejected" \/ TakesOption
  <1> DEFINE rest  == SubSeq(arg, at + 1, Len(arg))
             equal == "=" \in ToSet(rest)
             key   == IF equal THEN SubSeq(rest, 1, SelectInSeq(rest, LAMBDA s : s = "=") - 1)
                      ELSE rest
             text  == SubSeq(rest, Len(key) + 2, Len(rest))
             n     == ndx.long[key]
             val   == equal => text \in TrueWords
             r     == Raw("option", n.opt, argPos, IF n.invert = val THEN <<"0">> ELSE <<"1">>)
  <1>1. UNCHANGED <<args, opts, ndx, precmdValues, unknownArgs, numPos>>
    BY DEF LongName, ScanRest, setup, valueVars
  <1>2. /\ pc = "scan" /\ argPos <= Len(args) /\ at \in Nat \ {0} /\ ptr \in Nat \ {0}
        /\ moreOpts \/ ptr > 1
        /\ at < Len(arg)
    <2>1. pc = "scan" /\ argPos <= Len(args) /\ at \in Nat \ {0} /\ ptr \in Nat \ {0}
      BY OptionsAreRead, CountsAre DEF LongName
    <2> QED
      BY <2>1 DEF LongName, InOptions
  <1>3. args[argPos] # <<"-", "-">>
    <2>1. at >= 2
      BY <1>2 DEF at
    <2> DEFINE dashes == <<"-", "-">>
    <2>2. Len(dashes) = 2
      OBVIOUS
    <2>3. ASSUME arg = dashes
          PROVE  FALSE
      BY <1>2, <2>1, <2>2, <2>3
    <2> QED
      BY <2>3 DEF arg
  <1>4. \/ BadUsage
        \/ /\ EndsOptions(n.opt)
           /\ OptionValue(n, text, equal) \/ (Push(r) /\ NextWord /\ pc' = "scan")
    BY DEF LongName, Goto
  <1>5. r.type = "option" /\ r.opt = n.opt /\ r.pos = argPos /\ equal \in BOOLEAN
    BY DEF Raw
  <1> HIDE DEF key, text, rest, equal, val, n, r
  <1> DEFINE Moves(q) == \/ q.pos = argPos /\ argPos' = argPos /\ ptr' \in Nat /\ ptr' > 1
                         \/ q.pos = argPos /\ argPos' = argPos + 1 /\ ptr' = 1
                         \/ /\ q.pos = argPos + 1 /\ argPos' = argPos + 2 /\ ptr' = 1
                            /\ argPos # Len(args) /\ q.text = args[argPos + 1]
  <1>6. CASE BadUsage
    BY <1>6 DEF BadUsage
  <1>7. CASE /\ EndsOptions(n.opt)
             /\ OptionValue(n, text, equal) \/ (Push(r) /\ NextWord /\ pc' = "scan")
    <2>1. moreOpts' = (moreOpts /\ ~opts[n.opt].finalOpt)
      BY <1>7 DEF EndsOptions
    <2>2. pc' = "rejected" \/ \E q : /\ pc' = "scan" /\ rawValues' = Append(rawValues, q)
                                     /\ q.type = "option" /\ q.opt = n.opt /\ Moves(q)
      <3>1. CASE OptionValue(n, text, equal)
        BY <1>5, <3>1, OptionValueTakes
      <3>2. CASE Push(r) /\ NextWord /\ pc' = "scan"
        BY <1>5, <3>2 DEF Push, NextWord
      <3> QED
        BY <1>7, <3>1, <3>2
    <2> QED
      BY <1>1, <1>2, <1>3, <2>1, <2>2 DEF TakesOption
  <1> QED
    BY <1>4, <1>6, <1>7

\* What a word without a raw value leaves.
LEMMA NoRawKeepsEnds ==
  ASSUME WordsInv, PlaceInv, RawInv, EndsKnown, pc' = "scan", argPos <= Len(args), NextWord,
         UNCHANGED <<args, opts, ndx, precmdValues, numPos, rawValues>>,
         moreOpts' => moreOpts, ToSet(unknownArgs) \subseteq ToSet(unknownArgs'),
         args[argPos] = <<"-", "-">> => ~moreOpts',
         ~moreOpts /\ ptr = 1 => args[argPos] \in ToSet(unknownArgs')
  PROVE  EndsKnown'
  <1>1. argPos \in Nat /\ Len(args) \in Nat /\ argPos' = argPos + 1 /\ ptr' = 1
    BY CountsAre DEF NextWord
  <1>2. \A k : EndsOptionsNow(k)' => EndsOptionsNow(k)
    <2>1. Pending' = Pending
      BY DEF Pending
    <2> QED
      BY <2>1 DEF EndsOptionsNow
  <1>3. RawsEndAsBefore
    BY <1>2 DEF RawsEndAsBefore
  <1>4. argPos' \in argPos .. Len(args) + 2 /\ ptr' \in Nat \ {0} /\ argPos' # argPos /\ ~(ptr' > 1)
    BY <1>1
  <1>5. \A q \in argPos .. argPos' - 1 : q = argPos /\ ~(q > argPos)
    <2>1. \A q \in argPos .. (argPos + 1) - 1 : q = argPos /\ ~(q > argPos)
      BY <1>1
    <2> QED
      BY <1>1, <2>1
  <1>6. ASSUME NEW q, q = argPos
        PROVE  /\ args[q] = <<"-", "-">> => ~moreOpts'
               /\ ~moreOpts /\ ptr = 1 => TakenWhole(q)'
    BY <1>6 DEF TakenWhole
  <1>7. ndx'.finalOpr \in 0 .. numPos' - 1 => ~moreOpts'
    BY DEF EndsKnown
  <1>8. WordsEndOptions
    BY <1>1, <1>4, <1>5, <1>6, <1>7 DEF WordsEndOptions
  <1> QED
    BY <1>3, <1>8, ReadingKeepsEnds

LEMMA WordsWithoutValueKeepEnds ==
  ASSUME WordsInv, PlaceInv, RawInv, EndsKnown, EndOfCluster \/ BareDashes \/ UnknownArg,
         IsSequence(unknownArgs)
  PROVE  EndsKnown'
  <1>1. /\ pc' = "scan" /\ argPos <= Len(args) /\ NextWord
        /\ UNCHANGED <<args, opts, ndx, precmdValues, numPos, rawValues>>
    BY DEF EndOfCluster, BareDashes, UnknownArg, ScanRest, setup, Goto, InOptions, InPositional, Scanning
  <1>2. ptr \in Nat \ {0}
    BY CountsAre
  <1> DEFINE dashes == <<"-", "-">>
  <1>3. Len(dashes) = 2 /\ Head(dashes) = "-"
    OBVIOUS
  <1>4. CASE EndOfCluster
    <2>1. /\ moreOpts' = moreOpts /\ unknownArgs' = unknownArgs /\ at > Len(arg)
          /\ ptr > 1 \/ (Len(arg) > 1 /\ moreOpts)
      BY <1>4 DEF EndOfCluster, InOptions
    <2>2. ASSUME arg = dashes
          PROVE  FALSE
      <3>1. ~(ptr > 1)
        BY <2>2 DEF EndsKnown, arg
      <3>2. at = 2
        BY <1>2, <3>1 DEF at
      <3> QED
        BY <1>3, <2>1, <2>2, <3>2
    <2>3. ~(~moreOpts /\ ptr = 1)
      BY <2>1
    <2>4. args[argPos] = <<"-", "-">> => ~moreOpts'
      BY <2>2 DEF arg
    <2> HIDE DEF dashes
    <2> QED
      BY <1>1, <2>1, <2>3, <2>4, NoRawKeepsEnds
  <1>5. CASE BareDashes
    <2>1. ~moreOpts' /\ unknownArgs' = unknownArgs /\ ~(~moreOpts /\ ptr = 1)
      BY <1>5 DEF BareDashes, InOptions
    <2> QED
      BY <1>1, <2>1, NoRawKeepsEnds
  <1>6. CASE UnknownArg
    <2>1. moreOpts' = moreOpts /\ unknownArgs' = Append(unknownArgs, arg) /\ ~InOptions /\ Scanning
      BY <1>6 DEF UnknownArg, InPositional
    <2>2. arg = dashes => ~moreOpts
      BY <1>3, <2>1 DEF InOptions
    <2>3. ToSet(unknownArgs) \subseteq ToSet(unknownArgs') /\ arg \in ToSet(unknownArgs')
      <3> DEFINE us == Append(unknownArgs, arg)
                 n == Len(unknownArgs)
      <3>1. /\ IsSequence(us) /\ Len(us) = n + 1 /\ us[n + 1] = arg /\ n \in Nat
            /\ \A k \in 1 .. n : us[k] = unknownArgs[k]
        BY SequenceGrows, SequenceFacts
      <3>2. DOMAIN us = 1 .. n + 1 /\ DOMAIN unknownArgs = 1 .. n
        BY <3>1, SequenceFacts
      <3> HIDE DEF us, n
      <3>3. n + 1 \in 1 .. n + 1 /\ \A k \in 1 .. n : k \in 1 .. n + 1
        BY <3>1
      <3> QED
        BY <2>1, <3>1, <3>2, <3>3 DEF ToSet, us
    <2>4. args[argPos] = <<"-", "-">> => ~moreOpts'
      BY <2>1, <2>2 DEF arg
    <2>5. args[argPos] \in ToSet(unknownArgs')
      BY <2>3 DEF arg
    <2> QED
      BY <1>1, <2>1, <2>3, <2>4, <2>5, NoRawKeepsEnds
  <1> QED
    BY <1>4, <1>5, <1>6

LEMMA OperandWordKeepsEnds ==
  ASSUME OptionsInv, WordsInv, PlaceInv, RawInv, EndsKnown, OperandWord
  PROVE  EndsKnown'
  <1> DEFINE L == Len(rawValues)
             r == Raw("operand", 0, argPos, arg)
             f == ndx.finalOpr
  <1>1. /\ pc = "scan" /\ pc' = "scan" /\ argPos <= Len(args) /\ rawValues' = Append(rawValues, r)
        /\ numPos' = numPos + 1 /\ argPos' = argPos + 1 /\ ptr' = 1
        /\ moreOpts' = (moreOpts /\ numPos # f) /\ ~InOptions /\ Scanning
        /\ UNCHANGED <<args, opts, ndx, precmdValues, unknownArgs>>
    BY DEF OperandWord, ScanRest, setup, Goto, InPositional, Scanning, Push, NextWord
  <1>2. r.type = "operand" /\ r.opt = 0 /\ r.pos = argPos /\ r.text = arg
    BY DEF Raw
  <1> HIDE DEF r
  <1>3. argPos \in Nat /\ Len(args) \in Nat /\ numPos \in Nat /\ ptr \in Nat \ {0}
    BY CountsAre
  <1>4. /\ RawsEndAsBefore
        /\ L + 1 \in DOMAIN rawValues' /\ rawValues'[L + 1] = r
        /\ \A k \in DOMAIN rawValues' \ DOMAIN rawValues : k = L + 1
        /\ Number(Pending', L + 1) = Cardinality(Pending) + 1
    BY <1>1, <1>2, PushedIsLast
  <1>5. Cardinality(Pending) = numPos
    BY <1>1 DEF RawInv, Reading
  <1> HIDE DEF L
  <1>6. f \in 0 .. numPos => ~moreOpts'
    <2>1. f \in 0 .. numPos - 1 => ~moreOpts
      BY DEF EndsKnown
    <2>2. f \in 0 .. numPos => f \in 0 .. numPos - 1 \/ f = numPos
      BY <1>3
    <2> QED
      BY <1>1, <2>1, <2>2
  <1> HIDE DEF f
  <1>7. ASSUME NEW k, k = L + 1
        PROVE  EndsOptionsNow(k)' => ~moreOpts'
    <2> SUFFICES ASSUME EndsOptionsNow(k)'
                 PROVE  ~moreOpts'
      OBVIOUS
    <2>1. rawValues'[k] = r /\ Number(Pending', k) = numPos + 1 /\ ndx' = ndx
      BY <1>1, <1>4, <1>5, <1>7
    <2>2. f \in Nat /\ f < numPos + 1
      BY <1>2, <2>1 DEF EndsOptionsNow, f
    <2>3. f \in 0 .. numPos
      BY <1>3, <2>2
    <2> QED
      BY <1>6, <2>3
  <1>8. ndx'.finalOpr \in 0 .. numPos' - 1 => ~moreOpts'
    <2>1. 0 .. (numPos + 1) - 1 = 0 .. numPos
      BY <1>3
    <2> QED
      BY <1>1, <1>6, <2>1 DEF f
  <1>9. argPos' \in argPos .. Len(args) + 2 /\ ptr' \in Nat \ {0} /\ argPos' # argPos /\ ~(ptr' > 1)
    BY <1>1, <1>3
  <1>10. /\ \A q \in argPos .. argPos' - 1 : q = argPos /\ ~(q > argPos)
         /\ argPos \in argPos .. argPos' - 1
    <2>1. /\ \A q \in argPos .. (argPos + 1) - 1 : q = argPos /\ ~(q > argPos)
          /\ argPos \in argPos .. (argPos + 1) - 1
      BY <1>3
    <2> QED
      BY <1>1, <2>1
  <1>11. ASSUME NEW q, q = argPos
         PROVE  TakenWhole(q)' /\ \E k \in DOMAIN rawValues' : rawValues'[k].pos = q
    <2>1. rawValues'[L + 1].pos = q /\ rawValues'[L + 1].text = args'[q] /\ L + 1 \in DOMAIN rawValues'
      BY <1>1, <1>2, <1>4, <1>11 DEF arg
    <2> QED
      BY <2>1 DEF TakenWhole
  <1>12. \A k \in DOMAIN rawValues' \ DOMAIN rawValues :
           /\ rawValues'[k].pos \in {0} \cup argPos .. argPos' - 1
           /\ EndsOptionsNow(k)' => ~moreOpts'
    BY <1>2, <1>4, <1>7, <1>10
  <1>13. WordsEndOptions
    BY <1>1, <1>8, <1>9, <1>10, <1>11, <1>12 DEF WordsEndOptions
  <1> QED
    BY <1>1, <1>4, <1>13, ReadingKeepsEnds

\* An operand that was assigned and is final had ended the options when it was read.
LEMMA AssignedEndedThem ==
  ASSUME OptionsInv, WordsInv, PlaceInv, RawInv, FinalsFollowSingles(opts), pc \in Reading,
         \E c : ndx = Index(opts, c), Matched(opts, ndx, numPos).used = numPos,
         NEW k \in DOMAIN rawValues,
         NEW A, A = AssignOperands(precmdValues + 1, numPos),
         A[k].type # "command", A[k].opt # 0, opts[A[k].opt].finalOpt
  PROVE  EndsOptionsNow(k)
  <1> DEFINE counts == Matched(opts, ndx, numPos).counts
             n == Number(Pending, k)
  <1>1. CASE k \notin Pending
    <2>1. A[k] = rawValues[k]
      BY <1>1, AssignsByNumber
    <2> QED
      BY <2>1 DEF EndsOptionsNow
  <1>2. CASE k \in Pending
    <2>1. A[k].opt = ndx.operands[OperandOf(counts, n)].opt
      BY <1>2, AssignsByNumber
    <2>2. n \in 1 .. numPos
      <3>1. Len(rawValues) \in Nat /\ precmdValues \in Nat
        BY CountsAre
      <3>2. Pending \subseteq Nat /\ IsFiniteSet(Pending) /\ Cardinality(Pending) = numPos
        BY <3>1, PendingIsFinite DEF Pending, RawInv
      <3> QED
        BY <1>2, <3>2, NumbersAscend
    <2>3. PICK c : ndx = Index(opts, c)
      OBVIOUS
    <2>4. opts[Index(opts, c).operands[OperandOf(Matched(opts, Index(opts, c), numPos).counts, n)].opt].finalOpt
      BY <2>1, <2>3
    <2>5. Matched(opts, Index(opts, c), numPos).used = numPos
      BY <2>3
    <2>6. OptsOK(opts) /\ numPos \in Nat
      BY DEF OptionsInv, PlaceInv
    <2> HIDE DEF n
    <2>7. ndx.finalOpr \in Nat /\ ndx.finalOpr < n
      BY <2>2, <2>3, <2>4, <2>5, <2>6, FinalsComeLate
    <2> QED
      BY <1>2, <2>7 DEF EndsOptionsNow, n
  <1> QED
    BY <1>1, <1>2

LEMMA CommandWordKeepsEnds ==
  ASSUME OptionsInv, WordsInv, PlaceInv, RawInv, MatchInv, FinalsFollowSingles(opts), EndsKnown,
         CommandWord, pc' = "scan"
  PROVE  EndsKnown'
  <1> DEFINE A == AssignOperands(1, numPos)
             r == Raw("command", 0, 0, arg)
             rs == Append(A, r)
             L == Len(rawValues)
  <1>1. /\ pc = "scan" /\ cmdMode = "pending" /\ numPos = ndx.minOprs /\ ~InOptions /\ Scanning
        /\ rawValues' = rs /\ precmdValues' = Len(rs) /\ numPos' = 0
        /\ UNCHANGED <<opts, args, unknownArgs>>
    BY DEF CommandWord, ScanRest, setup, InPositional, Scanning
  <1>2. argPos' = argPos + 1 /\ ptr' = 1 /\ (moreOpts' => moreOpts)
    BY DEF CommandWord, NextWord, BadUsage
  <1>3. r.type = "command" /\ r.text = arg /\ r.pos = 0
    BY DEF Raw
  <1> HIDE DEF r
  <1>4. pc \in Reading /\ pc \in Matching /\ argPos <= Len(args)
    BY <1>1 DEF Reading, Matching, Scanning
  <1>5. precmdValues + 1 = 1 /\ numPos \in Nat /\ ndx = Index(opts, <<>>)
    BY <1>1, <1>4 DEF RawInv, PlaceInv, MatchInv
  <1>6. Matched(opts, ndx, numPos).used = numPos
    BY <1>1, <1>5, MatchedIsDeal DEF OptionsInv
  <1>7. IsAssigned(A)
    <2>1. Matched(opts, ndx, numPos).used >= numPos
      BY <1>5, <1>6
    <2> QED
      BY <1>4, <1>5, <2>1, OperandsAreAssigned
  <1>8. L \in Nat /\ DOMAIN rawValues = 1 .. L /\ argPos \in Nat /\ Len(args) \in Nat /\ ptr \in Nat \ {0}
    BY CountsAre
  <1>9. A = AssignOperands(precmdValues + 1, numPos)
    BY <1>5
  <1> HIDE DEF A
  <1>10. \A k \in DOMAIN rawValues :
           /\ A[k].text = rawValues[k].text /\ A[k].type = rawValues[k].type /\ A[k].pos = rawValues[k].pos
           /\ A[k].type # "command" /\ A[k].opt # 0 /\ opts[A[k].opt].finalOpt => EndsOptionsNow(k)
    BY <1>4, <1>5, <1>6, <1>9, AssignsByNumber, AssignedEndedThem
  <1>11. /\ Len(rs) = L + 1 /\ rs[L + 1] = r /\ DOMAIN rs = 1 .. L + 1
         /\ \A k \in 1 .. L : rs[k] = A[k]
    <2>1. IsSequence(A) /\ Len(A) = L
      BY <1>7 DEF IsAssigned
    <2> HIDE DEF L
    <2>2. /\ IsSequence(rs) /\ Len(rs) = L + 1 /\ rs[L + 1] = r
          /\ \A k \in 1 .. L : rs[k] = A[k]
      BY <2>1, SequenceGrows
    <2> QED
      BY <2>2, SequenceFacts
  <1> HIDE DEF rs, L
  <1>12. Pending' = {}
    <2>1. (L + 1) + 1 .. L + 1 = {}
      BY <1>8
    <2>2. precmdValues' = L + 1 /\ Len(rawValues') = L + 1
      BY <1>1, <1>11
    <2> QED
      BY <2>1, <2>2 DEF Pending
  <1>13. ASSUME NEW k \in DOMAIN rawValues
         PROVE  /\ k \in DOMAIN rawValues' /\ rawValues'[k].pos = rawValues[k].pos
                /\ rawValues'[k].text = rawValues[k].text /\ rawValues'[k].type = rawValues[k].type
                /\ EndsOptionsNow(k)' => EndsOptionsNow(k)
    <2>1. k \in 1 .. L /\ k \in 1 .. L + 1
      BY <1>8
    <2>2. rawValues'[k] = A[k] /\ k \in DOMAIN rawValues'
      BY <1>1, <1>11, <2>1
    <2>3. EndsOptionsNow(k)' => EndsOptionsNow(k)
      BY <1>1, <1>10, <1>12, <2>2 DEF EndsOptionsNow
    <2> QED
      BY <1>10, <2>2, <2>3
  <1>14. RawsEndAsBefore
    BY <1>1, <1>13 DEF RawsEndAsBefore
  <1>15. ASSUME NEW k \in DOMAIN rawValues' \ DOMAIN rawValues
         PROVE  rawValues'[k].pos \in {0} \cup argPos .. argPos' - 1 /\ ~(EndsOptionsNow(k)')
    <2>1. k \in 1 .. L + 1 /\ k \notin 1 .. L
      BY <1>1, <1>8, <1>11
    <2>2. k = L + 1
      BY <1>8, <2>1
    <2>3. rawValues'[k] = r
      BY <1>1, <1>11, <2>2
    <2> QED
      BY <1>3, <1>12, <2>3 DEF EndsOptionsNow
  <1>16. 0 .. numPos' - 1 = {}
    BY <1>1
  <1>17. argPos' \in argPos .. Len(args) + 2 /\ ptr' \in Nat \ {0} /\ argPos' # argPos /\ ~(ptr' > 1)
    BY <1>2, <1>4, <1>8
  <1>18. \A q \in argPos .. argPos' - 1 : q = argPos /\ ~(q > argPos)
    <2>1. \A q \in argPos .. (argPos + 1) - 1 : q = argPos /\ ~(q > argPos)
      BY <1>8
    <2> QED
      BY <1>2, <2>1
  <1>19. ASSUME NEW q, q = argPos
         PROVE  TakenWhole(q)' /\ (args[q] = <<"-", "-">> => ~moreOpts')
    <2>1. L + 1 \in DOMAIN rawValues'
      BY <1>1, <1>8, <1>11
    <2>2. rawValues'[L + 1].type = "command" /\ rawValues'[L + 1].text = args'[q]
      BY <1>1, <1>3, <1>11, <1>19 DEF arg
    <2>3. TakenWhole(q)'
      BY <2>1, <2>2 DEF TakenWhole
    <2> DEFINE dashes == <<"-", "-">>
    <2>4. Len(dashes) = 2 /\ Head(dashes) = "-"
      OBVIOUS
    <2>5. arg = dashes => ~moreOpts
      BY <1>1, <2>4 DEF InOptions
    <2> QED
      BY <1>2, <1>19, <2>3, <2>5 DEF arg
  <1>20. WordsEndOptions
    BY <1>2, <1>15, <1>16, <1>17, <1>18, <1>19 DEF WordsEndOptions
  <1> QED
    BY <1>14, <1>20, ReadingKeepsEnds

LEMMA AssignRestEnds ==
  ASSUME OptionsInv, WordsInv, PlaceInv, RawInv, ModeInv, MatchInv, FinalsFollowSingles(opts),
         EndsKnown, AssignRest, RawInv', pc' = "values"
  PROVE  /\ WholeAfterEnds(Len(args))'
         /\ \A k \in DOMAIN rawValues' : rawValues'[k].type # "command" => rawValues'[k].opt # 0
  <1> DEFINE A == AssignOperands(precmdValues + 1, numPos)
             used == Matched(opts, ndx, numPos).used
  <1>1. /\ pc = "scan" /\ argPos > Len(args)
        /\ UNCHANGED <<opts, args, unknownArgs, ndx, precmdValues>>
        /\ \/ cmdMode = "unknown" /\ rawValues' = rawValues
           \/ rawValues' = A /\ ~(used < numPos)
    BY DEF AssignRest, setup, BadUsage, BadValue, Abort
  <1>2. pc \in Reading /\ pc \in Matching
    BY <1>1 DEF Reading, Matching
  <1>3. /\ Len(args) \in Nat /\ argPos \in Nat /\ numPos \in Nat
        /\ DOMAIN rawValues = 1 .. Len(rawValues)
    BY CountsAre
  <1>4. \E c : ndx = Index(opts, c)
    BY <1>2 DEF ModeInv, MatchInv
  <1>5. Len(rawValues') = Len(rawValues) /\ \A k : k \in DOMAIN rawValues' <=> k \in DOMAIN rawValues
    <2>1. CASE rawValues' = rawValues
      BY <2>1
    <2>2. CASE rawValues' = A /\ ~(used < numPos)
      <3>1. used \in 0 .. numPos
        BY <1>3, MatchedIsDeal DEF OptionsInv, Deals
      <3> HIDE DEF used
      <3>2. used = numPos /\ used >= numPos
        BY <1>3, <2>2, <3>1
      <3>3. IsAssigned(A)
        BY <1>2, <3>2, OperandsAreAssigned DEF used
      <3>4. IsSequence(A) /\ IsSequence(rawValues) /\ Len(A) = Len(rawValues)
        BY <3>3 DEF IsAssigned, RawInv
      <3> QED
        BY <2>2, <3>4, SequenceFacts
    <2> QED
      BY <1>1, <2>1, <2>2
  <1>6. ASSUME NEW k \in DOMAIN rawValues
        PROVE  /\ rawValues'[k].pos = rawValues[k].pos
               /\ rawValues'[k].text = rawValues[k].text /\ rawValues'[k].type = rawValues[k].type
               /\ rawValues'[k].type # "command" /\ rawValues'[k].opt # 0
                    /\ opts[rawValues'[k].opt].finalOpt => EndsOptionsNow(k)
    <2>1. CASE rawValues' = rawValues
      BY <2>1 DEF EndsOptionsNow
    <2>2. CASE rawValues' = A /\ ~(used < numPos)
      <3>1. used \in 0 .. numPos
        BY <1>3, MatchedIsDeal DEF OptionsInv, Deals
      <3> HIDE DEF used
      <3>2. used = numPos
        BY <1>3, <2>2, <3>1
      <3> HIDE DEF A
      <3>3. /\ A[k].text = rawValues[k].text /\ A[k].type = rawValues[k].type /\ A[k].pos = rawValues[k].pos
            /\ A[k].type # "command" /\ A[k].opt # 0 /\ opts[A[k].opt].finalOpt => EndsOptionsNow(k)
        BY <1>2, <1>4, <3>2, AssignsByNumber, AssignedEndedThem DEF used, A
      <3> QED
        BY <2>2, <3>3
    <2> QED
      BY <1>1, <2>1, <2>2
  <1>7. \A k \in DOMAIN rawValues' : rawValues'[k].type # "command" => rawValues'[k].opt # 0
    <2>1. opts' = opts /\ DOMAIN opts = 1 .. Len(opts)
      BY <1>1, SequenceFacts DEF OptionsInv, OptsOK
    <2>2. \A k \in DOMAIN rawValues' : rawValues'[k].type # "command" => rawValues'[k].opt \in DOMAIN opts'
      BY DEF RawInv, IsRaw
    <2>3. 0 \notin 1 .. Len(opts)
      OBVIOUS
    <2> QED
      BY <2>1, <2>2, <2>3
  <1>8. Pending' = Pending
    <2>1. precmdValues + 1 .. Len(rawValues) \subseteq 1 .. Len(rawValues)
      BY CountsAre
    <2>2. \A k \in precmdValues + 1 .. Len(rawValues) : rawValues'[k].type = rawValues[k].type
      BY <1>3, <1>6, <2>1
    <2> QED
      BY <1>1, <1>5, <2>2 DEF Pending
  <1>9. \A k \in DOMAIN rawValues : EndsOptionsNow(k)' => EndsOptionsNow(k)
    <2> TAKE k \in DOMAIN rawValues
    <2>1. CASE rawValues'[k].type # "command" /\ rawValues'[k].opt # 0 /\ opts[rawValues'[k].opt].finalOpt
      BY <1>6, <2>1
    <2>2. CASE k \in Pending /\ ndx.finalOpr \in Nat /\ ndx.finalOpr < Number(Pending, k)
      BY <2>2 DEF EndsOptionsNow
    <2> QED
      BY <1>1, <1>8, <2>1, <2>2 DEF EndsOptionsNow
  <1>10. RawsEndAsBefore
    BY <1>1, <1>5, <1>6, <1>9 DEF RawsEndAsBefore
  <1>11. ASSUME NEW p \in 2 .. Len(args), NEW q \in 2 .. Len(args), p < q, EndsAt(p)'
         PROVE  TakenWhole(q)'
    <2>1. EndsAt(p)
      BY <1>5, <1>10, <1>11, OldEndsAreKept
    <2>2. p \in 2 .. argPos - 1 /\ q \in 2 .. argPos - 1
      BY <1>1, <1>3
    <2>3. TakenWhole(q)
      BY <1>11, <2>1, <2>2 DEF EndsKnown, WholeAfterEnds
    <2> QED
      BY <1>10, <2>3, WholeStaysWhole
  <1>12. WholeAfterEnds(Len(args))'
    BY <1>1, <1>11 DEF WholeAfterEnds
  <1> QED
    BY <1>7, <1>12

\* Help options are no operands.
LEMMA TouchKeepsFinals ==
  ASSUME OptsOK(opts), touchAllCmds, FinalsFollowSingles(opts)
  PROVE  FinalsFollowSingles(opts')
  <1> DEFINE new == SetToSeq(Untouched)
             L == Len(opts)
             os == opts'
  <1>1. IsTouched(os, new)
    BY TouchAdds
  <1> HIDE DEF new
  <1>2. /\ DOMAIN opts = 1 .. L
        /\ \A i \in DOMAIN os : \/ i \in 1 .. L /\ os[i] = opts[i]
                                \/ \E c : os[i] = helpOpt(c)
    BY <1>1, TouchedIs
  <1> HIDE DEF os, L
  <1>3. ASSUME NEW c
        PROVE  \A k \in DOMAIN helpOpt(c).names : helpOpt(c).names[k].form = ""
    <2> DEFINE name == [form |-> "", key |-> <<"help">>, modifier |-> "", dot |-> TRUE]
    <2>1. helpOpt(c).names = <<name>>
      BY DEF helpOpt
    <2>2. name.form = ""
      OBVIOUS
    <2> DEFINE names == <<name>>
    <2> HIDE DEF name
    <2>3. DOMAIN names = 1 .. 1 /\ names[1] = name
      OBVIOUS
    <2> HIDE DEF names
    <2>4. \A k \in DOMAIN names : k = 1
      BY <2>3
    <2>5. \A k \in DOMAIN names : names[k].form = ""
      BY <2>2, <2>3, <2>4
    <2>6. helpOpt(c).names = names
      BY <2>1 DEF names
    <2> QED
      BY <2>5, <2>6
  <1>4. \A i \in DOMAIN os : \A k \in DOMAIN os[i].names :
          os[i].names[k].form # "" => i \in DOMAIN opts /\ os[i] = opts[i]
    BY <1>2, <1>3
  <1>5. ASSUME NEW i \in DOMAIN os, NEW j \in DOMAIN os,
               NEW k \in DOMAIN os[i].names, NEW l \in DOMAIN os[j].names,
               i < j, os[i].command = os[j].command, os[j].finalOpt,
               os[i].max # 0, os[i].names[k].form # "", os[j].max # 0, os[j].names[l].form # ""
        PROVE  /\ OptName(i, os[i].names[k], 0).optional => OptName(j, os[j].names[l], 0).optional
               /\ ~os[i].finalOpt => os[i].min = 1 /\ os[i].max = 1
    <2>1. i \in DOMAIN opts /\ os[i] = opts[i] /\ j \in DOMAIN opts /\ os[j] = opts[j]
      BY <1>4, <1>5
    <2> QED
      BY <1>5, <2>1 DEF FinalsFollowSingles
  <1>6. FinalsFollowSingles(os)
    BY <1>5 DEF FinalsFollowSingles
  <1> QED
    BY <1>6 DEF os

LEMMA NothingReadEndsNothing ==
  ASSUME pc' \in Reading, argPos' = 2, ptr' = 1, numPos' = 0, rawValues' = <<>>
  PROVE  EndsKnown'
  <1>1. DOMAIN rawValues' = {} /\ 2 .. argPos' - 1 = {} /\ 0 .. numPos' - 1 = {} /\ ~(ptr' > 1)
    BY SequenceEmpty
  <1> QED
    BY <1>1 DEF EndsKnown, WholeAfterEnds

LEMMA StartKeepsFinal ==
  ASSUME OptionsInv, FinalInv, StartParse(argv)
  PROVE  FinalInv'
  <1>1. touchAllCmds /\ OptsOK(opts)
    BY DEF StartParse, OptionsInv
  <1>2. FinalsFollowSingles(opts')
    BY <1>1, TouchKeepsFinals DEF FinalInv
  <1>3. /\ pc' \in {"expand", "before"} /\ argPos' = 2 /\ ptr' = 1 /\ numPos' = 0
        /\ rawValues' = <<>> /\ unknownArgs' = <<>>
    BY DEF StartParse
  <1>4. EndsKnown' /\ IsSequence(unknownArgs')
    BY <1>3, NothingReadEndsNothing, SequenceEmpty DEF Reading
  <1> QED
    BY <1>2, <1>3, <1>4 DEF FinalInv

LEMMA ScanKeepsFinal ==
  ASSUME OptionsInv, WordsInv, PlaceInv, RawInv, MatchInv, FinalInv,
         \/ ShortName \/ LongName \/ EndOfCluster \/ BareDashes \/ UnknownArg \/ OperandWord
         \/ CommandWord
  PROVE  FinalInv'
  <1>1. pc = "scan" /\ opts' = opts
    BY DEF ShortName, LongName, EndOfCluster, BareDashes, UnknownArg, OperandWord, CommandWord,
           ScanRest, setup, InPositional, InOptions, Scanning
  <1>2. EndsKnown /\ IsSequence(unknownArgs) /\ FinalsFollowSingles(opts)
    BY <1>1 DEF FinalInv, Reading
  <1>3. unknownArgs' = unknownArgs \/ unknownArgs' = Append(unknownArgs, arg)
    BY DEF ShortName, LongName, EndOfCluster, BareDashes, UnknownArg, OperandWord, CommandWord
  <1>4. IsSequence(unknownArgs')
    BY <1>2, <1>3, SequenceGrows
  <1>5. pc' = "rejected" \/ (pc' = "scan" /\ EndsKnown')
    <2>1. CASE ShortName
      BY <1>2, <2>1, ShortNameTakes, TakesOptionKeepsEnds DEF TakesOption
    <2>2. CASE LongName
      BY <1>2, <2>2, LongNameTakes, TakesOptionKeepsEnds DEF TakesOption
    <2>3. CASE EndOfCluster \/ BareDashes \/ UnknownArg
      <3>1. pc' = "scan"
        BY <2>3 DEF EndOfCluster, BareDashes, UnknownArg, Goto
      <3> QED
        BY <1>2, <2>3, <3>1, WordsWithoutValueKeepEnds
    <2>4. CASE OperandWord
      <3>1. pc' = "scan"
        BY <2>4 DEF OperandWord, Goto
      <3> QED
        BY <1>2, <2>4, <3>1, OperandWordKeepsEnds
    <2>5. CASE CommandWord
      <3>1. pc' \in {"scan", "rejected"}
        BY <2>5 DEF CommandWord, Goto, BadUsage
      <3> QED
        BY <1>2, <2>5, <3>1, CommandWordKeepsEnds
    <2> QED
      BY <2>1, <2>2, <2>3, <2>4, <2>5
  <1> QED
    BY <1>1, <1>2, <1>4, <1>5 DEF FinalInv, Reading

LEMMA AssignKeepsFinal ==
  ASSUME OptionsInv, WordsInv, PlaceInv, RawInv, ModeInv, MatchInv, FinalInv, AssignRest, RawInv'
  PROVE  FinalInv'
  <1>1. pc = "scan" /\ opts' = opts /\ pc' \in {"values"} \cup Stopped
    BY DEF AssignRest, setup, Goto, BadUsage, BadValue, Abort, Stopped
  <1>2. EndsKnown /\ FinalsFollowSingles(opts)
    BY <1>1 DEF FinalInv, Reading
  <1>3. CASE pc' = "values"
    <2>1. /\ WholeAfterEnds(Len(args))'
          /\ \A k \in DOMAIN rawValues' : rawValues'[k].type # "command" => rawValues'[k].opt # 0
      BY <1>2, <1>3, AssignRestEnds
    <2> QED
      BY <1>1, <1>2, <1>3, <2>1 DEF FinalInv, Reading
  <1>4. CASE pc' \in Stopped
    BY <1>1, <1>2, <1>4 DEF FinalInv, Reading, Stopped
  <1> QED
    BY <1>1, <1>3, <1>4

\* Nothing of this changes.
SameEnds == UNCHANGED <<opts, args, argPos, ptr, moreOpts, numPos, ndx, rawValues, precmdValues, unknownArgs>>

LEMMA SameIsKept ==
  ASSUME FinalInv, SameEnds,
         \/ pc' = pc
         \/ pc \in {"values", "after"} /\ pc' \notin Reading
         \/ pc' \notin Matching
  PROVE  FinalInv'
  <1>1. UNCHANGED <<opts, args, argPos, ptr, moreOpts, numPos, ndx, rawValues, precmdValues, unknownArgs>>
    BY DEF SameEnds
  <1>2. FinalsFollowSingles(opts')
    BY <1>1 DEF FinalInv
  <1>3. \A k : EndsOptionsNow(k)' <=> EndsOptionsNow(k)
    <2>1. Pending' = Pending
      BY <1>1 DEF Pending
    <2> QED
      BY <1>1, <2>1 DEF EndsOptionsNow
  <1>4. \A p : (EndsAt(p)' <=> EndsAt(p)) /\ (TakenWhole(p)' <=> TakenWhole(p))
    BY <1>1, <1>3 DEF EndsAt, TakenWhole
  <1>5. CASE pc' = pc
    <2>1. EndsKnown => EndsKnown'
      <3> SUFFICES ASSUME EndsKnown
                   PROVE  EndsKnown'
        OBVIOUS
      <3>1. WholeAfterEnds(argPos - 1)'
        BY <1>1, <1>4 DEF EndsKnown, WholeAfterEnds
      <3> QED
        BY <1>1, <1>3, <1>4, <1>5, <3>1 DEF EndsKnown
    <2>2. WholeAfterEnds(Len(args)) => WholeAfterEnds(Len(args))'
      BY <1>1, <1>4 DEF WholeAfterEnds
    <2> QED
      BY <1>1, <1>2, <1>5, <2>1, <2>2 DEF FinalInv
  <1>6. CASE pc \in {"values", "after"} /\ pc' \notin Reading
    <2>1. WholeAfterEnds(Len(args)) => WholeAfterEnds(Len(args))'
      BY <1>1, <1>4 DEF WholeAfterEnds
    <2> QED
      BY <1>1, <1>2, <1>6, <2>1 DEF FinalInv
  <1>7. CASE pc' \notin Matching
    BY <1>2, <1>7 DEF FinalInv, Matching, Reading
  <1> QED
    BY <1>5, <1>6, <1>7

LEMMA FinalKept ==
  ASSUME OptionsInv, WordsInv, PlaceInv, RawInv, ModeInv, MatchInv, FinalInv, [MainNext]_allVars,
         PlaceInv', RawInv'
  PROVE  FinalInv'
  <1>1. CASE FirstParse \/ SecondParse
    BY <1>1, StartKeepsFinal DEF FirstParse, SecondParse
  <1>2. CASE ParseStep
    <2>1. CASE NextFrameWord \/ expandResponseFile \/ LeaveResponseFile \/ EndExpand \/ BeforeActions
      <3>1. /\ pc \in {"expand", "before"} /\ pc' \in Reading \cup {"rejected"}
            /\ UNCHANGED <<opts, argPos, ptr, numPos, rawValues, unknownArgs>>
        BY <2>1 DEF NextFrameWord, expandResponseFile, LeaveResponseFile, EndExpand, BeforeActions,
                    FileVars, setup, scanVars, Goto, BadUsage, Reading
      <3>2. argPos = 2 /\ numPos = 0
        BY <3>1 DEF PlaceInv
      <3>3. FinalsFollowSingles(opts) /\ rawValues = <<>> /\ ptr = 1 /\ IsSequence(unknownArgs)
        BY <3>1 DEF FinalInv, EndsKnown, Reading
      <3>4. CASE pc' \in Reading
        <4>1. EndsKnown'
          BY <3>1, <3>2, <3>3, <3>4, NothingReadEndsNothing
        <4> QED
          BY <3>1, <3>3, <3>4, <4>1 DEF FinalInv, Reading
      <3>5. CASE pc' = "rejected"
        BY <3>1, <3>3, <3>5 DEF FinalInv, Reading
      <3> QED
        BY <3>1, <3>4, <3>5
    <2>2. CASE \/ ShortName \/ LongName \/ EndOfCluster \/ BareDashes \/ UnknownArg \/ OperandWord
               \/ CommandWord
      BY <2>2, ScanKeepsFinal
    <2>3. CASE AssignRest
      BY <2>3, AssignKeepsFinal
    <2>4. CASE ParseValue \/ CheckMinimums \/ AfterActions
      <3>1. pc \in {"values", "after"} /\ pc' \notin Reading /\ SameEnds
        BY <2>4 DEF ParseValue, CheckMinimums, AfterActions, ValueRest, setup, scanVars, Goto,
                    BadUsage, BadValue, Abort, ExitParse, SameEnds, Reading
      <3> QED
        BY <3>1, SameIsKept
    <2> QED
      BY <1>2, <2>1, <2>2, <2>3, <2>4 DEF ParseStep
  <1>3. CASE After
    <2>1. pc' \notin Matching
      BY <1>3, AfterIsOut
    <2>2. FinalsFollowSingles(opts')
      <3>1. opts' = opts
        BY <1>3 DEF After, OpenFiles, InstallAction, ReturnExitCode, RunAction, defCmdAction,
                    ExecRest, setup, allVars, parseVars
      <3> QED
        BY <3>1 DEF FinalInv
    <2> QED
      BY <2>1, <2>2 DEF FinalInv, Matching, Reading
  <1>4. CASE ChangeFiles \/ UNCHANGED allVars
    <2>1. pc' = pc /\ SameEnds
      BY <1>4 DEF ChangeFiles, allVars, parseVars, setup, scanVars, SameEnds
    <2> QED
      BY <2>1, SameIsKept
  <1> QED
    BY <1>1, <1>2, <1>3, <1>4 DEF MainNext, MainStep, After

\* At the end of a parse the command is known by its text, so a word that was taken whole
\* is what the property asks for.
LEMMA AcceptedEndsOptions ==
  ASSUME CommandIInv, ModeInv, MatchInv, ValuesInv, FinalInv
  PROVE  FinalEndsOptions
  <1> SUFFICES ASSUME pc = "accepted"
               PROVE  FinalEndsOptions
    BY DEF FinalEndsOptions
  <1> DEFINE Whole(p)  == \/ \E k \in DOMAIN rawValues : rawValues[k].pos = p /\ rawValues[k].text = args[p]
                          \/ args[p] = command \/ args[p] \in ToSet(unknownArgs)
             BareAt(p) == args[p] = <<"-", "-">> /\ \A k \in DOMAIN rawValues : rawValues[k].pos # p
             EndAt(p)  == \/ BareAt(p)
                          \/ \E k \in DOMAIN rawValues : /\ rawValues[k].type # "command"
                                                         /\ rawValues[k].pos = p
                                                         /\ opts[rawValues[k].opt].finalOpt
  <1>1. /\ WholeAfterEnds(Len(args))
        /\ \A k \in DOMAIN rawValues : rawValues[k].type # "command" => rawValues[k].opt # 0
    BY DEF FinalInv
  <1>2. \A p : EndAt(p) => EndsAt(p)
    BY <1>1 DEF EndsAt, EndsOptionsNow
  <1>3. \A k \in DOMAIN rawValues : rawValues[k].type = "command" => rawValues[k].text = command
    <2> SUFFICES ASSUME NEW k \in DOMAIN rawValues, rawValues[k].type = "command"
                 PROVE  rawValues[k].text = command
      OBVIOUS
    <2>1. pc \in Matching
      BY DEF Matching
    <2>2. cmdMode \in {"found", "unknown"} /\ k = precmdValues
      BY <2>1 DEF MatchInv, ModeInv
    <2>3. nextRaw > precmdValues
      <3>1. nextRaw = Len(rawValues) + 1
        BY <2>1 DEF ValuesInv
      <3>2. Len(rawValues) \in Nat /\ precmdValues \in Nat /\ precmdValues <= Len(rawValues)
        BY CountsAre DEF CommandIInv
      <3> QED
        BY <3>1, <3>2
    <2> QED
      BY <2>1, <2>2, <2>3 DEF MatchInv
  <1>4. \A q : TakenWhole(q) => Whole(q)
    BY <1>3 DEF TakenWhole
  <1>5. \A p, q \in 2 .. Len(args) : p < q /\ EndAt(p) => Whole(q)
    BY <1>1, <1>2, <1>4 DEF WholeAfterEnds
  <1> QED
    BY <1>5 DEF FinalEndsOptions

\* After a bare "--" and after a final option or operand no word is an option, in programs
\* whose operands before a final one have one value each, or are final (cli.cpp:2429).
THEOREM FinalEnds ==
  ASSUME \A p \in Programs : FinalsFollowSingles(p.opts)
  PROVE  MainSpec => []FinalEndsOptions
  <1> DEFINE Inv == ModeInv /\ MatchInv /\ ValuesInv /\ FinalInv
  <1>1. MainInit => Inv
    <2> SUFFICES ASSUME MainInit
                 PROVE  Inv
      OBVIOUS
    <2>1. pc = "start" /\ program \in Programs /\ opts = program.opts
      BY DEF MainInit
    <2> QED
      BY <2>1, ModeBegins DEF MatchInv, ValuesInv, FinalInv, Matching, Reading
  <1>2. CommandIInv /\ Inv /\ [MainNext]_allVars /\ CommandIInv' => Inv'
    BY ModeKept, MatchKept, ValuesKept, FinalKept DEF CommandIInv
  <1>3. CommandIInv /\ Inv => FinalEndsOptions
    BY AcceptedEndsOptions
  <1> HIDE DEF Inv
  <1> QED
    BY <1>1, <1>2, <1>3, CommandInvariance, PTL DEF MainSpec
-----------------------------------------------------------------------------
(***************************************************************************)
(* What words stand for when the response files among them are replaced, and *)
(* which files that reaches.                                               *)
(***************************************************************************)
\* f[i] is the concatenation of the first i of seqs.
Sums(f, seqs, W) ==
  /\ f \in [0 .. Len(seqs) -> Seq(W)] /\ f[0] = <<>>
  /\ \A i \in 1 .. Len(seqs) : f[i] = f[i - 1] \o seqs[i]

LEMMA SumsExist ==
  ASSUME NEW W, NEW seqs \in Seq(Seq(W))
  PROVE  \E f : Sums(f, seqs, W)
  <1> DEFINE n == Len(seqs)
             s == [i \in 1 .. n |-> [x \in Seq(W) |-> x \o seqs[i]]]
  <1>1. n \in Nat /\ <<>> \in Seq(W) /\ \A i \in 1 .. n : seqs[i] \in Seq(W)
    OBVIOUS
  <1>2. s \in [1 .. n -> [Seq(W) -> Seq(W)]]
    BY <1>1
  <1>3. PICK f : TakesSteps(f, n, Seq(W), <<>>, s)
    BY <1>1, <1>2, StepsExist
  <1>4. /\ f \in [0 .. n -> Seq(W)] /\ f[0] = <<>>
        /\ \A i \in 1 .. n : f[i] = s[i][f[i - 1]]
    BY <1>3 DEF TakesSteps
  <1>5. \A i \in 1 .. n : f[i - 1] \in Seq(W)
    <2>1. \A i \in 1 .. n : i - 1 \in 0 .. n
      BY <1>1
    <2> QED
      BY <1>4, <2>1
  <1>6. \A i \in 1 .. n : s[i][f[i - 1]] = f[i - 1] \o seqs[i]
    BY <1>5
  <1> HIDE DEF s, n
  <1> QED
    BY <1>4, <1>6 DEF Sums, n

LEMMA FlatIsSum ==
  ASSUME NEW W, NEW seqs \in Seq(Seq(W)), NEW f, Sums(f, seqs, W)
  PROVE  FlattenSeq(seqs) = f[Len(seqs)]
  <1> DEFINE n == Len(seqs)
             Is(g) == g = [i \in 1 .. n |-> IF i = 1 THEN seqs[i] ELSE g[i - 1] \o seqs[i]]
             h == [i \in 1 .. n |-> f[i]]
             c == CHOOSE g : Is(g)
  <1>1. n \in Nat /\ \A i \in 1 .. n : seqs[i] \in Seq(W)
    OBVIOUS
  <1>2. f[0] = <<>> /\ \A i \in 1 .. n : f[i] = f[i - 1] \o seqs[i]
    BY DEF Sums
  <1>3. CASE n = 0
    <2>1. FlattenSeq(seqs) = seqs /\ seqs = <<>>
      BY <1>3 DEF FlattenSeq
    <2> QED
      BY <1>2, <1>3, <2>1
  <1>4. CASE n # 0
    <2>1. 1 \in 1 .. n /\ f[1] = seqs[1]
      <3>1. 1 \in 1 .. n /\ 1 - 1 = 0
        BY <1>1, <1>4
      <3>2. f[1] = <<>> \o seqs[1] /\ seqs[1] \in Seq(W)
        BY <1>1, <1>2, <3>1
      <3> QED
        BY <3>1, <3>2
    <2>2. Is(h)
      <3>1. \A i \in 1 .. n : i # 1 => i - 1 \in 1 .. n
        BY <1>1
      <3>2. \A i \in 1 .. n : h[i] = IF i = 1 THEN seqs[i] ELSE h[i - 1] \o seqs[i]
        BY <1>2, <2>1, <3>1
      <3> QED
        BY <3>2
    <2>3. Is(c)
      BY <2>2
    <2>4. FlattenSeq(seqs) = c[n]
      BY <1>4 DEF FlattenSeq
    <2> HIDE DEF c, h
    <2> DEFINE G == {0} \cup {i \in 1 .. n : c[i] = f[i]}
    <2>5. ASSUME NEW i \in 1 .. n, i - 1 \in G
          PROVE  i \in G
      <3>1. c[i] = IF i = 1 THEN seqs[i] ELSE c[i - 1] \o seqs[i]
        BY <2>3
      <3>2. CASE i = 1
        BY <2>1, <3>1, <3>2
      <3>3. CASE i # 1
        <4>1. c[i - 1] = f[i - 1]
          BY <1>1, <2>5, <3>3
        <4> QED
          BY <1>2, <3>1, <3>3, <4>1
      <3> QED
        BY <3>2, <3>3
    <2>6. 0 \in G
      OBVIOUS
    <2>7. n \in G
      <3> HIDE DEF G
      <3>1. n \in 0 .. n
        BY <1>1
      <3> QED
        BY <1>1, <2>5, <2>6, <3>1, Upward
    <2> QED
      BY <1>4, <2>4, <2>7
  <1> QED
    BY <1>3, <1>4

LEMMA FlatAppend ==
  ASSUME NEW W, NEW seqs \in Seq(Seq(W)), NEW x \in Seq(W)
  PROVE  /\ FlattenSeq(seqs) \in Seq(W)
         /\ FlattenSeq(Append(seqs, x)) = FlattenSeq(seqs) \o x
  <1> DEFINE n == Len(seqs)
             t == Append(seqs, x)
  <1>1. /\ n \in Nat /\ t \in Seq(Seq(W)) /\ Len(t) = n + 1 /\ t[n + 1] = x
        /\ \A i \in 1 .. n : t[i] = seqs[i]
    OBVIOUS
  <1> HIDE DEF t
  <1>2. PICK f : Sums(f, t, W)
    BY <1>1, SumsExist
  <1> DEFINE g == [i \in 0 .. n |-> f[i]]
  <1>3. /\ f \in [0 .. n + 1 -> Seq(W)] /\ f[0] = <<>>
        /\ \A i \in 1 .. n + 1 : f[i] = f[i - 1] \o t[i]
    BY <1>1, <1>2 DEF Sums
  <1>4. /\ g \in [0 .. n -> Seq(W)] /\ g[0] = <<>> /\ g[n] = f[n]
        /\ \A i \in 1 .. n : g[i] = g[i - 1] \o seqs[i]
    <2>1. \A i \in 0 .. n : i \in 0 .. n + 1
      BY <1>1
    <2>2. g \in [0 .. n -> Seq(W)]
      BY <1>3, <2>1
    <2>3. \A i \in 1 .. n : i \in 0 .. n /\ i - 1 \in 0 .. n /\ i \in 1 .. n + 1
      BY <1>1
    <2>4. 0 \in 0 .. n /\ n \in 0 .. n
      BY <1>1
    <2> QED
      BY <1>1, <1>3, <2>2, <2>3, <2>4
  <1> HIDE DEF g
  <1>5. Sums(g, seqs, W)
    BY <1>4 DEF Sums
  <1>6. FlattenSeq(seqs) = g[n]
    BY <1>5, FlatIsSum
  <1>7. FlattenSeq(t) = f[n + 1]
    BY <1>1, <1>2, FlatIsSum
  <1>8. n + 1 \in 1 .. n + 1 /\ (n + 1) - 1 = n /\ n \in 0 .. n
    BY <1>1
  <1>9. f[n + 1] = f[n] \o x
    BY <1>1, <1>3, <1>8
  <1> QED
    BY <1>4, <1>6, <1>7, <1>8, <1>9 DEF t

LEMMA FlatEmpty ==
  FlattenSeq(<<>>) = <<>>
  BY DEF FlattenSeq

LEMMA FlatOfNone ==
  ASSUME NEW from, NEW flat
  PROVE  Flat(from, <<>>, flat) = <<>>
  <1>1. [i \in DOMAIN <<>> |-> Meaning(from, <<>>[i], flat)] = <<>>
    OBVIOUS
  <1> QED
    BY <1>1, FlatEmpty DEF Flat

LEMMA FlatOfNext ==
  ASSUME NEW W, NEW words \in Seq(W), NEW w \in W, NEW from,
         NEW flat, \A f \in DOMAIN flat : flat[f] \in Seq(W)
  PROVE  /\ Flat(from, words, flat) \in Seq(W)
         /\ Flat(from, Append(words, w), flat) = Flat(from, words, flat) \o Meaning(from, w, flat)
  <1> DEFINE M(v) == Meaning(from, v, flat)
             n == Len(words)
             s == [i \in DOMAIN words |-> M(words[i])]
             ws == Append(words, w)
             t == [i \in DOMAIN ws |-> M(ws[i])]
  <1>1. ASSUME NEW v \in W
        PROVE  M(v) \in Seq(W)
    <2>1. <<v>> \in Seq(W) /\ <<>> \in Seq(W)
      OBVIOUS
    <2> QED
      BY <2>1 DEF Meaning
  <1>2. /\ n \in Nat /\ DOMAIN words = 1 .. n /\ DOMAIN ws = 1 .. n + 1 /\ ws[n + 1] = w
        /\ \A i \in 1 .. n : words[i] \in W /\ ws[i] = words[i]
    OBVIOUS
  <1> HIDE DEF M, ws
  <1>3. s \in Seq(Seq(W)) /\ Len(s) = n /\ \A i \in 1 .. n : s[i] = M(words[i])
    <2>1. \A i \in 1 .. n : M(words[i]) \in Seq(W)
      BY <1>1, <1>2
    <2>2. s \in [1 .. n -> Seq(W)]
      BY <1>2, <2>1
    <2> HIDE DEF s
    <2>3. s \in Seq(Seq(W)) /\ Len(s) = n
      BY <1>2, <2>2
    <2> QED
      BY <1>2, <2>3 DEF s
  <1>4. t = Append(s, M(w))
    <2> DEFINE u == Append(s, M(w))
    <2>1. M(w) \in Seq(W)
      BY <1>1
    <2>2. u = [i \in 1 .. n + 1 |-> IF i = n + 1 THEN M(w) ELSE s[i]]
      BY <1>2, <1>3, <2>1
    <2>3. \A i \in 1 .. n + 1 : i # n + 1 => i \in 1 .. n
      BY <1>2
    <2>4. \A i \in 1 .. n + 1 : M(ws[i]) = IF i = n + 1 THEN M(w) ELSE s[i]
      BY <1>2, <1>3, <2>3
    <2> HIDE DEF u, s
    <2> QED
      BY <1>2, <2>2, <2>4 DEF u
  <1>5. Flat(from, words, flat) = FlattenSeq(s) /\ Flat(from, ws, flat) = FlattenSeq(t)
    BY DEF Flat, M
  <1> HIDE DEF s, t
  <1> QED
    BY <1>1, <1>3, <1>4, <1>5, FlatAppend DEF M, ws

\* What each file stands for at one depth is made of what they stand for one less deep.
LEMMA ExpansionsAre ==
  ASSUME NEW all, IsFiniteSet(DOMAIN all), NEW W, \A f \in DOMAIN all : all[f].words \in Seq(W)
  PROVE  /\ \A n \in 0 .. Cardinality(DOMAIN all) : Expansions(all)[n] \in [DOMAIN all -> Seq(W)]
         /\ \A n \in 1 .. Cardinality(DOMAIN all) : \A f \in DOMAIN all :
              Expansions(all)[n][f] = Flat(f, all[f].words, Expansions(all)[n - 1])
  <1> DEFINE D == DOMAIN all
             N == Cardinality(D)
             U == [D -> Seq(W)]
             b == [f \in D |-> <<>>]
             Next1(x) == [f \in D |-> Flat(f, all[f].words, x)]
             s == [i \in 1 .. N |-> [x \in U |-> Next1(x)]]
             Is(e) == e = [n \in 0 .. N |->
                             [f \in D |-> IF n = 0 THEN <<>> ELSE Flat(f, all[f].words, e[n - 1])]]
             E == CHOOSE e : Is(e)
  <1>1. N \in Nat
    BY FS_CardinalityType
  <1>2. b \in U
    OBVIOUS
  <1>3. ASSUME NEW x \in U
        PROVE  Next1(x) \in U
    <2>1. ASSUME NEW f \in D
          PROVE  Flat(f, all[f].words, x) \in Seq(W)
      <3> DEFINE ws == all[f].words
      <3>1. ws \in Seq(W)
        OBVIOUS
      <3>2. \A h \in DOMAIN x : x[h] \in Seq(W)
        OBVIOUS
      <3>3. CASE ws = <<>>
        <4>1. <<>> \in Seq(W)
          OBVIOUS
        <4> HIDE DEF ws
        <4>2. Flat(f, ws, x) \in Seq(W)
          BY <3>3, <4>1, FlatOfNone
        <4> QED
          BY <4>2 DEF ws
      <3>4. CASE ws # <<>>
        <4>1. PICK w \in W : TRUE
          <5> HIDE DEF ws
          <5>1. ws[1] \in W
            BY <3>1, <3>4
          <5> QED
            BY <5>1
        <4> HIDE DEF ws
        <4>2. Flat(f, ws, x) \in Seq(W)
          BY <3>1, <3>2, <4>1, FlatOfNext
        <4> QED
          BY <4>2 DEF ws
      <3> QED
        BY <3>3, <3>4
    <2> QED
      BY <2>1
  <1> HIDE DEF U, b, Next1
  <1>4. s \in [1 .. N -> [U -> U]]
    BY <1>3
  <1>5. PICK e : TakesSteps(e, N, U, b, s)
    BY <1>1, <1>2, <1>4, StepsExist
  <1>6. e \in [0 .. N -> U] /\ e[0] = b /\ \A i \in 1 .. N : e[i] = s[i][e[i - 1]]
    BY <1>5 DEF TakesSteps
  <1>7. \A i \in 1 .. N : e[i - 1] \in U /\ e[i] = Next1(e[i - 1])
    <2>1. \A i \in 1 .. N : i - 1 \in 0 .. N
      BY <1>1
    <2> QED
      BY <1>6, <2>1
  <1> HIDE DEF s
  <1>8. Is(e)
    <2>1. \A n \in 0 .. N : e[n] = [f \in D |-> IF n = 0 THEN <<>> ELSE Flat(f, all[f].words, e[n - 1])]
      <3> SUFFICES ASSUME NEW n \in 0 .. N
                   PROVE  e[n] = [f \in D |-> IF n = 0 THEN <<>> ELSE Flat(f, all[f].words, e[n - 1])]
        OBVIOUS
      <3>1. CASE n = 0
        BY <1>6, <3>1 DEF b
      <3>2. CASE n # 0
        <4>1. n \in 1 .. N
          BY <1>1, <3>2
        <4> QED
          BY <1>7, <3>2, <4>1 DEF Next1
      <3> QED
        BY <3>1, <3>2
    <2> QED
      BY <1>6, <2>1
  <1>9. Is(E)
    BY <1>8
  <1>10. Expansions(all) = E
    BY DEF Expansions
  <1> HIDE DEF E
  <1>11. /\ \A f \in D : E[0][f] = <<>>
         /\ DOMAIN E[0] = D
         /\ \A n \in 1 .. N : E[n] = Next1(E[n - 1])
    <2>1. 0 \in 0 .. N /\ \A n \in 1 .. N : n \in 0 .. N /\ n # 0
      BY <1>1
    <2> QED
      BY <1>9, <2>1 DEF Next1
  <1> HIDE DEF Is
  <1> DEFINE G == {n \in 0 .. N : E[n] \in U}
  <1>12. 0 \in G
    <2>1. E[0] = b
      <3>1. \A n \in 0 .. N : E[n] = [f \in D |-> E[n][f]]
        BY <1>9 DEF Is
      <3> QED
        BY <1>1, <1>11, <3>1 DEF b
    <2> QED
      BY <1>1, <1>2, <2>1
  <1>13. \A n \in 1 .. N : n - 1 \in G => n \in G
    BY <1>3, <1>11
  <1>14. \A n \in 0 .. N : n \in G
    <2> HIDE DEF G
    <2> QED
      BY <1>1, <1>12, <1>13, Upward
  <1>15. \A n \in 0 .. N : E[n] \in U
    BY <1>14
  <1>16. \A n \in 1 .. N : \A f \in D : E[n][f] = Flat(f, all[f].words, E[n - 1])
    BY <1>11 DEF Next1
  <1> QED
    BY <1>10, <1>15, <1>16 DEF U

\* The files named by those in S.
Directly(all, S) == UNION {Targets(f, all[f].words) : f \in S \cap DOMAIN all}

LEMMA ReachedSteps ==
  ASSUME NEW all, IsFiniteSet(DOMAIN all), NEW from, NEW words
  PROVE  /\ ReachedIn(all, from, words)[0] = Targets(from, words)
         /\ \A n \in 1 .. Cardinality(DOMAIN all) :
              ReachedIn(all, from, words)[n] =
                ReachedIn(all, from, words)[n - 1] \cup Directly(all, ReachedIn(all, from, words)[n - 1])
  <1> DEFINE D == DOMAIN all
             N == Cardinality(D)
             b == Targets(from, words)
             T == b \cup Directly(all, D)
             U == SUBSET T
             Next1(x) == x \cup Directly(all, x)
             s == [i \in 1 .. N |-> [x \in U |-> Next1(x)]]
             Is(r) == r = [n \in 0 .. N |->
                             IF n = 0 THEN b
                             ELSE r[n - 1] \cup UNION {Targets(f, all[f].words) : f \in r[n - 1] \cap D}]
             R == CHOOSE r : Is(r)
  <1>1. N \in Nat
    BY FS_CardinalityType
  <1>2. b \in U
    OBVIOUS
  <1>3. \A x \in U : Next1(x) \in U
    <2>1. \A x : Directly(all, x) \subseteq Directly(all, D)
      BY DEF Directly
    <2> QED
      BY <2>1
  <1> HIDE DEF U, b, Next1
  <1>4. s \in [1 .. N -> [U -> U]]
    BY <1>3
  <1>5. PICK r : TakesSteps(r, N, U, b, s)
    BY <1>1, <1>2, <1>4, StepsExist
  <1>6. r \in [0 .. N -> U] /\ r[0] = b /\ \A i \in 1 .. N : r[i] = s[i][r[i - 1]]
    BY <1>5 DEF TakesSteps
  <1>7. \A i \in 1 .. N : r[i] = Next1(r[i - 1])
    <2>1. \A i \in 1 .. N : i - 1 \in 0 .. N
      BY <1>1
    <2> QED
      BY <1>6, <2>1
  <1> HIDE DEF s
  <1>8. Is(r)
    <2>1. \A n \in 0 .. N :
            r[n] = IF n = 0 THEN b
                   ELSE r[n - 1] \cup UNION {Targets(f, all[f].words) : f \in r[n - 1] \cap D}
      <3>1. \A n \in 0 .. N : n # 0 => n \in 1 .. N
        BY <1>1
      <3> QED
        BY <1>6, <1>7, <3>1 DEF Next1, Directly
    <2> QED
      BY <1>6, <2>1
  <1>9. Is(R)
    BY <1>8
  <1>10. ReachedIn(all, from, words) = R
    BY DEF ReachedIn, b
  <1> HIDE DEF R
  <1>11. R[0] = b /\ \A n \in 1 .. N : R[n] = R[n - 1] \cup Directly(all, R[n - 1])
    <2>1. 0 \in 0 .. N /\ \A n \in 1 .. N : n \in 0 .. N /\ n # 0
      BY <1>1
    <2> QED
      BY <1>9, <2>1 DEF Directly
  <1> QED
    BY <1>10, <1>11 DEF b

\* Nothing else is reached than a set that has the files named and those they name.
LEMMA ReachedWithin ==
  ASSUME NEW all, IsFiniteSet(DOMAIN all), NEW from, NEW words, NEW S,
         Targets(from, words) \subseteq S, Directly(all, S) \subseteq S
  PROVE  Reached(all, from, words) \subseteq S
  <1> DEFINE N == Cardinality(DOMAIN all)
             r == ReachedIn(all, from, words)
             G == {n \in 0 .. N : r[n] \subseteq S}
  <1>1. N \in Nat
    BY FS_CardinalityType
  <1>2. r[0] = Targets(from, words) /\ \A n \in 1 .. N : r[n] = r[n - 1] \cup Directly(all, r[n - 1])
    BY ReachedSteps
  <1> HIDE DEF r
  <1>3. 0 \in G
    BY <1>1, <1>2
  <1>4. ASSUME NEW n \in 1 .. N, n - 1 \in G
        PROVE  n \in G
    <2>1. Directly(all, r[n - 1]) \subseteq Directly(all, S)
      BY <1>4 DEF Directly
    <2> QED
      BY <1>1, <1>2, <1>4, <2>1
  <1>5. N \in 0 .. N
    BY <1>1
  <1>6. N \in G
    <2> HIDE DEF G
    <2> QED
      BY <1>1, <1>3, <1>4, <1>5, Upward
  <1> QED
    BY <1>6 DEF Reached, r

LEMMA ReachedSooner ==
  ASSUME NEW all, IsFiniteSet(DOMAIN all), NEW from, NEW words,
         NEW n \in 0 .. Cardinality(DOMAIN all)
  PROVE  ReachedIn(all, from, words)[n] \subseteq Reached(all, from, words)
  <1> DEFINE N == Cardinality(DOMAIN all)
             r == ReachedIn(all, from, words)
             G == {k \in 0 .. N - n : r[n] \subseteq r[n + k]}
  <1>1. N \in Nat /\ n \in Nat /\ N - n \in Nat
    BY FS_CardinalityType
  <1>2. \A i \in 1 .. N : r[i] = r[i - 1] \cup Directly(all, r[i - 1])
    BY ReachedSteps
  <1> HIDE DEF r
  <1>3. 0 \in G
    BY <1>1
  <1>4. ASSUME NEW k \in 1 .. N - n, k - 1 \in G
        PROVE  k \in G
    <2>1. n + k \in 1 .. N /\ (n + k) - 1 = n + (k - 1)
      BY <1>1
    <2>2. r[n + k] = r[n + (k - 1)] \cup Directly(all, r[n + (k - 1)])
      BY <1>2, <2>1
    <2>3. k \in 0 .. N - n
      BY <1>1
    <2> QED
      BY <1>4, <2>2, <2>3
  <1>5. N - n \in 0 .. N - n /\ n + (N - n) = N
    BY <1>1
  <1>6. N - n \in G
    <2> HIDE DEF G
    <2> QED
      BY <1>1, <1>3, <1>4, <1>5, Upward
  <1> QED
    BY <1>5, <1>6 DEF Reached, r

-----------------------------------------------------------------------------
(***************************************************************************)
(* The response files being expanded: what is known of each file that waits *)
(* for the one it names.                                                   *)
(***************************************************************************)
\* The words a frame began with.
Source(all, given, st, l) == IF l = 1 THEN given ELSE all[st[l].file].words

\* Files that can be expanded: what they name is among them, and no one contains itself.
Sound(all, S) ==
  \A f \in S : /\ f \in DOMAIN all /\ all[f].readable
               /\ Targets(f, all[f].words) \subseteq S /\ f \notin Reached(all, f, all[f].words)

\* In frame f the first k words of src were replaced by what they stand for, which is the
\* same from depth low on, and the others are still to come; S has the files so far.
Followed(all, f, src, k, low, S) ==
  LET done == SubSeq(src, 1, k)
      N    == Cardinality(DOMAIN all)
  IN /\ k \in 0 .. Len(src)
     /\ Len(f.words) = f.pos - 1 + (Len(src) - k)
     /\ \A i \in 1 .. Len(src) - k : f.words[f.pos - 1 + i] = src[k + i]
     /\ \A n \in low .. N : SubSeq(f.words, 1, f.pos - 1) = Flat(f.file, done, Expansions(all)[n])
     /\ Targets(f.file, done) \subseteq S /\ Sound(all, S)

\* Frame l can take files from as many levels as there are files left.
FrameOK(all, given, st, l) ==
  \E k, S : /\ Followed(all, st[l], Source(all, given, st, l), k, Cardinality(DOMAIN all) - l + 1, S)
            /\ \A i \in 2 .. l : st[i].file \notin S

\* Each file waits at the word that names the next one, and none waits for itself.
Waits(f, g) ==
  /\ f.pos <= Len(f.words) /\ IsFile(f.words[f.pos])
  /\ g.file = Canonical(f.file, Tail(f.words[f.pos]))

ChainOK(all, given, st) ==
  /\ IsSequence(st) /\ st # <<>> /\ st[1].file = <<>>
  /\ \A l \in 1 .. Len(st) : IsFrame(st[l])
  /\ \A l \in 2 .. Len(st) : st[l].file \in DOMAIN all /\ all[st[l].file].readable
  /\ \A i, j \in 2 .. Len(st) : st[i].file = st[j].file => i = j
  /\ \A l \in 1 .. Len(st) - 1 : Waits(st[l], st[l + 1])
  /\ \A l \in 1 .. Len(st) : FrameOK(all, given, st, l)

FilesOK(all) == IsFiniteSet(DOMAIN all) /\ \A f \in DOMAIN all : IsSequence(all[f].words)

\* No more files are open than there are.
LEMMA ChainIsShort ==
  ASSUME NEW all, FilesOK(all), NEW given, NEW st, ChainOK(all, given, st)
  PROVE  /\ Cardinality(DOMAIN all) \in Nat /\ Len(st) \in Nat \ {0} /\ DOMAIN st = 1 .. Len(st)
         /\ Len(st) <= Cardinality(DOMAIN all) + 1
  <1> DEFINE D == DOMAIN all
             N == Cardinality(D)
             L == Len(st)
             f == [i \in 1 .. L - 1 |-> st[i + 1].file]
  <1>1. N \in Nat /\ IsFiniteSet(D)
    BY FS_CardinalityType DEF FilesOK
  <1>2. L \in Nat /\ DOMAIN st = 1 .. L /\ L # 0
    <2>1. IsSequence(st) /\ st # <<>>
      BY DEF ChainOK
    <2>2. L \in Nat /\ DOMAIN st = 1 .. L /\ st \in Seq(ToSet(st))
      BY <2>1, SequenceFacts DEF IsSequence
    <2>3. L # 0
      BY <2>1, <2>2
    <2> QED
      BY <2>2, <2>3
  <1> HIDE DEF L
  <1>3. \A i \in 1 .. L - 1 : i + 1 \in 2 .. L
    BY <1>2
  <1>4. f \in [1 .. L - 1 -> D]
    BY <1>3 DEF ChainOK, L
  <1>5. \A i, j \in 1 .. L - 1 : f[i] = f[j] => i = j
    <2> SUFFICES ASSUME NEW i \in 1 .. L - 1, NEW j \in 1 .. L - 1, f[i] = f[j]
                 PROVE  i = j
      OBVIOUS
    <2>1. i + 1 = j + 1
      BY <1>3 DEF ChainOK, L
    <2> QED
      BY <2>1
  <1>6. IsFiniteSet(1 .. L - 1) /\ Cardinality(1 .. L - 1) = L - 1
    <2>1. 1 \in Int /\ L - 1 \in Int
      BY <1>2
    <2> QED
      BY <1>2, <2>1, FS_Interval
  <1> HIDE DEF f
  <1>7. ~(Cardinality(1 .. L - 1) > N)
    <2> DEFINE P == 1 .. L - 1
    <2>1. IsFiniteSet(P) /\ f \in [P -> D] /\ ~\E i, j \in P : i # j /\ f[i] = f[j]
      BY <1>4, <1>5, <1>6
    <2> HIDE DEF P
    <2>2. ~(Cardinality(P) > Cardinality(D))
      BY <1>1, <2>1, FS_PigeonHole
    <2> QED
      BY <2>2 DEF P
  <1>8. L <= N + 1
    BY <1>1, <1>2, <1>6, <1>7
  <1> QED
    BY <1>1, <1>2, <1>8 DEF L

LEMMA NextPart ==
  ASSUME NEW W, NEW s \in Seq(W), NEW n \in 1 .. Len(s)
  PROVE  /\ SubSeq(s, 1, n - 1) \in Seq(W) /\ Len(SubSeq(s, 1, n - 1)) = n - 1
         /\ SubSeq(s, 1, n) = Append(SubSeq(s, 1, n - 1), s[n])
         /\ SubSeq(s, 1, n) = SubSeq(s, 1, n - 1) \o <<s[n]>>
         /\ ToSet(SubSeq(s, 1, n)) = ToSet(SubSeq(s, 1, n - 1)) \cup {s[n]}
  <1> DEFINE a == SubSeq(s, 1, n - 1)
             b == SubSeq(s, 1, n)
             c == Append(a, s[n])
  <1>1. Len(s) \in Nat /\ n \in Nat \ {0} /\ n - 1 \in Nat /\ s[n] \in W
    OBVIOUS
  <1>2. a \in Seq(W) /\ Len(a) = n - 1 /\ \A i \in 1 .. n - 1 : a[i] = s[i]
    BY <1>1
  <1>3. b \in Seq(W) /\ Len(b) = n /\ \A i \in 1 .. n : b[i] = s[i]
    BY <1>1
  <1> HIDE DEF a, b
  <1>4. c \in Seq(W) /\ Len(c) = n /\ c[n] = s[n] /\ \A i \in 1 .. n - 1 : c[i] = s[i]
    BY <1>1, <1>2
  <1>5. \A i \in 1 .. n : i \in 1 .. n - 1 \/ i = n
    BY <1>1
  <1>6. b = c
    <2> HIDE DEF c
    <2>1. \A i \in 1 .. n : b[i] = c[i]
      BY <1>3, <1>4, <1>5
    <2>2. b = [i \in 1 .. n |-> b[i]] /\ c = [i \in 1 .. n |-> c[i]]
      BY <1>3, <1>4
    <2> QED
      BY <2>1, <2>2
  <1>7. c = a \o <<s[n]>>
    BY <1>1, <1>2
  <1>8. ToSet(b) = ToSet(a) \cup {s[n]}
    <2>1. \A i \in 1 .. n - 1 : i \in 1 .. n
      BY <1>1
    <2>2. n \in 1 .. n
      BY <1>1
    <2>3. DOMAIN b = 1 .. n /\ DOMAIN a = 1 .. n - 1
      BY <1>2, <1>3
    <2>4. ToSet(b) = {b[i] : i \in 1 .. n} /\ ToSet(a) = {a[i] : i \in 1 .. n - 1}
      BY <2>3 DEF ToSet
    <2> QED
      BY <1>2, <1>3, <1>5, <2>1, <2>2, <2>4
  <1> QED
    BY <1>2, <1>6, <1>7, <1>8 DEF a, b

WordsIn(all, W) == \A f \in DOMAIN all : all[f].words \in Seq(W)

\* With one more word of its source, frame f has what the word stands for besides.
Continues(all, f, more, w, low) ==
  \A n \in low .. Cardinality(DOMAIN all) :
    Flat(f.file, more, Expansions(all)[n])
      = SubSeq(f.words, 1, f.pos - 1) \o Meaning(f.file, w, Expansions(all)[n])

LEMMA NextTargets ==
  ASSUME NEW W, NEW src \in Seq(W), NEW k \in Nat, k + 1 \in 1 .. Len(src), NEW from
  PROVE  /\ ~IsFile(src[k + 1]) =>
              Targets(from, SubSeq(src, 1, k + 1)) = Targets(from, SubSeq(src, 1, k))
         /\ IsFile(src[k + 1]) =>
              Targets(from, SubSeq(src, 1, k + 1))
                = Targets(from, SubSeq(src, 1, k)) \cup {Canonical(from, Tail(src[k + 1]))}
  <1> DEFINE done == SubSeq(src, 1, k)
             more == SubSeq(src, 1, k + 1)
             w    == src[k + 1]
             n    == k + 1
  <1>1. n - 1 = k /\ n \in 1 .. Len(src)
    OBVIOUS
  <1>2. ToSet(SubSeq(src, 1, n)) = ToSet(SubSeq(src, 1, n - 1)) \cup {src[n]}
    <2> HIDE DEF n
    <2> QED
      BY <1>1, NextPart
  <1>3. ToSet(more) = ToSet(done) \cup {w}
    BY <1>1, <1>2
  <1> HIDE DEF done, more, w
  <1>4. /\ ~IsFile(w) => Targets(from, more) = Targets(from, done)
        /\ IsFile(w) => Targets(from, more) = Targets(from, done) \cup {Canonical(from, Tail(w))}
    BY <1>3 DEF Targets
  <1> QED
    BY <1>4 DEF done, more, w

\* The words that have been followed, and the words that replaced them.
LEMMA NextOfSource ==
  ASSUME NEW all, FilesOK(all), NEW W, WordsIn(all, W), NEW src \in Seq(W),
         NEW f, IsFrame(f), NEW k, NEW low \in Nat, NEW S, Followed(all, f, src, k, low, S),
         f.pos <= Len(f.words)
  PROVE  /\ k \in Nat /\ k + 1 \in 0 .. Len(src) /\ f.words[f.pos] = src[k + 1] /\ src[k + 1] \in W
         /\ k + 1 \in 1 .. Len(src) /\ Continues(all, f, SubSeq(src, 1, k + 1), src[k + 1], low)
  <1> DEFINE N == Cardinality(DOMAIN all)
             done == SubSeq(src, 1, k)
             more == SubSeq(src, 1, k + 1)
             E == Expansions(all)
             w == src[k + 1]
  <1>1. /\ N \in Nat /\ Len(src) \in Nat /\ f.pos \in Nat \ {0} /\ Len(f.words) \in Nat
        /\ k \in 0 .. Len(src) /\ Len(f.words) = f.pos - 1 + (Len(src) - k)
        /\ \A i \in 1 .. Len(src) - k : f.words[f.pos - 1 + i] = src[k + i]
        /\ \A n \in low .. N : SubSeq(f.words, 1, f.pos - 1) = Flat(f.file, done, E[n])
    BY FS_CardinalityType, SequenceFacts DEF Followed, IsFrame, FilesOK
  <1>2. /\ k + 1 \in 1 .. Len(src) /\ k \in Nat /\ 1 \in 1 .. Len(src) - k /\ f.pos - 1 + 1 = f.pos
        /\ (k + 1) - 1 = k
    BY <1>1
  <1>3. f.words[f.pos] = src[k + 1] /\ w \in W
    BY <1>1, <1>2
  <1>4. done \in Seq(W) /\ more = Append(done, w)
    <2> DEFINE m == k + 1
    <2> HIDE DEF m
    <2>1. m \in 1 .. Len(src) /\ m - 1 = k
      BY <1>2 DEF m
    <2>2. SubSeq(src, 1, m - 1) \in Seq(W) /\ SubSeq(src, 1, m) = Append(SubSeq(src, 1, m - 1), src[m])
      BY <2>1, NextPart
    <2> QED
      BY <2>1, <2>2 DEF m
  <1>5. ASSUME NEW n \in low .. N
        PROVE  Flat(f.file, more, E[n]) = SubSeq(f.words, 1, f.pos - 1) \o Meaning(f.file, w, E[n])
    <2> DEFINE flat == E[n]
    <2>1. n \in 0 .. N
      BY <1>1
    <2>2. IsFiniteSet(DOMAIN all) /\ \A g \in DOMAIN all : all[g].words \in Seq(W)
      BY DEF FilesOK, WordsIn
    <2>3. flat \in [DOMAIN all -> Seq(W)]
      BY <2>1, <2>2, ExpansionsAre
    <2> HIDE DEF flat
    <2>4. \A g \in DOMAIN flat : flat[g] \in Seq(W)
      BY <2>3
    <2> HIDE DEF done, more, w
    <2>5. Flat(f.file, Append(done, w), flat) = Flat(f.file, done, flat) \o Meaning(f.file, w, flat)
      BY <1>3, <1>4, <2>4, FlatOfNext
    <2>6. Flat(f.file, done, flat) = SubSeq(f.words, 1, f.pos - 1)
      BY <1>1 DEF flat
    <2> QED
      BY <1>4, <2>5, <2>6 DEF flat
  <1> HIDE DEF done, more, w
  <1>6. Continues(all, f, more, w, low)
    BY <1>5 DEF Continues
  <1> QED
    BY <1>1, <1>2, <1>3, <1>6 DEF done, more, w

LEMMA FollowedIf ==
  ASSUME NEW all, NEW f, NEW src, NEW k \in 0 .. Len(src), NEW low, NEW S,
         NEW done, done = SubSeq(src, 1, k),
         NEW before, before = SubSeq(f.words, 1, f.pos - 1),
         Len(f.words) = f.pos - 1 + (Len(src) - k),
         \A i \in 1 .. Len(src) - k : f.words[f.pos - 1 + i] = src[k + i],
         \A n \in low .. Cardinality(DOMAIN all) : before = Flat(f.file, done, Expansions(all)[n]),
         Targets(f.file, done) \subseteq S, Sound(all, S)
  PROVE  Followed(all, f, src, k, low, S)
  BY DEF Followed

LEMMA PlainWordFollowed ==
  ASSUME NEW all, FilesOK(all), NEW W, WordsIn(all, W), NEW src \in Seq(W),
         NEW f, IsFrame(f), NEW k, NEW low \in Nat, NEW S, Followed(all, f, src, k, low, S),
         f.pos <= Len(f.words), ~IsFile(f.words[f.pos])
  PROVE  Followed(all, [f EXCEPT !.pos = @ + 1], src, k + 1, low, S)
  <1> DEFINE N == Cardinality(DOMAIN all)
             w == src[k + 1]
             g == [f EXCEPT !.pos = @ + 1]
             E == Expansions(all)
  <1>1. /\ k \in Nat /\ k + 1 \in 0 .. Len(src) /\ k + 1 \in 1 .. Len(src) /\ f.words[f.pos] = w
        /\ Continues(all, f, SubSeq(src, 1, k + 1), w, low)
    BY NextOfSource
  <1>2. Targets(f.file, SubSeq(src, 1, k + 1)) = Targets(f.file, SubSeq(src, 1, k))
    BY <1>1, NextTargets
  <1>3. /\ Len(src) \in Nat /\ f.pos \in Nat \ {0} /\ Len(f.words) \in Nat
        /\ Len(f.words) = f.pos - 1 + (Len(src) - k)
        /\ \A i \in 1 .. Len(src) - k : f.words[f.pos - 1 + i] = src[k + i]
        /\ Targets(f.file, SubSeq(src, 1, k)) \subseteq S /\ Sound(all, S)
    BY SequenceFacts DEF Followed, IsFrame
  <1>4. g.words = f.words /\ g.file = f.file /\ g.pos = f.pos + 1 /\ g.pos - 1 = f.pos
    <2>1. g.words = f.words /\ g.file = f.file /\ g.pos = f.pos + 1
      BY DEF IsFrame
    <2> HIDE DEF g
    <2> QED
      BY <1>3, <2>1
  <1> HIDE DEF g
  <1>5. SubSeq(f.words, 1, f.pos) = SubSeq(f.words, 1, f.pos - 1) \o <<w>>
    <2> DEFINE p == f.pos
               ws == f.words
               V == ToSet(ws)
    <2>1. ws \in Seq(V) /\ p \in 1 .. Len(ws) /\ ws[p] = w
      BY <1>1, <1>3 DEF IsFrame, IsSequence
    <2> HIDE DEF V, ws, p
    <2>2. SubSeq(ws, 1, p) = SubSeq(ws, 1, p - 1) \o <<ws[p]>>
      BY <2>1, NextPart
    <2> QED
      BY <2>1, <2>2 DEF ws, p
  <1>6. \A n \in low .. N : SubSeq(g.words, 1, g.pos - 1) = Flat(g.file, SubSeq(src, 1, k + 1), E[n])
    <2> SUFFICES ASSUME NEW n \in low .. N
                 PROVE  SubSeq(g.words, 1, g.pos - 1) = Flat(g.file, SubSeq(src, 1, k + 1), E[n])
      OBVIOUS
    <2>1. Meaning(f.file, w, E[n]) = <<w>>
      BY <1>1 DEF Meaning
    <2>2. Flat(f.file, SubSeq(src, 1, k + 1), E[n])
            = SubSeq(f.words, 1, f.pos - 1) \o Meaning(f.file, w, E[n])
      BY <1>1 DEF Continues
    <2> QED
      BY ONLY <1>4, <1>5, <2>1, <2>2
  <1>7. Len(g.words) = g.pos - 1 + (Len(src) - (k + 1))
    BY <1>1, <1>3, <1>4
  <1>8. ASSUME NEW i, i \in 1 .. Len(src) - (k + 1)
        PROVE  g.words[g.pos - 1 + i] = src[(k + 1) + i]
    <2>1. /\ i + 1 \in 1 .. Len(src) - k /\ f.pos - 1 + (i + 1) = g.pos - 1 + i
          /\ k + (i + 1) = (k + 1) + i
      <3> DEFINE n == Len(src)
                 p == f.pos
                 q == g.pos
      <3>1. n \in Nat /\ k \in Nat /\ p \in Nat /\ q = p + 1 /\ i \in 1 .. n - (k + 1)
        BY <1>1, <1>3, <1>4, <1>8
      <3> HIDE DEF n, p, q
      <3>2. i + 1 \in 1 .. n - k /\ p - 1 + (i + 1) = q - 1 + i /\ k + (i + 1) = (k + 1) + i
        BY ONLY <3>1
      <3> QED
        BY <3>2 DEF n, p, q
    <2> QED
      BY <1>3, <1>4, <2>1
  <1> DEFINE m == k + 1
             done == SubSeq(src, 1, m)
             before == SubSeq(g.words, 1, g.pos - 1)
  <1>9. \A n \in low .. N : before = Flat(g.file, done, Expansions(all)[n])
    BY <1>6
  <1>10. Targets(g.file, done) \subseteq S
    BY <1>2, <1>3, <1>4
  <1>11. /\ m \in 0 .. Len(src) /\ Len(g.words) = g.pos - 1 + (Len(src) - m)
         /\ \A i \in 1 .. Len(src) - m : g.words[g.pos - 1 + i] = src[m + i]
    BY <1>1, <1>7, <1>8
  <1>12. done = SubSeq(src, 1, m) /\ before = SubSeq(g.words, 1, g.pos - 1)
    OBVIOUS
  <1> HIDE DEF E, done, before, m
  <1>13. Followed(all, g, src, m, low, S)
    BY <1>3, <1>9, <1>10, <1>11, <1>12, FollowedIf
  <1> QED
    BY <1>13 DEF g, m

\* A frame that has been followed to its end has what its source stands for.
LEMMA FollowedToEnd ==
  ASSUME NEW all, NEW W, NEW src \in Seq(W), NEW f, IsFrame(f), NEW k, NEW low, NEW S,
         Followed(all, f, src, k, low, S), f.pos > Len(f.words)
  PROVE  /\ \A n \in low .. Cardinality(DOMAIN all) : f.words = Flat(f.file, src, Expansions(all)[n])
         /\ Targets(f.file, src) \subseteq S /\ Sound(all, S)
  <1> DEFINE done == SubSeq(src, 1, k)
             ws == f.words
             p == f.pos
             V == ToSet(ws)
             before == SubSeq(ws, 1, p - 1)
  <1>1. /\ ws \in Seq(V) /\ Len(ws) \in Nat /\ p \in Nat \ {0} /\ p > Len(ws)
        /\ k \in 0 .. Len(src) /\ Len(ws) = p - 1 + (Len(src) - k)
        /\ \A n \in low .. Cardinality(DOMAIN all) : before = Flat(f.file, done, Expansions(all)[n])
        /\ Targets(f.file, done) \subseteq S /\ Sound(all, S)
    BY DEF Followed, IsFrame, IsSequence
  <1>2. Len(src) \in Nat
    OBVIOUS
  <1> HIDE DEF V, ws, p
  <1>3. k = Len(src) /\ p - 1 = Len(ws)
    BY <1>1, <1>2
  <1>4. done = src
    BY <1>3
  <1>5. before = ws
    BY <1>1, <1>3
  <1> HIDE DEF done, before
  <1> QED
    BY <1>1, <1>4, <1>5 DEF ws

LEMMA SoundGrows ==
  ASSUME NEW all, FilesOK(all), NEW S, Sound(all, S), NEW T, Sound(all, T),
         NEW g \in DOMAIN all, all[g].readable, g \notin T, Targets(g, all[g].words) \subseteq T
  PROVE  Sound(all, S \cup T \cup {g})
  <1>1. Directly(all, T) \subseteq T
    BY DEF Directly, Sound
  <1>2. Reached(all, g, all[g].words) \subseteq T
    <2> DEFINE ws == all[g].words
    <2>1. Targets(g, ws) \subseteq T
      OBVIOUS
    <2> HIDE DEF ws
    <2>2. Reached(all, g, ws) \subseteq T
      BY <1>1, <2>1, ReachedWithin DEF FilesOK
    <2> QED
      BY <2>2 DEF ws
  <1> QED
    BY <1>2 DEF Sound

\* The words put in the place of a name, between those before and those after it.
LEMMA ReplacedWords ==
  ASSUME NEW f, IsFrame(f), f.pos <= Len(f.words), NEW src, IsSequence(src),
         NEW g, g = WithFile(f, src)
  PROVE  /\ g.file = f.file /\ g.pos = f.pos + Len(src) /\ Len(src) \in Nat
         /\ Len(g.words) = Len(f.words) - 1 + Len(src)
         /\ SubSeq(g.words, 1, g.pos - 1) = SubSeq(f.words, 1, f.pos - 1) \o src
         /\ \A i \in 1 .. Len(f.words) - f.pos : g.words[g.pos - 1 + i] = f.words[f.pos + i]
  <1> DEFINE out == f.words
             p == f.pos
             a == SubSeq(out, 1, p - 1)
             b == SubSeq(out, p + 1, Len(out))
             V == ToSet(out) \cup ToSet(src)
             all == (a \o src) \o b
  <1>1. out \in Seq(V) /\ src \in Seq(V) /\ p \in 1 .. Len(out) /\ Len(out) \in Nat
    <2>1. out \in Seq(ToSet(out)) /\ src \in Seq(ToSet(src)) /\ ToSet(out) \subseteq V /\ ToSet(src) \subseteq V
      BY DEF IsFrame, IsSequence
    <2>2. p \in 1 .. Len(out) /\ Len(out) \in Nat
      BY SequenceFacts DEF IsFrame
    <2> HIDE DEF V, out, p
    <2> QED
      BY <2>1, <2>2
  <1> HIDE DEF V
  <1>2. g.file = f.file /\ g.pos = p + Len(src) /\ g.words = all
    <2>1. f = [file |-> f.file, words |-> out, pos |-> p]
      BY DEF IsFrame
    <2>2. g = [f EXCEPT !.words = all, !.pos = p + Len(src)]
      BY DEF WithFile, replace
    <2> HIDE DEF all, out, p
    <2> QED
      BY <2>1, <2>2
  <1> HIDE DEF out, p
  <1>3. a \in Seq(V) /\ Len(a) = p - 1
    BY <1>1
  <1>4. b \in Seq(V) /\ Len(b) = Len(out) - p /\ \A i \in 1 .. Len(out) - p : b[i] = out[p + i]
    BY <1>1
  <1> HIDE DEF a, b
  <1> DEFINE c == a \o src
  <1>5. c \in Seq(V) /\ Len(c) = p - 1 + Len(src) /\ Len(src) \in Nat
    BY <1>1, <1>3
  <1> HIDE DEF c
  <1> DEFINE d == c \o b
  <1>6. all = d
    BY DEF c
  <1>7. /\ d \in Seq(V) /\ Len(d) = Len(c) + Len(b)
        /\ \A i \in 1 .. Len(c) : d[i] = c[i]
        /\ \A i \in 1 .. Len(b) : d[Len(c) + i] = b[i]
    BY <1>4, <1>5
  <1> HIDE DEF all, d
  <1>8. Len(d) = Len(out) - 1 + Len(src) /\ g.pos - 1 = Len(c)
    BY <1>1, <1>2, <1>4, <1>5, <1>7
  <1>9. SubSeq(d, 1, Len(c)) = c
    <2> DEFINE e == SubSeq(d, 1, Len(c))
    <2>1. e \in Seq(V) /\ Len(e) = Len(c) /\ \A i \in 1 .. Len(c) : e[i] = d[i]
      BY <1>4, <1>5, <1>7
    <2> HIDE DEF e
    <2>2. e = [i \in 1 .. Len(c) |-> e[i]] /\ c = [i \in 1 .. Len(c) |-> c[i]]
      BY <1>5, <2>1
    <2>3. e = c
      BY <1>7, <2>1, <2>2
    <2> QED
      BY <2>3 DEF e
  <1>10. \A i \in 1 .. Len(out) - p : d[g.pos - 1 + i] = out[p + i]
    BY <1>4, <1>7, <1>8
  <1>11. SubSeq(g.words, 1, g.pos - 1) = a \o src
    BY <1>2, <1>6, <1>8, <1>9 DEF c
  <1> QED
    BY <1>2, <1>5, <1>6, <1>8, <1>10, <1>11 DEF a, out, p

LEMMA FileFollowed ==
  ASSUME NEW all, FilesOK(all), NEW W, WordsIn(all, W), NEW src \in Seq(W),
         NEW f, IsFrame(f), NEW k, NEW low \in Nat \ {0}, NEW S, Followed(all, f, src, k, low, S),
         NEW g, IsFrame(g), Waits(f, g), g.file \in DOMAIN all, all[g.file].readable,
         NEW m, NEW T, Followed(all, g, all[g.file].words, m, low - 1, T),
         g.pos > Len(g.words), g.file \notin T
  PROVE  Followed(all, WithFile(f, g.words), src, k + 1, low, S \cup T \cup {g.file})
  <1> DEFINE N == Cardinality(DOMAIN all)
             w == src[k + 1]
             h == WithFile(f, g.words)
             E == Expansions(all)
             ws == all[g.file].words
             U == S \cup T \cup {g.file}
  <1>1. /\ f.pos <= Len(f.words) /\ IsFile(f.words[f.pos])
        /\ g.file = Canonical(f.file, Tail(f.words[f.pos]))
    BY DEF Waits
  <1>2. /\ k \in Nat /\ k + 1 \in 0 .. Len(src) /\ k + 1 \in 1 .. Len(src) /\ f.words[f.pos] = w
        /\ Continues(all, f, SubSeq(src, 1, k + 1), w, low)
    BY <1>1, NextOfSource
  <1>3. Targets(f.file, SubSeq(src, 1, k + 1)) = Targets(f.file, SubSeq(src, 1, k)) \cup {g.file}
    BY <1>1, <1>2, NextTargets
  <1>4. /\ Len(src) \in Nat /\ f.pos \in Nat \ {0} /\ Len(f.words) \in Nat
        /\ Len(f.words) = f.pos - 1 + (Len(src) - k)
        /\ \A i \in 1 .. Len(src) - k : f.words[f.pos - 1 + i] = src[k + i]
        /\ Targets(f.file, SubSeq(src, 1, k)) \subseteq S /\ Sound(all, S)
    BY SequenceFacts DEF Followed, IsFrame
  <1>5. N \in Nat /\ IsSequence(g.words)
    BY FS_CardinalityType DEF FilesOK, IsFrame
  <1>6. /\ h.file = f.file /\ h.pos = f.pos + Len(g.words) /\ Len(g.words) \in Nat
        /\ Len(h.words) = Len(f.words) - 1 + Len(g.words)
        /\ SubSeq(h.words, 1, h.pos - 1) = SubSeq(f.words, 1, f.pos - 1) \o g.words
        /\ \A i \in 1 .. Len(f.words) - f.pos : h.words[h.pos - 1 + i] = f.words[f.pos + i]
    BY <1>1, <1>5, ReplacedWords
  <1>7. /\ \A n \in low - 1 .. N : g.words = Flat(g.file, ws, E[n])
        /\ Targets(g.file, ws) \subseteq T /\ Sound(all, T)
    <2>1. ws \in Seq(W)
      BY DEF WordsIn
    <2> HIDE DEF ws, E
    <2>2. Followed(all, g, ws, m, low - 1, T)
      BY DEF ws
    <2> QED
      BY <2>1, <2>2, FollowedToEnd DEF E
  <1>8. Sound(all, U)
    BY <1>4, <1>7, SoundGrows
  <1> HIDE DEF h, ws
  <1>9. ASSUME NEW n \in low .. N
        PROVE  SubSeq(h.words, 1, h.pos - 1) = Flat(h.file, SubSeq(src, 1, k + 1), E[n])
    <2>1. n \in 1 .. N /\ n - 1 \in low - 1 .. N
      BY <1>5
    <2>2. n \in 0 .. N
      BY <1>5
    <2>3. IsFiniteSet(DOMAIN all) /\ \A a \in DOMAIN all : all[a].words \in Seq(W)
      BY DEF FilesOK, WordsIn
    <2>4. E[n] \in [DOMAIN all -> Seq(W)]
      BY <2>2, <2>3, ExpansionsAre
    <2>5. E[n][g.file] = Flat(g.file, ws, E[n - 1])
      BY <2>1, <2>3, ExpansionsAre DEF ws
    <2>6. Flat(f.file, SubSeq(src, 1, k + 1), E[n])
            = SubSeq(f.words, 1, f.pos - 1) \o Meaning(f.file, w, E[n])
      BY <1>2 DEF Continues
    <2>7. Meaning(f.file, w, E[n]) = E[n][g.file]
      <3> HIDE DEF E
      <3>1. g.file \in DOMAIN E[n]
        BY <2>4
      <3> QED
        BY <1>1, <1>2, <3>1 DEF Meaning
    <2>8. g.words = Flat(g.file, ws, E[n - 1])
      BY <1>7, <2>1
    <2> QED
      BY ONLY <1>6, <2>5, <2>6, <2>7, <2>8
  <1> DEFINE fl == Len(f.words)
             hl == Len(h.words)
             gl == Len(g.words)
             sl == Len(src)
             fp == f.pos
             hp == h.pos
  <1>10. /\ k \in Nat /\ k + 1 \in 1 .. sl /\ sl \in Nat /\ fp \in Nat \ {0} /\ fl \in Nat /\ gl \in Nat
         /\ fl = fp - 1 + (sl - k) /\ hp = fp + gl /\ hl = fl - 1 + gl
    BY <1>2, <1>4, <1>6
  <1> HIDE DEF fl, hl, gl, sl, fp, hp
  <1>11. hl = hp - 1 + (sl - (k + 1))
    BY ONLY <1>10
  <1>12. ASSUME NEW i \in 1 .. Len(src) - (k + 1)
         PROVE  h.words[h.pos - 1 + i] = src[(k + 1) + i]
    <2>1. i \in 1 .. sl - (k + 1)
      BY DEF sl
    <2>2. /\ i + 1 \in 1 .. sl - k /\ fp - 1 + (i + 1) = fp + i
          /\ k + (i + 1) = (k + 1) + i /\ i \in 1 .. fl - fp
      BY ONLY <1>10, <2>1
    <2> QED
      BY <1>4, <1>6, <2>2 DEF fl, fp, sl
  <1> DEFINE j == k + 1
             done == SubSeq(src, 1, j)
             before == SubSeq(h.words, 1, h.pos - 1)
  <1>13. \A n \in low .. N : before = Flat(h.file, done, Expansions(all)[n])
    BY <1>9
  <1>14. Targets(h.file, done) \subseteq U
    BY <1>3, <1>4, <1>6
  <1>15. /\ j \in 0 .. Len(src) /\ Len(h.words) = h.pos - 1 + (Len(src) - j)
         /\ \A i \in 1 .. Len(src) - j : h.words[h.pos - 1 + i] = src[j + i]
    BY <1>2, <1>11, <1>12 DEF hl, hp, sl
  <1>16. done = SubSeq(src, 1, j) /\ before = SubSeq(h.words, 1, h.pos - 1)
    OBVIOUS
  <1> HIDE DEF E, done, before, j, U
  <1>17. Followed(all, h, src, j, low, U)
    BY <1>8, <1>13, <1>14, <1>15, <1>16, FollowedIf
  <1> QED
    BY <1>17 DEF h, j, U

Vocabulary(all, given) == ToSet(given) \cup UNION {ToSet(all[f].words) : f \in DOMAIN all}

LEMMA SourcesAreWords ==
  ASSUME NEW all, FilesOK(all), NEW given, IsSequence(given), NEW W, W = Vocabulary(all, given)
  PROVE  given \in Seq(W) /\ WordsIn(all, W)
  <1>1. given \in Seq(ToSet(given)) /\ ToSet(given) \subseteq W
    BY DEF IsSequence, Vocabulary
  <1>2. given \in Seq(W)
    BY <1>1
  <1>3. ASSUME NEW f \in DOMAIN all
        PROVE  all[f].words \in Seq(W)
    <2> DEFINE ws == all[f].words
    <2>1. ws \in Seq(ToSet(ws)) /\ ToSet(ws) \subseteq W
      BY DEF FilesOK, IsSequence, Vocabulary
    <2> HIDE DEF ws
    <2>2. ws \in Seq(W)
      BY <2>1
    <2> QED
      BY <2>2 DEF ws
  <1> QED
    BY <1>2, <1>3 DEF WordsIn

\* The first n frames of a chain and one more are a chain.
LEMMA ChainOf ==
  ASSUME NEW all, FilesOK(all), NEW given, NEW st, ChainOK(all, given, st), NEW n \in 0 .. Len(st),
         NEW f, IsFrame(f), NEW t, t = SubSeq(st, 1, n) \o <<f>>,
         n = 0 => f.file = <<>>,
         n # 0 => /\ f.file \in DOMAIN all /\ all[f.file].readable /\ Waits(st[n], f)
                  /\ \A i \in 2 .. n : st[i].file # f.file,
         NEW src, src = IF n = 0 THEN given ELSE all[f.file].words,
         NEW k, NEW S, Followed(all, f, src, k, Cardinality(DOMAIN all) - n, S),
         n # 0 => f.file \notin S,
         \A i \in 2 .. n : st[i].file \notin S
  PROVE  ChainOK(all, given, t)
  <1> DEFINE N == Cardinality(DOMAIN all)
             s == SubSeq(st, 1, n)
             u == <<f>>
  <1>1. N \in Nat /\ Len(st) \in Nat /\ n \in Nat /\ n <= Len(st) /\ DOMAIN st = 1 .. Len(st)
    BY ChainIsShort
  <1>2. IsSequence(s) /\ Len(s) = n /\ \A i \in 1 .. n : s[i] = st[i]
    <2>1. IsSequence(st)
      BY DEF ChainOK
    <2>2. IsSequence(s)
      BY <1>1, <2>1, SequencePart
    <2>3. st \in Seq(ToSet(st))
      BY <2>1 DEF IsSequence
    <2> QED
      BY <1>1, <2>2, <2>3
  <1>3. IsSequence(u) /\ Len(u) = 1 /\ u[1] = f
    BY SequenceOne
  <1>4. t = s \o u
    OBVIOUS
  <1> HIDE DEF s, u
  <1>5. /\ IsSequence(t) /\ Len(t) = n + 1
        /\ \A i \in 1 .. n : t[i] = st[i]
        /\ t[n + 1] = f
    <2>1. /\ IsSequence(s \o u) /\ Len(s \o u) = Len(s) + Len(u)
          /\ \A i \in 1 .. Len(s) : (s \o u)[i] = s[i]
          /\ \A i \in 1 .. Len(u) : (s \o u)[Len(s) + i] = u[i]
      <3>1. IsSequence(s) /\ IsSequence(u)
        BY <1>2, <1>3
      <3> QED
        BY ONLY <3>1, SequenceJoins
    <2>2. 1 \in 1 .. Len(u)
      BY <1>3
    <2>3. t[n + 1] = f
      BY <1>2, <1>3, <1>4, <2>1, <2>2
    <2> QED
      BY <1>2, <1>3, <1>4, <2>1, <2>3
  <1>6. t # <<>>
    BY <1>1, <1>5, SequenceFacts
  <1>7. \A l \in 1 .. n + 1 : l \in 1 .. n \/ l = n + 1
    BY <1>1
  <1>8. \A l \in 1 .. n : l \in 1 .. Len(st)
    BY <1>1
  <1>9. t[1].file = <<>>
    <2>1. CASE n = 0
      BY <1>5, <2>1
    <2>2. CASE n # 0
      <3>1. 1 \in 1 .. n
        BY <1>1, <2>2
      <3> QED
        BY <1>5, <3>1 DEF ChainOK
    <2> QED
      BY <2>1, <2>2
  <1>10. \A l \in 1 .. n + 1 : IsFrame(t[l])
    BY <1>5, <1>7, <1>8 DEF ChainOK
  <1>11. \A l \in 2 .. n + 1 : \/ l \in 2 .. n /\ l \in 1 .. n /\ l \in 2 .. Len(st)
                               \/ l = n + 1 /\ n # 0
    BY <1>1
  <1>12. \A l \in 2 .. n + 1 : t[l].file \in DOMAIN all /\ all[t[l].file].readable
    BY <1>5, <1>11 DEF ChainOK
  <1>13. \A i, j \in 2 .. n + 1 : t[i].file = t[j].file => i = j
    <2> SUFFICES ASSUME NEW i \in 2 .. n + 1, NEW j \in 2 .. n + 1, t[i].file = t[j].file
                 PROVE  i = j
      OBVIOUS
    <2>1. CASE i = n + 1
      BY <1>5, <1>11, <2>1
    <2>2. CASE j = n + 1
      BY <1>5, <1>11, <2>2
    <2>3. CASE i # n + 1 /\ j # n + 1
      BY <1>5, <1>11, <2>3 DEF ChainOK
    <2> QED
      BY <2>1, <2>2, <2>3
  <1>14. \A l \in 1 .. n : Waits(t[l], t[l + 1])
    <2> SUFFICES ASSUME NEW l \in 1 .. n
                 PROVE  Waits(t[l], t[l + 1])
      OBVIOUS
    <2>1. CASE l = n
      BY <1>1, <1>5, <2>1
    <2>2. CASE l # n
      <3>1. l \in 1 .. Len(st) - 1 /\ l + 1 \in 1 .. n
        BY <1>1, <2>2
      <3> QED
        BY <1>5, <3>1 DEF ChainOK
    <2> QED
      BY <2>1, <2>2
  <1>15. ASSUME NEW l \in 1 .. n
         PROVE  FrameOK(all, given, t, l)
    <2>1. FrameOK(all, given, st, l)
      BY <1>8 DEF ChainOK
    <2>2. t[l] = st[l]
      BY <1>5
    <2>3. Source(all, given, t, l) = Source(all, given, st, l)
      BY <2>2 DEF Source
    <2>4. \A i \in 2 .. l : i \in 1 .. n
      BY <1>1
    <2>5. \A i \in 2 .. l : t[i] = st[i]
      BY <1>5, <2>4
    <2> QED
      BY <2>1, <2>2, <2>3, <2>5 DEF FrameOK
  <1>16. FrameOK(all, given, t, n + 1)
    <2>1. Source(all, given, t, n + 1) = src
      <3>1. CASE n = 0
        BY <1>5, <3>1 DEF Source
      <3>2. CASE n # 0
        <4>1. n + 1 # 1
          BY <1>1, <3>2
        <4> QED
          BY <1>5, <3>2, <4>1 DEF Source
      <3> QED
        BY <3>1, <3>2
    <2>2. N - (n + 1) + 1 = N - n
      BY <1>1
    <2>3. \A i \in 2 .. n + 1 : t[i].file \notin S
      BY <1>5, <1>11
    <2>4. Followed(all, t[n + 1], Source(all, given, t, n + 1), k, N - (n + 1) + 1, S)
      BY <1>5, <2>1, <2>2
    <2> QED
      BY <2>3, <2>4 DEF FrameOK
  <1>17. Len(t) - 1 = n
    BY <1>1, <1>5
  <1> QED
    BY <1>5, <1>6, <1>7, <1>9, <1>10, <1>12, <1>13, <1>14, <1>15, <1>16, <1>17 DEF ChainOK

\* The beginning: the words given, none of them followed.
LEMMA NothingFollowed ==
  ASSUME NEW all, NEW from, NEW src, IsSequence(src), NEW low,
         NEW f, f = [file |-> from, words |-> src, pos |-> 1]
  PROVE  IsFrame(f) /\ Followed(all, f, src, 0, low, {})
  <1> DEFINE done == SubSeq(src, 1, 0)
  <1>1. IsFrame(f)
    BY DEF IsFrame
  <1>2. f.file = from /\ f.words = src /\ f.pos = 1 /\ Len(src) \in Nat
    BY SequenceFacts
  <1>3. done = <<>>
    <2>1. src \in Seq(ToSet(src))
      BY DEF IsSequence
    <2> QED
      BY <2>1
  <1>4. Targets(from, <<>>) = {}
    BY DEF Targets, ToSet
  <1>5. \A n \in low .. Cardinality(DOMAIN all) : done = Flat(from, done, Expansions(all)[n])
    BY <1>3, FlatOfNone
  <1>6. Sound(all, {})
    BY DEF Sound
  <1> HIDE DEF done
  <1>7. /\ 0 \in 0 .. Len(src) /\ Len(f.words) = f.pos - 1 + (Len(src) - 0)
        /\ \A i \in 1 .. Len(src) - 0 : f.words[f.pos - 1 + i] = src[0 + i]
    BY <1>2
  <1>8. done = SubSeq(src, 1, 0) /\ done = SubSeq(f.words, 1, f.pos - 1)
    BY <1>2 DEF done
  <1>9. Targets(f.file, done) \subseteq {}
    BY <1>2, <1>3, <1>4
  <1>10. \A n \in low .. Cardinality(DOMAIN all) : done = Flat(f.file, done, Expansions(all)[n])
    BY <1>2, <1>5
  <1>11. Followed(all, f, src, 0, low, {})
    <2> DEFINE z == 0
               none == {}
    <2>1. /\ z \in 0 .. Len(src) /\ Len(f.words) = f.pos - 1 + (Len(src) - z)
          /\ \A i \in 1 .. Len(src) - z : f.words[f.pos - 1 + i] = src[z + i]
          /\ done = SubSeq(src, 1, z) /\ Targets(f.file, done) \subseteq none /\ Sound(all, none)
      BY <1>6, <1>7, <1>8, <1>9
    <2> HIDE DEF z, none
    <2>2. done = SubSeq(f.words, 1, f.pos - 1)
      BY <1>8
    <2>3. Followed(all, f, src, z, low, none)
      BY ONLY <1>10, <2>1, <2>2, FollowedIf
    <2> QED
      BY <2>3 DEF z, none
  <1> QED
    BY <1>1, <1>11

\* What is known of the frame at a place of a chain.
LEMMA FrameIs ==
  ASSUME NEW all, FilesOK(all), NEW given, IsSequence(given), NEW st, ChainOK(all, given, st),
         NEW l \in 1 .. Len(st)
  PROVE  /\ IsFrame(st[l])
         /\ l = 1 => st[l].file = <<>>
         /\ l # 1 => /\ st[l].file \in DOMAIN all /\ all[st[l].file].readable
                     /\ Waits(st[l - 1], st[l])
                     /\ \A i \in 2 .. l - 1 : st[i].file # st[l].file
         /\ Source(all, given, st, l) = IF l - 1 = 0 THEN given ELSE all[st[l].file].words
         /\ \E k, S : /\ Followed(all, st[l], Source(all, given, st, l), k,
                                  Cardinality(DOMAIN all) - (l - 1), S)
                      /\ \A i \in 2 .. l : st[i].file \notin S
  <1> DEFINE N == Cardinality(DOMAIN all)
             L == Len(st)
  <1>1. N \in Nat /\ L \in Nat /\ l \in 1 .. L
    BY ChainIsShort
  <1>2. N - l + 1 = N - (l - 1) /\ (l = 1 <=> l - 1 = 0)
    BY <1>1
  <1>3. IsFrame(st[l]) /\ FrameOK(all, given, st, l) /\ st[1].file = <<>>
    BY DEF ChainOK
  <1>4. ASSUME l # 1
        PROVE  /\ st[l].file \in DOMAIN all /\ all[st[l].file].readable
               /\ Waits(st[l - 1], st[l])
               /\ \A i \in 2 .. l - 1 : st[i].file # st[l].file
    <2>1. /\ l \in 2 .. L /\ l - 1 \in 1 .. L - 1 /\ (l - 1) + 1 = l
          /\ \A i \in 2 .. l - 1 : i \in 2 .. L /\ i # l
      BY <1>1, <1>4
    <2> HIDE DEF L
    <2>2. Waits(st[l - 1], st[(l - 1) + 1])
      BY <2>1 DEF ChainOK, L
    <2> QED
      BY <2>1, <2>2 DEF ChainOK, L
  <1>5. Source(all, given, st, l) = IF l - 1 = 0 THEN given ELSE all[st[l].file].words
    BY <1>2 DEF Source
  <1>6. \E k, S : /\ Followed(all, st[l], Source(all, given, st, l), k, N - (l - 1), S)
                  /\ \A i \in 2 .. l : st[i].file \notin S
    BY <1>2, <1>3 DEF FrameOK
  <1> QED
    BY <1>3, <1>4, <1>5, <1>6

LEMMA SourceIsOf ==
  ASSUME NEW all, FilesOK(all), NEW given, IsSequence(given), NEW st, ChainOK(all, given, st),
         NEW l \in 1 .. Len(st), NEW W, W = Vocabulary(all, given)
  PROVE  Source(all, given, st, l) \in Seq(W)
  <1>1. given \in Seq(W) /\ WordsIn(all, W)
    BY SourcesAreWords
  <1>2. CASE l = 1
    BY <1>1, <1>2 DEF Source
  <1>3. CASE l # 1
    <2>1. st[l].file \in DOMAIN all
      BY <1>3, FrameIs
    <2> QED
      BY <1>1, <1>3, <2>1 DEF Source, WordsIn
  <1> QED
    BY <1>2, <1>3

LEMMA NextWordKeepsChain ==
  ASSUME NEW all, FilesOK(all), NEW given, IsSequence(given), NEW st, ChainOK(all, given, st),
         NEW f, f = st[Len(st)], f.pos <= Len(f.words), ~IsFile(f.words[f.pos]),
         NEW t, t = SubSeq(st, 1, Len(st) - 1) \o <<[f EXCEPT !.pos = @ + 1]>>
  PROVE  ChainOK(all, given, t)
  <1> DEFINE N == Cardinality(DOMAIN all)
             L == Len(st)
             n == L - 1
             g == [f EXCEPT !.pos = @ + 1]
             src == Source(all, given, st, L)
             W == Vocabulary(all, given)
  <1>1. N \in Nat /\ L \in Nat \ {0} /\ L <= N + 1
    BY ChainIsShort
  <1>2. n \in 0 .. L /\ L \in 1 .. L /\ n \in Nat /\ N - n \in Nat /\ (n = 0 <=> L = 1)
    BY <1>1
  <1>3. src \in Seq(W) /\ WordsIn(all, W)
    BY <1>2, SourceIsOf, SourcesAreWords
  <1> HIDE DEF W
  <1>4. /\ IsFrame(f)
        /\ L = 1 => f.file = <<>>
        /\ L # 1 => /\ f.file \in DOMAIN all /\ all[f.file].readable
                    /\ Waits(st[n], f)
                    /\ \A i \in 2 .. n : st[i].file # f.file
        /\ src = IF n = 0 THEN given ELSE all[f.file].words
    BY <1>2, FrameIs
  <1>5. PICK k, S : /\ Followed(all, f, src, k, N - n, S)
                    /\ \A i \in 2 .. L : st[i].file \notin S
    BY <1>2, FrameIs
  <1> HIDE DEF L, n, src
  <1>6. Followed(all, g, src, k + 1, N - n, S)
    BY <1>2, <1>3, <1>4, <1>5, PlainWordFollowed
  <1>7. IsFrame(g) /\ g.file = f.file
    BY <1>4 DEF IsFrame
  <1>8. L # 1 => L \in 2 .. L
    BY <1>1
  <1>9. \A i \in 2 .. n : i \in 2 .. L
    BY <1>1 DEF n
  <1>10. Waits(st[n], f) => Waits(st[n], g)
    BY <1>7 DEF Waits
  <1>11. (n # 0 => g.file \notin S) /\ \A i \in 2 .. n : st[i].file \notin S
    BY <1>2, <1>5, <1>7, <1>8, <1>9 DEF L
  <1>12. t = SubSeq(st, 1, n) \o <<g>> /\ n \in 0 .. Len(st)
    BY <1>2 DEF n, L
  <1> HIDE DEF g
  <1> QED
    BY <1>2, <1>4, <1>6, <1>7, <1>10, <1>11, <1>12, ChainOf

LEMMA OpenKeepsChain ==
  ASSUME NEW all, FilesOK(all), NEW given, IsSequence(given), NEW st, ChainOK(all, given, st),
         NEW f, f = st[Len(st)], f.pos <= Len(f.words), IsFile(f.words[f.pos]),
         NEW file, file = Canonical(f.file, Tail(f.words[f.pos])),
         file \in DOMAIN all, all[file].readable, \A i \in 2 .. Len(st) : st[i].file # file,
         NEW t, t = SubSeq(st, 1, Len(st)) \o <<[file |-> file, words |-> all[file].words, pos |-> 1]>>
  PROVE  ChainOK(all, given, t)
  <1> DEFINE N == Cardinality(DOMAIN all)
             n == Len(st)
             src == all[file].words
             g == [file |-> file, words |-> src, pos |-> 1]
  <1>1. N \in Nat /\ n \in Nat \ {0} /\ n \in 0 .. n
    BY ChainIsShort
  <1>2. IsSequence(src)
    BY DEF FilesOK
  <1>3. g.file = file
    OBVIOUS
  <1> HIDE DEF src
  <1>4. IsFrame(g) /\ Followed(all, g, src, 0, N - n, {})
    BY <1>2, NothingFollowed
  <1>5. Waits(f, g)
    BY <1>3 DEF Waits
  <1>6. n # 0 => /\ g.file \in DOMAIN all /\ all[g.file].readable /\ Waits(st[n], g)
                 /\ \A i \in 2 .. n : st[i].file # g.file
    BY <1>3, <1>5
  <1>7. src = IF n = 0 THEN given ELSE all[g.file].words
    BY <1>1, <1>3 DEF src
  <1>8. t = SubSeq(st, 1, n) \o <<g>>
    BY DEF src
  <1> DEFINE z == 0
             none == {}
  <1>9. g.file \notin none /\ \A i \in 2 .. n : st[i].file \notin none
    OBVIOUS
  <1>10. Followed(all, g, src, z, N - n, none)
    BY <1>4
  <1> HIDE DEF g, z, none
  <1> QED
    BY <1>1, <1>4, <1>6, <1>7, <1>8, <1>9, <1>10, ChainOf

LEMMA LeaveKeepsChain ==
  ASSUME NEW all, FilesOK(all), NEW given, IsSequence(given), NEW st, ChainOK(all, given, st),
         Len(st) > 1, NEW g, g = st[Len(st)], g.pos > Len(g.words),
         NEW f, f = st[Len(st) - 1],
         NEW t, t = SubSeq(st, 1, Len(st) - 2) \o <<WithFile(f, g.words)>>
  PROVE  ChainOK(all, given, t)
  <1> DEFINE N == Cardinality(DOMAIN all)
             L == Len(st)
             l == L - 1
             n == L - 2
             h == WithFile(f, g.words)
             src == Source(all, given, st, l)
             W == Vocabulary(all, given)
  <1>1. N \in Nat /\ L \in Nat \ {0} /\ L <= N + 1 /\ L > 1
    BY ChainIsShort
  <1>2. /\ n \in 0 .. L /\ L \in 1 .. L /\ l \in 1 .. L /\ n \in Nat /\ l \in Nat /\ L # 1
        /\ N - n \in Nat \ {0} /\ N - l = (N - n) - 1 /\ l - 1 = n /\ (n = 0 <=> l = 1)
    BY <1>1
  <1>3. src \in Seq(W) /\ WordsIn(all, W)
    BY <1>2, SourceIsOf, SourcesAreWords
  <1> HIDE DEF W
  <1>4. /\ l \in 1 .. Len(st) /\ L \in 1 .. Len(st) /\ f = st[l] /\ g = st[L]
         /\ l = L - 1 /\ n = L - 2 /\ L \in Nat /\ L > 1 /\ N \in Nat
    BY <1>1, <1>2
  <1> HIDE DEF L, l, n, N
  <1>5. /\ IsFrame(f)
        /\ l = 1 => f.file = <<>>
        /\ l # 1 => /\ f.file \in DOMAIN all /\ all[f.file].readable
                    /\ Waits(st[l - 1], f)
                    /\ \A i \in 2 .. l - 1 : st[i].file # f.file
        /\ src = IF l - 1 = 0 THEN given ELSE all[f.file].words
    <2>1. /\ IsFrame(st[l])
          /\ l = 1 => st[l].file = <<>>
          /\ l # 1 => /\ st[l].file \in DOMAIN all /\ all[st[l].file].readable
                      /\ Waits(st[l - 1], st[l])
                      /\ \A i \in 2 .. l - 1 : st[i].file # st[l].file
      BY <1>4, FrameIs
    <2>2. src = IF l - 1 = 0 THEN given ELSE all[st[l].file].words
      BY <1>4, FrameIs
    <2> HIDE DEF src
    <2> QED
      BY <1>4, <2>1, <2>2
  <1>6. /\ IsFrame(g) /\ g.file \in DOMAIN all /\ all[g.file].readable /\ Waits(f, g)
        /\ \A i \in 2 .. l : st[i].file # g.file
    <2>1. L - 1 = l /\ L # 1
      BY <1>4
    <2>2. IsFrame(st[L]) /\ st[L].file \in DOMAIN all /\ all[st[L].file].readable
      BY <1>4, <2>1, FrameIs
    <2>3. Waits(st[L - 1], st[L]) /\ \A i \in 2 .. L - 1 : st[i].file # st[L].file
      BY <1>4, <2>1, FrameIs
    <2> QED
      BY <1>4, <2>1, <2>2, <2>3
  <1>7. PICK k, S : /\ Followed(all, f, src, k, N - (l - 1), S)
                    /\ \A i \in 2 .. l : st[i].file \notin S
    <2>1. FrameOK(all, given, st, l)
      BY <1>4 DEF ChainOK
    <2>2. N - l + 1 = N - (l - 1)
      BY <1>4
    <2> QED
      BY <1>4, <2>1, <2>2 DEF FrameOK, N
  <1>8. PICK m, T : /\ Followed(all, g, Source(all, given, st, L), m, N - l, T)
                    /\ \A i \in 2 .. L : st[i].file \notin T
    <2>1. \E x, Y : /\ Followed(all, st[L], Source(all, given, st, L), x, N - (L - 1), Y)
                    /\ \A i \in 2 .. L : st[i].file \notin Y
      BY <1>4, FrameIs DEF N
    <2> QED
      BY <1>4, <2>1
  <1>9. Source(all, given, st, L) = all[g.file].words
    BY <1>4 DEF Source
  <1> HIDE DEF src
  <1> DEFINE U == S \cup T \cup {g.file}
  <1>10. g.file \notin T
    <2>1. L \in 2 .. L
      BY <1>1
    <2> QED
      BY <1>8, <1>4, <2>1
  <1>11. Followed(all, h, src, k + 1, N - n, U)
    <2> DEFINE low == N - n
    <2>1. /\ low \in Nat \ {0} /\ Followed(all, f, src, k, low, S)
          /\ Followed(all, g, all[g.file].words, m, low - 1, T)
      BY <1>2, <1>7, <1>8, <1>9
    <2> HIDE DEF low, h, U
    <2>2. Followed(all, WithFile(f, g.words), src, k + 1, low, S \cup T \cup {g.file})
      BY <1>3, <1>5, <1>6, <1>10, <2>1, FileFollowed
    <2> QED
      BY <2>2 DEF low, h, U
  <1>12. IsFrame(h) /\ h.file = f.file
    <2>1. f.pos <= Len(f.words) /\ IsSequence(g.words)
      BY <1>6 DEF Waits, IsFrame
    <2> QED
      BY <1>5, <2>1, ReplaceCounts, ReplacedWords
  <1> HIDE DEF h
  <1>13. \A i \in 2 .. n : i \in 2 .. L /\ i \in 2 .. l /\ i \in 2 .. l - 1
    BY ONLY <1>4
  <1>14. n # 0 => l \in 2 .. l /\ l \in 2 .. L
    BY ONLY <1>4
  <1>15. (n # 0 => h.file \notin U) /\ \A i \in 2 .. n : st[i].file \notin U
    <2>1. \A i \in 2 .. n : st[i].file \notin U
      BY <1>6, <1>7, <1>8, <1>13
    <2>2. n # 0 => st[l].file \notin U
      BY <1>6, <1>7, <1>8, <1>14
    <2> QED
      BY <1>12, <1>4, <2>1, <2>2
  <1>16. Waits(st[n], f) => Waits(st[n], h)
    BY <1>12 DEF Waits
  <1>17. n # 0 => /\ h.file \in DOMAIN all /\ all[h.file].readable /\ Waits(st[n], h)
                  /\ \A i \in 2 .. n : st[i].file # h.file
    BY <1>2, <1>5, <1>12, <1>13, <1>16
  <1>18. (n = 0 => h.file = <<>>) /\ src = IF n = 0 THEN given ELSE all[h.file].words
    BY <1>2, <1>5, <1>12
  <1>19. t = SubSeq(st, 1, n) \o <<h>> /\ n \in 0 .. Len(st)
    BY <1>2 DEF h, n, L
  <1> HIDE DEF U
  <1> QED
    BY <1>11, <1>12, <1>15, <1>17, <1>18, <1>19, ChainOf DEF N

LEMMA ChainEnds ==
  ASSUME NEW all, FilesOK(all), NEW given, IsSequence(given), NEW st, ChainOK(all, given, st),
         Len(st) = 1, NEW f, f = st[Len(st)], f.pos > Len(f.words)
  PROVE  /\ Expandable(all, given)
         /\ f.words = Flat(<<>>, given, Expansions(all)[Cardinality(DOMAIN all)])
  <1> DEFINE N == Cardinality(DOMAIN all)
             W == Vocabulary(all, given)
  <1>1. N \in Nat /\ 1 \in 1 .. Len(st) /\ f = st[1] /\ N - 1 + 1 = N
    BY ChainIsShort
  <1>2. given \in Seq(W) /\ Source(all, given, st, 1) = given
    BY SourcesAreWords DEF Source
  <1>3. IsFrame(f) /\ f.file = <<>>
    BY <1>1 DEF ChainOK
  <1>4. FrameOK(all, given, st, 1)
    BY <1>1 DEF ChainOK
  <1>5. PICK k, S : Followed(all, f, given, k, N, S)
    BY <1>1, <1>2, <1>4 DEF FrameOK
  <1> HIDE DEF W
  <1>6. /\ \A n \in N .. N : f.words = Flat(f.file, given, Expansions(all)[n])
        /\ Targets(f.file, given) \subseteq S /\ Sound(all, S)
    <2> DEFINE low == N
    <2>1. Followed(all, f, given, k, low, S)
      BY <1>5
    <2> HIDE DEF low
    <2>2. /\ \A n \in low .. Cardinality(DOMAIN all) : f.words = Flat(f.file, given, Expansions(all)[n])
          /\ Targets(f.file, given) \subseteq S /\ Sound(all, S)
      <3>1. given \in Seq(W) /\ IsFrame(f) /\ f.pos > Len(f.words)
        BY <1>2, <1>3
      <3> QED
        BY ONLY <2>1, <3>1, FollowedToEnd
    <2> QED
      BY <2>2 DEF low
  <1>7. N \in N .. N
    BY <1>1
  <1>8. Directly(all, S) \subseteq S
    BY <1>6 DEF Directly, Sound
  <1>9. Reached(all, <<>>, given) \subseteq S
    <2> DEFINE from == <<>>
    <2>1. Targets(from, given) \subseteq S
      BY <1>3, <1>6
    <2> HIDE DEF from
    <2>2. Reached(all, from, given) \subseteq S
      BY <1>8, <2>1, ReachedWithin DEF FilesOK
    <2> QED
      BY <2>2 DEF from
  <1>10. Expandable(all, given)
    BY <1>6, <1>9 DEF Expandable, Sound
  <1>11. f.words = Flat(<<>>, given, Expansions(all)[N])
    BY <1>3, <1>6, <1>7
  <1> QED
    BY <1>10, <1>11

\* The file that a frame of a chain waits for is named by the words the frame began with.
LEMMA NamedBySource ==
  ASSUME NEW all, FilesOK(all), NEW given, IsSequence(given), NEW st, ChainOK(all, given, st),
         NEW l \in 1 .. Len(st), NEW f, f = st[l], f.pos <= Len(f.words), IsFile(f.words[f.pos])
  PROVE  Canonical(f.file, Tail(f.words[f.pos])) \in Targets(f.file, Source(all, given, st, l))
  <1> DEFINE N == Cardinality(DOMAIN all)
             W == Vocabulary(all, given)
             src == Source(all, given, st, l)
             low == N - l + 1
  <1>1. src \in Seq(W) /\ WordsIn(all, W) /\ IsFrame(f)
    BY SourceIsOf, SourcesAreWords, FrameIs
  <1>2. low \in Nat
    BY ChainIsShort
  <1>3. FrameOK(all, given, st, l)
    BY DEF ChainOK
  <1>4. PICK k, S : Followed(all, f, src, k, low, S)
    BY <1>3 DEF FrameOK
  <1> HIDE DEF W, src, low
  <1>5. k + 1 \in 1 .. Len(src) /\ f.words[f.pos] = src[k + 1]
    BY <1>1, <1>2, <1>4, NextOfSource
  <1>6. src[k + 1] \in ToSet(src)
    <2>1. DOMAIN src = 1 .. Len(src)
      BY <1>1
    <2> QED
      BY <1>5, <2>1 DEF ToSet
  <1>7. Canonical(f.file, Tail(f.words[f.pos])) \in Targets(f.file, src)
    BY <1>5, <1>6 DEF Targets
  <1> QED
    BY <1>7 DEF src

\* What the frames of a chain name is reached from each frame below them.
LEMMA ReachedAlong ==
  ASSUME NEW all, FilesOK(all), NEW given, IsSequence(given), NEW st, ChainOK(all, given, st),
         NEW i \in 1 .. Len(st)
  PROVE  Targets(st[Len(st)].file, Source(all, given, st, Len(st)))
           \subseteq Reached(all, st[i].file, Source(all, given, st, i))
  <1> DEFINE N == Cardinality(DOMAIN all)
             L == Len(st)
             D == L - i
             Named(l) == Targets(st[l].file, Source(all, given, st, l))
             R == ReachedIn(all, st[i].file, Source(all, given, st, i))
             G == {d \in 0 .. D : Named(i + d) \subseteq R[d]}
  <1>1. /\ N \in Nat /\ L \in Nat \ {0} /\ i \in Nat \ {0} /\ D \in Nat /\ D <= N /\ i + D = L
        /\ i + 0 = i /\ i <= L
    BY ChainIsShort
  <1>2. R[0] = Named(i) /\ \A d \in 1 .. N : R[d] = R[d - 1] \cup Directly(all, R[d - 1])
    BY ReachedSteps DEF FilesOK
  <1>3. ASSUME NEW d \in 1 .. D
        PROVE  Named(i + d) \subseteq Directly(all, Named(i + (d - 1)))
    <2> DEFINE l == i + d
    <2>1. /\ l \in 1 .. L /\ l # 1 /\ l - 1 \in 1 .. L /\ l - 1 = i + (d - 1) /\ l - 1 \in 1 .. L - 1
          /\ (l - 1) + 1 = l
      BY <1>1
    <2> HIDE DEF l, Named
    <2>2. st[l].file \in DOMAIN all
      BY <2>1, FrameIs
    <2>3. Waits(st[l - 1], st[l])
      <3>1. Waits(st[l - 1], st[(l - 1) + 1])
        BY <2>1 DEF ChainOK
      <3> QED
        BY <2>1, <3>1
    <2>4. st[l].file \in Named(l - 1)
      <3> DEFINE f == st[l - 1]
      <3>1. f.pos <= Len(f.words) /\ IsFile(f.words[f.pos])
            /\ st[l].file = Canonical(f.file, Tail(f.words[f.pos]))
        BY <2>3 DEF Waits
      <3> HIDE DEF f
      <3>2. Canonical(f.file, Tail(f.words[f.pos])) \in Targets(f.file, Source(all, given, st, l - 1))
        BY <2>1, <3>1, NamedBySource DEF f
      <3> QED
        BY <3>1, <3>2 DEF f, Named
    <2>5. Named(l) = Targets(st[l].file, all[st[l].file].words)
      BY <2>1 DEF Named, Source
    <2>6. Named(l) \subseteq Directly(all, Named(l - 1))
      BY <2>2, <2>4, <2>5 DEF Directly
    <2> QED
      BY <2>1, <2>6 DEF l
  <1> HIDE DEF R, Named
  <1>4. 0 \in G
    BY <1>1, <1>2
  <1>5. ASSUME NEW d \in 1 .. D, d - 1 \in G
        PROVE  d \in G
    <2>1. d \in 1 .. N /\ d \in 0 .. D
      BY <1>1
    <2>2. R[d] = R[d - 1] \cup Directly(all, R[d - 1])
      BY <1>2, <2>1
    <2>3. Directly(all, Named(i + (d - 1))) \subseteq Directly(all, R[d - 1])
      BY <1>5 DEF Directly
    <2>4. Named(i + d) \subseteq R[d]
      BY <1>3, <2>2, <2>3
    <2> QED
      BY <2>1, <2>4
  <1>6. D \in 0 .. D /\ D \in 0 .. N
    BY <1>1
  <1>7. D \in G
    <2> HIDE DEF G, D
    <2> QED
      BY <1>1, <1>4, <1>5, <1>6, Upward
  <1>8. Named(L) \subseteq R[D]
    BY <1>1, <1>7
  <1>9. R[D] \subseteq Reached(all, st[i].file, Source(all, given, st, i))
    <2> HIDE DEF D
    <2> QED
      BY <1>6, ReachedSooner DEF FilesOK, R
  <1> QED
    BY <1>8, <1>9 DEF Named

LEMMA ChainFails ==
  ASSUME NEW all, FilesOK(all), NEW given, IsSequence(given), NEW st, ChainOK(all, given, st),
         NEW f, f = st[Len(st)], f.pos <= Len(f.words), IsFile(f.words[f.pos]),
         NEW file, file = Canonical(f.file, Tail(f.words[f.pos])),
         file \notin DOMAIN all \/ (\E i \in 2 .. Len(st) : st[i].file = file) \/ ~all[file].readable
  PROVE  ~Expandable(all, given)
  <1> DEFINE L == Len(st)
             Named == Targets(st[L].file, Source(all, given, st, L))
  <1>1. L \in Nat \ {0} /\ L \in 1 .. L /\ 1 \in 1 .. L
    BY ChainIsShort
  <1>2. file \in Named
    BY <1>1, NamedBySource
  <1> HIDE DEF Named
  <1>3. file \in Reached(all, <<>>, given)
    <2>1. st[1].file = <<>> /\ Source(all, given, st, 1) = given
      BY DEF ChainOK, Source
    <2>2. Named \subseteq Reached(all, st[1].file, Source(all, given, st, 1))
      BY <1>1, ReachedAlong DEF Named
    <2> QED
      BY <1>2, <2>1, <2>2
  <1>4. ASSUME NEW i \in 2 .. L, st[i].file = file
        PROVE  file \in Reached(all, file, all[file].words)
    <2>1. i \in 1 .. L /\ i # 1
      BY <1>1
    <2>2. Source(all, given, st, i) = all[file].words
      BY <1>4, <2>1 DEF Source
    <2>3. Named \subseteq Reached(all, st[i].file, Source(all, given, st, i))
      BY <2>1, ReachedAlong DEF Named
    <2> QED
      BY <1>2, <1>4, <2>2, <2>3
  <1> QED
    BY <1>3, <1>4 DEF Expandable
-----------------------------------------------------------------------------
(***************************************************************************)
(* expandResponseFiles in the parser: the chain of open files from the first *)
(* word to the last.                                                       *)
(***************************************************************************)
\* The words of the command line and the environment, and what is known while the response
\* files are expanded and after.
GivenWords == <<Head(argv)>> \o program.envOpts \o Tail(argv)

ExpandInv ==
  program.responseFiles =>
    /\ pc = "expand" => ChainOK(files, GivenWords, stack)
    /\ pc \in {"before", "scan", "values", "after"} => stack = <<>>
    /\ pc = "before" =>
         /\ Expandable(files, GivenWords)
         /\ args = Flat(<<>>, GivenWords, Expansions(files)[Cardinality(DOMAIN files)])
    /\ pc = "rejected" /\ stack # <<>> => ~Expandable(files, GivenWords)

LEMMA FilesAreOK ==
  ASSUME OptionsInv
  PROVE  FilesOK(files) /\ IsSequence(GivenWords)
  <1>1. FilesOK(files)
    BY DimcliParseAssumption DEF OptionsInv, FilesOK
  <1>2. IsSequence(argv) /\ argv # <<>> /\ IsSequence(program.envOpts)
    BY DimcliParseAssumption, ArgvsAssumption DEF OptionsInv
  <1>3. IsSequence(GivenWords)
    BY <1>2, SequenceOne, SequenceTail, SequenceJoins DEF GivenWords
  <1> QED
    BY <1>1, <1>3

LEMMA StartBeginsChain ==
  ASSUME OptionsInv, StartParse(argv), UNCHANGED argv
  PROVE  ExpandInv'
  <1> DEFINE given == GivenWords
             f == [file |-> <<>>, words |-> given, pos |-> 1]
             t == <<f>>
             N == Cardinality(DOMAIN files)
             from == <<>>
  <1>1. /\ stack' = t /\ program' = program /\ files' = files /\ given' = given
        /\ pc' = IF program.responseFiles THEN "expand" ELSE "before"
    BY DEF StartParse, GivenWords
  <1>2. FilesOK(files) /\ IsSequence(given)
    BY FilesAreOK
  <1> HIDE DEF given
  <1>3. IsFrame(f) /\ Followed(files, f, given, 0, N, {})
    <2> HIDE DEF from
    <2> DEFINE g == [file |-> from, words |-> given, pos |-> 1]
    <2>1. IsFrame(g) /\ Followed(files, g, given, 0, N, {})
      BY <1>2, NothingFollowed
    <2> QED
      BY <2>1 DEF from
  <1>4. f.file = <<>>
    OBVIOUS
  <1> HIDE DEF f
  <1>5. IsSequence(t) /\ Len(t) = 1 /\ t[1] = f
    BY SequenceOne
  <1> HIDE DEF t
  <1>6. t # <<>>
    BY <1>5, SequenceEmpty
  <1>7. FrameOK(files, given, t, 1)
    <2>1. Source(files, given, t, 1) = given
      BY DEF Source
    <2>2. N - 1 + 1 = N
      BY <1>2, FS_CardinalityType DEF FilesOK
    <2>3. Followed(files, t[1], Source(files, given, t, 1), 0, N - 1 + 1, {})
      BY <1>3, <1>5, <2>1, <2>2
    <2> QED
      BY <2>3 DEF FrameOK
  <1>8. ChainOK(files, given, t)
    <2>1. 1 .. Len(t) = {1} /\ 2 .. Len(t) = {} /\ 1 .. Len(t) - 1 = {}
      BY <1>5
    <2> QED
      BY <1>3, <1>4, <1>5, <1>6, <1>7, <2>1 DEF ChainOK
  <1> QED
    BY <1>1, <1>8 DEF ExpandInv, given

LEMMA AppendIsJoin ==
  ASSUME NEW s, IsSequence(s), NEW x
  PROVE  Append(s, x) = SubSeq(s, 1, Len(s)) \o <<x>>
  <1> DEFINE S == ToSet(s) \cup {x}
  <1>1. s \in Seq(S) /\ x \in S
    <2>1. s \in Seq(ToSet(s)) /\ ToSet(s) \subseteq S /\ x \in S
      BY DEF IsSequence
    <2> HIDE DEF S
    <2> QED
      BY <2>1
  <1> HIDE DEF S
  <1>2. SubSeq(s, 1, Len(s)) = s
    BY <1>1
  <1>3. Append(s, x) = s \o <<x>>
    BY <1>1
  <1> QED
    BY <1>2, <1>3

LEMMA ExpandKeepsChain ==
  ASSUME OptionsInv, WordsInv, ExpandInv, program.responseFiles, UNCHANGED <<program, files, argv>>,
         NextFrameWord \/ expandResponseFile \/ LeaveResponseFile \/ EndExpand
  PROVE  ExpandInv'
  <1> DEFINE given == GivenWords
             L == Len(stack)
  <1>1. pc = "expand"
    BY DEF NextFrameWord, expandResponseFile, LeaveResponseFile, EndExpand
  <1>2. FilesOK(files) /\ IsSequence(given) /\ given' = given
    BY FilesAreOK DEF GivenWords
  <1>3. ChainOK(files, given, stack)
    BY <1>1 DEF ExpandInv
  <1>4. L \in Nat \ {0} /\ Frame = stack[L]
    BY <1>1, FramesAre
  <1> HIDE DEF given
  <1>5. CASE NextFrameWord
    <2> DEFINE f == Frame
    <2>1. /\ f.pos <= Len(f.words) /\ ~IsFile(f.words[f.pos]) /\ f = stack[L]
          /\ stack' = SubSeq(stack, 1, L - 1) \o <<[f EXCEPT !.pos = @ + 1]>> /\ pc' = pc
      BY <1>4, <1>5 DEF NextFrameWord, SetFrame, Front
    <2> HIDE DEF f
    <2>2. ChainOK(files, given, stack')
      BY <1>2, <1>3, <2>1, NextWordKeepsChain
    <2> QED
      BY <1>1, <1>2, <2>1, <2>2 DEF ExpandInv, given
  <1>6. CASE expandResponseFile
    <2> DEFINE f == Frame
               file == Canonical(f.file, Tail(f.words[f.pos]))
               Fails == file \notin DOMAIN files \/ Recursive(file) \/ ~loadFileUtf8(file)
    <2>1. f.pos <= Len(f.words) /\ IsFile(f.words[f.pos]) /\ f = stack[L]
      BY <1>4, <1>6 DEF expandResponseFile
    <2>2. CASE Fails
      <3>1. pc' = "rejected" /\ stack' = stack
        BY <1>6, <2>2 DEF expandResponseFile, BadUsage
      <3>2. file \notin DOMAIN files \/ (\E i \in 2 .. L : stack[i].file = file) \/ ~files[file].readable
        BY <2>2 DEF Recursive, loadFileUtf8
      <3> HIDE DEF f, file, Fails
      <3>3. ~Expandable(files, given)
        BY <1>2, <1>3, <2>1, <3>2, ChainFails DEF file
      <3> QED
        BY <1>2, <3>1, <3>3 DEF ExpandInv, given
    <2>3. CASE ~Fails
      <3> DEFINE g == [file |-> file, words |-> files[file].words, pos |-> 1]
      <3>1. pc' = pc /\ stack' = Append(stack, g)
        BY <1>6, <2>3 DEF expandResponseFile
      <3>2. /\ file \in DOMAIN files /\ files[file].readable
            /\ \A i \in 2 .. L : stack[i].file # file
        BY <2>3 DEF Recursive, loadFileUtf8
      <3> HIDE DEF g, f, file, Fails
      <3>3. stack' = SubSeq(stack, 1, L) \o <<g>>
        BY <1>1, <3>1, AppendIsJoin DEF WordsInv
      <3>4. ChainOK(files, given, stack')
        BY <1>2, <1>3, <2>1, <3>2, <3>3, OpenKeepsChain DEF file, g
      <3> QED
        BY <1>1, <1>2, <3>1, <3>4 DEF ExpandInv, given
    <2> QED
      BY <2>2, <2>3
  <1>7. CASE LeaveResponseFile
    <2> DEFINE g == Frame
               f == stack[L - 1]
    <2>1. /\ L > 1 /\ g.pos > Len(g.words) /\ g = stack[L]
          /\ stack' = SubSeq(stack, 1, L - 2) \o <<WithFile(f, g.words)>> /\ pc' = pc
      BY <1>4, <1>7 DEF LeaveResponseFile
    <2> HIDE DEF g
    <2>2. ChainOK(files, given, stack')
      BY <1>2, <1>3, <2>1, LeaveKeepsChain
    <2> QED
      BY <1>1, <1>2, <2>1, <2>2 DEF ExpandInv, given
  <1>8. CASE EndExpand
    <2> DEFINE f == Frame
    <2>1. L = 1 /\ f.pos > Len(f.words) /\ f = stack[L] /\ args' = f.words /\ stack' = <<>> /\ pc' = "before"
      BY <1>4, <1>8 DEF EndExpand, Goto
    <2> HIDE DEF f
    <2>2. /\ Expandable(files, given)
          /\ f.words = Flat(<<>>, given, Expansions(files)[Cardinality(DOMAIN files)])
      BY <1>2, <1>3, <2>1, ChainEnds
    <2> QED
      BY <1>2, <2>1, <2>2 DEF ExpandInv, given
  <1> QED
    BY <1>5, <1>6, <1>7, <1>8

LEMMA ScanGoesOn ==
  ASSUME ParseStep, ~(NextFrameWord \/ expandResponseFile \/ LeaveResponseFile \/ EndExpand)
  PROVE  /\ pc \in {"before", "scan", "values", "after"}
         /\ pc' \in {"scan", "values", "after", "accepted", "rejected", "terminated"}
         /\ stack' = stack
  <1>1. CASE BeforeActions
    BY <1>1 DEF BeforeActions, Goto
  <1>2. CASE ShortName \/ LongName
    <2>1. pc = "scan" /\ stack' = stack
      BY <1>2 DEF ShortName, LongName, InOptions, Scanning, ScanRest
    <2>2. Goto("scan") \/ BadUsage
      BY <1>2 DEF ShortName, LongName, OptionValue
    <2> QED
      BY <2>1, <2>2 DEF Goto, BadUsage
  <1>3. CASE EndOfCluster \/ BareDashes \/ CommandWord \/ UnknownArg \/ OperandWord \/ AssignRest
    <2>1. pc = "scan" /\ stack' = stack
      BY <1>3 DEF EndOfCluster, BareDashes, CommandWord, UnknownArg, OperandWord, AssignRest,
                  InOptions, InPositional, Scanning, ScanRest
    <2>2. Goto("scan") \/ Goto("values") \/ BadUsage \/ Abort
      BY <1>3 DEF EndOfCluster, BareDashes, CommandWord, UnknownArg, OperandWord, AssignRest, BadValue
    <2> QED
      BY <2>1, <2>2 DEF Goto, BadUsage, Abort
  <1>4. CASE ParseValue \/ CheckMinimums \/ AfterActions
    <2>1. pc \in {"values", "after"} /\ stack' = stack
      BY <1>4 DEF ParseValue, CheckMinimums, AfterActions, ValueRest
    <2>2. Goto("values") \/ Goto("after") \/ Goto("accepted") \/ BadUsage \/ Abort \/ ExitParse
      BY <1>4 DEF ParseValue, CheckMinimums, AfterActions, BadValue
    <2> QED
      BY <2>1, <2>2 DEF Goto, BadUsage, Abort, ExitParse
  <1> QED
    BY <1>1, <1>2, <1>3, <1>4 DEF ParseStep

LEMMA ExpandKept ==
  ASSUME OptionsInv, WordsInv, ExpandInv, [MainNext]_allVars
  PROVE  ExpandInv'
  <1>1. CASE FirstParse \/ SecondParse
    BY <1>1, StartBeginsChain DEF FirstParse, SecondParse
  <1>2. CASE ParseStep /\ UNCHANGED mainVars
    <2>1. UNCHANGED <<program, files, argv>>
      BY <1>2, ParseKeepsSetup DEF setup, mainVars
    <2>2. CASE ~program.responseFiles
      BY <2>1, <2>2 DEF ExpandInv
    <2>3. CASE program.responseFiles /\ (NextFrameWord \/ expandResponseFile \/ LeaveResponseFile \/ EndExpand)
      BY <2>1, <2>3, ExpandKeepsChain
    <2>4. CASE program.responseFiles /\ ~(NextFrameWord \/ expandResponseFile \/ LeaveResponseFile \/ EndExpand)
      BY <1>2, <2>1, <2>4, ScanGoesOn DEF ExpandInv
    <2> QED
      BY <2>2, <2>3, <2>4
  <1>3. CASE OpenFiles \/ InstallAction \/ ReturnExitCode \/ RunAction \/ defCmdAction
    <2>1. pc' \in {"opened", "ready", "done", "terminated"}
      BY <1>3 DEF OpenFiles, InstallAction, ReturnExitCode, RunAction, defCmdAction, Goto
    <2> QED
      BY <2>1 DEF ExpandInv
  <1>4. CASE ChangeFiles
    <2>1. pc' = "ready"
      BY <1>4 DEF ChangeFiles
    <2> QED
      BY <2>1 DEF ExpandInv
  <1>5. CASE UNCHANGED allVars
    <2>1. UNCHANGED <<program, files, argv, pc, stack, args>>
      BY <1>5 DEF allVars, parseVars, setup, mainVars
    <2> QED
      BY <2>1 DEF ExpandInv, GivenWords
  <1> QED
    BY <1>1, <1>2, <1>3, <1>4, <1>5 DEF MainNext, MainStep

\* When the response files have been expanded, whatever they hold and however they are nested,
\* the words are those the files stand for, in place; and it is an error exactly if a file
\* that is reached is missing, unreadable or contains itself.
THEOREM ResponseFilesExpand == MainSpec => []ExpandsAll
  <1>1. MainInit => ExpandInv
    <2> SUFFICES ASSUME MainInit
                 PROVE  ExpandInv
      OBVIOUS
    <2>1. pc = "start"
      BY DEF MainInit
    <2> QED
      BY <2>1 DEF ExpandInv
  <1>2. CommandIInv /\ ExpandInv /\ [MainNext]_allVars => ExpandInv'
    BY ExpandKept DEF CommandIInv
  <1>3. ExpandInv => ExpandsAll
    BY DEF ExpandInv, ExpandsAll, GivenWords
  <1> QED
    BY <1>1, <1>2, <1>3, CommandInvariance, PTL DEF MainSpec
-----------------------------------------------------------------------------
(***************************************************************************)
(* How the process ends.                                                   *)
(***************************************************************************)
\* An option was given without its optional value.
ValueMissing == \E k \in DOMAIN rawValues : rawValues[k].null

\* An exception of the parser needs such an option.
AbortInv == pc = "terminated" => ran = 1 \/ ValueMissing

\* The place that the error after the last word names holds a raw value.
LEMMA UnusedIsRaw ==
  ASSUME OptionsInv, WordsInv, PlaceInv, RawInv, pc = "scan",
         Matched(opts, ndx, numPos).used < numPos
  PROVE  precmdValues + Matched(opts, ndx, numPos).used + 1 \in DOMAIN rawValues
  <1> DEFINE used == Matched(opts, ndx, numPos).used
             n    == Len(rawValues)
  <1>1. /\ n \in Nat /\ DOMAIN rawValues = 1 .. n /\ numPos \in Nat
        /\ precmdValues \in Nat /\ precmdValues <= n
    BY CountsAre
  <1>2. used \in 0 .. numPos /\ used < numPos
    BY <1>1, MatchedIsDeal DEF OptionsInv, Deals
  <1>3. Cardinality(Pending) = numPos
    BY DEF RawInv, Reading
  <1>4. numPos <= n - precmdValues
    <2>1. /\ IsFiniteSet(precmdValues + 1 .. n)
          /\ Cardinality(precmdValues + 1 .. n) = n - precmdValues
      <3> HIDE DEF n
      <3>1. precmdValues + 1 \in Int /\ n \in Int
        BY <1>1
      <3>2. /\ IsFiniteSet(precmdValues + 1 .. n)
            /\ Cardinality(precmdValues + 1 .. n) =
                 IF precmdValues + 1 > n THEN 0 ELSE n - (precmdValues + 1) + 1
        BY <3>1, FS_Interval
      <3> QED
        BY <1>1, <3>2
    <2>2. Pending \subseteq precmdValues + 1 .. n
      BY DEF Pending
    <2>3. Cardinality(Pending) <= Cardinality(precmdValues + 1 .. n)
      BY <2>1, <2>2, FS_Subset
    <2> QED
      BY <1>3, <2>1, <2>3
  <1> HIDE DEF used, n
  <1>5. precmdValues + used + 1 \in 1 .. n
    BY <1>1, <1>2, <1>4
  <1> QED
    BY <1>1, <1>5 DEF used

\* A step of the parser ends the process only for an option without its value.
LEMMA AbortNeedsMissing ==
  ASSUME CommandIInv, ParseStep, pc' = "terminated"
  PROVE  ValueMissing'
  <1>1. CASE AssignRest
    <2>1. pc = "scan" /\ Matched(opts, ndx, numPos).used < numPos /\ FirstUnused.null /\ rawValues' = rawValues
      BY <1>1 DEF AssignRest, BadValue, BadUsage, Goto
    <2>2. precmdValues + Matched(opts, ndx, numPos).used + 1 \in DOMAIN rawValues
      BY <2>1, UnusedIsRaw DEF CommandIInv
    <2> QED
      BY <2>1, <2>2 DEF ValueMissing, FirstUnused
  <1>2. CASE ParseValue
    <2>1. pc = "values" /\ nextRaw <= Len(rawValues) /\ rawValues[nextRaw].null /\ rawValues' = rawValues
      BY <1>2 DEF ParseValue, BadValue, BadUsage, Goto, ExitParse, ValueRest, scanVars
    <2>2. nextRaw \in DOMAIN rawValues
      BY <2>1, CountsAre DEF CommandIInv
    <2> QED
      BY <2>1, <2>2 DEF ValueMissing
  <1>3. CASE ~AssignRest /\ ~ParseValue
    <2>1. pc' # "terminated"
      BY <1>3 DEF ParseStep, NextFrameWord, expandResponseFile, LeaveResponseFile, EndExpand, BeforeActions,
             ShortName, LongName, OptionValue, EndOfCluster, BareDashes, CommandWord, UnknownArg,
             OperandWord, CheckMinimums, AfterActions, InOptions, InPositional, Scanning,
             Goto, BadUsage, exitVars
    <2> QED
      BY <2>1
  <1> QED
    BY <1>1, <1>2, <1>3

LEMMA AbortKept ==
  ASSUME CommandIInv, AbortInv, [MainNext]_allVars
  PROVE  AbortInv'
  <1>1. CASE ParseStep /\ UNCHANGED mainVars
    BY <1>1, AbortNeedsMissing DEF AbortInv
  <1>2. CASE FirstParse \/ SecondParse
    BY <1>2 DEF FirstParse, SecondParse, StartParse, AbortInv
  <1>3. CASE OpenFiles \/ InstallAction \/ ReturnExitCode
    BY <1>3 DEF OpenFiles, InstallAction, ReturnExitCode, Goto, AbortInv
  <1>4. CASE RunAction
    <2>1. ran' = ran + 1 /\ pc = "accepted"
      BY <1>4 DEF RunAction, ActionIs
    <2>2. ran = 0
      BY <2>1 DEF CommandIInv, RunsInv, ExitsKnown, Going
    <2> QED
      BY <2>1, <2>2 DEF AbortInv
  <1>5. CASE defCmdAction
    BY <1>5 DEF defCmdAction, AbortInv
  <1>6. CASE ChangeFiles \/ UNCHANGED allVars
    BY <1>6 DEF ChangeFiles, allVars, parseVars, mainVars, scanVars, exitVars, AbortInv, ValueMissing
  <1> QED
    BY <1>1, <1>2, <1>3, <1>4, <1>5, <1>6 DEF MainNext, MainStep

\* The process returns 0 exactly if help was shown or the action ran, the action returned
\* only with a capture file, and an exception ends the process only in the action or with
\* an option on the line that lacks its optional value: whatever the options, words and
\* response files are.
THEOREM ExitCodeTells == MainSpec => []ExitTells
  <1>1. MainInit => AbortInv
    BY DEF MainInit, AbortInv
  <1>2. CommandIInv /\ AbortInv /\ [MainNext]_allVars => AbortInv'
    BY AbortKept
  <1>3. ExitsKnown /\ AbortInv => ExitTells
    BY DEF ExitsKnown, AbortInv, ExitTells, ValueMissing
  <1> QED
    BY <1>1, <1>2, <1>3, ExitInvariance, CommandInvariance, PTL DEF MainSpec
==============================================================================
