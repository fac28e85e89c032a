# Verification of moex_decoder

`pcap_parser` reads a capture (PCAP) of MOEX market data, takes the SIMBA messages out
of its UDP packets and writes order updates, executions and book snapshots to text
files. This directory holds TLA+ models of the program, the configurations that
model-check them, and machine-checked proofs.

## 1. Inventory

| Component | Source | State | Operations |
|---|---|---|---|
| PCAPBuffer | `lib/pcap_buffer.cpp`, `processors/pcap_buffer.h` | `file_handle_` and its position, `current_offset_`, `local_buffer_`, deque `pcap_data_chunks_` under `chuncks_mutex`, atomic `is_started_`, producer thread | `start_buffering`, `next_batch`, `is_started`, `wait_started`, `stop` |
| PCAPProcessor | `lib/pcap_processor.cpp`, `processors/pcap_processor.h(pp)` | the file, the buffer, the consumer thread, the decoder, `batch_number_` | constructor (does all the work), `process_header`, `process_batch`, destructor |
| PacketProcessor | `processors/packet_processor.hpp`, `lib/packet_types.cpp` | `packet_processed_` (debugging only) | `process_packet`: Ethernet and IP header, UDP filter, hand over the UDP payload |
| SIMBADecoder | `lib/simba_decoder.cpp` | `current_offset_`, the last market data, incremental and SBE headers, `mapping_` | `decode_message`, one handler per template |
| OrderBookSnapshot, message types | `simba_decoder/simba_types.h` | bid and ask maps | `insert`, `to_string`, `to_csv_string` |
| main | `exec/pcap_parser.cpp` | the two output files, the handlers, the action | parse, open the files, install the action, `exec` (which parses again and runs the action) |
| Dimcli | `lib/cli.cpp`, `dimcli/cli.h` | the configuration (options, commands), the values and positions of each option, exit code, command matched, unknown arguments | `parse`, `exec`, `toArgv`, `toCmdline`, help (vendored) |
| utility | `processors/utility.hpp` | none | `hex_dump`, compiled out |

Interaction. The main thread constructs a `PCAPProcessor`; its constructor starts a
consumer thread and, through `PCAPBuffer::start_buffering`, a producer thread, then
joins the producer and the consumer. The threads share the deque (mutex) and the flag
`is_started_` (atomic): the producer sets it and notifies, the consumer waits for it
once and then reads it before every call of `process_batch`. The producer clears the
flag when it has read everything, the destructor clears it again and closes the file.
The consumer calls `PacketProcessor::process_packet` for each packet, which calls
`SIMBADecoder::decode_message`, which calls the handlers main installed, and these
write to the output files. Before any of this, main has Dimcli parse the command line,
opens the output files, and calls `exec`, which parses the same command line again into
the same options and then runs the action that constructs the `PCAPProcessor`.

Hard behaviours: the flag against the queue at the end of the capture; the flag being
set and cleared while the consumer is not looking; the reuse of `local_buffer_` for
every chunk; a record header across the end of the buffer; captures cut short; records
as long as a batch; exceptions that leave a thread and end the process; offsets taken
from the wire in the packet headers and in the decoder, with one decoder for all
packets; values dealt out to operands by counts; response files that name one another;
two parses of a command line whose response files may change between them.

What makes each component correct:

- PCAPBuffer: a batch contains the payloads of consecutive records, word for word;
  batches follow one another without gap or repetition; every pass makes progress.
- PCAPProcessor: packets are delivered in order and at most once; nothing but the
  queue at the end is lost; the file stays open and the flag untouched while a thread
  can use them; the program ends.
- PacketProcessor: exactly the UDP packets reach the decoder, with the payload that
  follows their headers.
- SIMBADecoder: each message of a datagram is decoded at its own offset and given to
  its handler, in order.
- OrderBookSnapshot: each priced entry is on its own side, once, in price order.
- main and Dimcli: a command line that is accepted lacks nothing that is required, each
  word is an option, a value or an operand by the documented rules, and the exit code
  tells what happened.

`PROJECT.json` lists the hazards at the lines where they bite, with the properties
that cover them.

## 2. Modules

| Module | Models |
|---|---|
| `PCAPFile` | the capture as the program sees it, and what `captured_length` reads as at any word |
| `PCAPBuffer` | class PCAPBuffer, with a client that may wait, pop, stop or end the process at any point |
| `PCAPProcessor` | main and consumer thread composed with PCAPBuffer (EXTENDS) |
| `PacketDelivery` | abstract specification: the packets of the capture are delivered in order, each at most once, until the delivery ends |
| `OrderBookSnapshot` | class OrderBookSnapshot: `insert` into maps with their comparators, and the order in which `to_string` visits them |
| `SIMBADecoder` | class SIMBADecoder, over any sequence of datagrams (EXTENDS `OrderBookSnapshot`: the book of the snapshot in hand is its own) |
| `MessageFeed` | abstract specification: each packet contributes its own messages to the handlers, whatever packets came before |
| `PacketProcessor` | class PacketProcessor with the decoder (EXTENDS `SIMBADecoder`) and the handlers of main: what is written to the two files |
| `DimcliArgv` | joining and splitting of command lines: `to...Cmdline`, `to...Argv` |
| `DimcliIndex` | `Cli::OptIndex` and `numMatches`: names of options, order and counts of operands (no state) |
| `DimcliParse` | `Cli::parse`, from environment options and response files to the values (EXTENDS `DimcliIndex`) |
| `PcapParserMain` | `main` and `Cli::exec` around the two parses (EXTENDS `DimcliParse`) |
| `PCAPBufferProofs` | inductive invariant of PCAPBuffer and its safety theorems |
| `PCAPProcessorProofs` | inductive invariant of the composition, its safety theorems, and the refinement of PacketDelivery |
| `OrderBookSnapshotProofs` | the maps hold the first entry of each price; each side is printed in falling prices |
| `SIMBADecoderProofs` | inductive invariant of the decoder and its safety theorems |
| `PacketProcessorProofs` | inductive invariant of the packet processor, the refinement of MessageFeed, and what is in the two output files |
| `DimcliArgvProofs` | splitting: where the reader is, what white space is kept, the GNU loop against its rules, and which joined lines parse back |
| `DimcliIndexProofs` | the index of names and the dealing of values to operands |
| `PcapParserMainProofs` | the exit code, the inductive invariant of the two parses, what a parse that succeeds has given, and what response files are replaced by, for every program, command line and file system |
| `MCPCAPFile`, `MCPCAPBuffer`, `MCPCAPProcessor`, `MCSIMBADecoder`, `MCPacketProcessor`, `MCDimcliArgv`, `MCPcapParserMain` | small captures, entries, datagrams, packets, lines, programs and constants for TLC |

### The capture and the buffer

Lengths are counted in 4-byte words: both headers of the format are multiples of it
(24 and 16 bytes), and so is the field `captured_length` (8 bytes into the record
header). A word is named by its position in the file, and a packet is the sequence of
positions its words were copied from. This is the level of detail the properties need:
a stale or misplaced word is one with the wrong position. A word that was never
written is `ZERO`, as `local_buffer_` is initialised. Record lengths that are not
multiples of 4 bytes are not modelled; the arithmetic of the code is uniform in them.

`LengthsAt` is the `memcpy` into `packet_header`: at the right word it gives the
captured length of that record, at `ZERO` it gives 0, and at any other word (a
timestamp, payload, or what lies beyond the buffer) it gives any value of
`CapturedLengths`. The over-read beyond `local_buffer_` (pcap_buffer.cpp:37) is
undefined behaviour in the code; its outcome is modelled as an arbitrary length.

A capture may be cut short in its last record: `size` is then smaller than the end of
that record.

### The threads

One action is the code of a thread between two accesses to shared state. `producer`,
`consumer` and `main` are the program counters.

| Action | Code |
|---|---|
| `SetStarted`, `NotifyOne` | pcap_buffer.cpp:8, 9 |
| `EnterLoop`, `LeaveLoop` | the outer condition, 12-13 |
| `ReadChunk`, `ReadFails` | 14-31; the exception of 25 leaves the thread: `process = "terminated"` |
| `PackPacket`, `DoesNotFit`, `ChunkConsumed` | one pass of the inner loop, its break, its end |
| `PushBatch` | the critical section and the seek, 71-81 |
| `ClearStarted` | 84: no notification |
| `WaitBlocks`, `SpuriousWake` | `is_started_.wait(false)`: compare and block in one step, unblocked by `NotifyOne` or spuriously, and compared again |
| `NextBatch`, `Stop` | the two operations of the client |
| `RejectFile`, `WrongMagic`, `AcceptFile` | constructor up to the threads: exceptions end the process, `exit(1)` exits it |
| `SpawnConsumer`, `CallStartBuffering`, `JoinProducer`, `JoinConsumer`, `Destroy` | the rest of it, and the destructor |
| `EnterBatch`, `LeaveConsumerLoop`, `Wakes` | the loop of the consumer thread |
| `TakeBatch`, `ProcessPacket`, `PacketThrows`, `BatchDone`, `QueueEmpty` | `process_batch` |

`PushBatch` does the seek in the step of the push: the file is touched by the producer
only while it runs, so no other thread can tell. `batch_number_` and all logging are
left out. What the decoder does with a packet is left out but for whether it throws
(`file.poison`).

History variables: `handed` counts the packets `next_batch` returned, `processed` is
the sequence of packets given to `process_packet`.

### The book of a snapshot

A `std::map` is the sequence of its entries from `begin()` to `end()`. `Precedes` has the
two comparators (`std::greater` for the bids, the default for the asks). `Emplace` finds
the place of a price by `LowerBound` under the comparator of its side, keeps an entry that
is there already, and inserts the new one at that place otherwise. So the sequence is in
order only if it always was, which is proved and not assumed. `AskRows` is the map of asks
iterated from `rbegin()`, `BidRows` that of the bids from `begin()`. An entry is its price, its volume and its side; the rest of
its fields is copied and printed only. `Throws` is `to_index` (simba_types.h:396),
which insert reaches only for an entry with a price. An entry of
a third side, the empty book, is known to `to_index` and dropped (`Ignored`).
`inserted` is a history variable.

### The decoder

Offsets are bytes and the sizes are those of the packed structs. A datagram is the
sequence of its messages and the offsets they begin at. The decoder never sees that
structure: it holds an offset, and what it reads there is looked up (`HeadersAt`,
`GroupsInHand`, `EntriesInHand`). At the place of a message, a group or an entry it
reads that one; anywhere else what it reads is any of `GarbageHeaders`,
`GarbageGroups` or `Entries`, which is also what a read beyond the datagram gives. So
a wrong offset is not excluded by the model: it makes the decoder deliver something it
should not.

Sizes stated on the wire may differ from those of the structs:

- a block longer than its struct is copied beyond it (`memcpy` with the size from the
  wire): undefined behaviour, `status = "undefined"`, and nothing is claimed of what
  follows (`BlockTooLong`, `EntryTooLong`);
- a shorter one leaves the rest of the struct as its initialisers made it. The side is
  the last field, so it stays 0, which is no side: the CSV line and `insert` throw.
  The decoder goes on by the size of the struct after an update or an execution, but
  by the stated size in a snapshot;
- the group header is found at its place in the struct, which is its place in the
  message only if the block has the size of the struct (`GroupsInHand`).

| Action | Code (simba_decoder.cpp) |
|---|---|
| `Receive` | 5-40: reset of the offset, the one or two headers |
| `ReadSBEHeader` | 41-51, with the insertion `from_id_to_type` makes into `mapping_` |
| `HandleOrderUpdate`, `HandleOrderExecution` | 54-61, 73-98 |
| `LineThrows`, `EntryThrows` | exceptions of the CSV line (which is `noexcept`) and of `insert`: `status = "terminated"` |
| `SnapshotHeader`, `SnapshotEntry`, `SnapshotDone` | 100-112, one pass of 115-123, 125-128 |
| `SkipMessage` | 66-68 |
| `DatagramDone` | the end of the loop, and the return |

`decoding` is the program counter; `decoded` is a history variable with what was
decoded of the datagram at hand: type, place and length of the body, whether there was
a handler, and the book. `incremental_header` is left out (only read by code compiled
out), and so are the values of fields that decide nothing here. `handlers` is any of
the sets main can install. Dispatch and handlers run in the consumer thread only, so
the decoder has no concurrency of its own.

### Packets and the output files

A frame is a captured packet: its length, the header length and protocol that are at
the places of an IP packet, whether it is an unfragmented IP packet that holds a
datagram (`whole`), and the datagram. `IPPacketsRead` and `PayloadsAt` are what the
program reads: the header of the frame if the frame is long enough for it, garbage of
`GarbageHeads` if not; its datagram if the computed place is that of a UDP payload,
`GarbageDatagrams` anywhere else. The EtherType is not among them, because the code
never looks at it. Reads beyond a packet (the spans are unchecked) are undefined
behaviour, modelled as arbitrary values of these sets.

| Action | Code |
|---|---|
| `SkipPacket` | packet_processor.hpp:8-33, the return for another protocol |
| `HandOver` | 8-43: the offset of the payload and the call of the decoder (`Receive`) |
| `Decode` | a step of the decoder, the handler it calls (`WriteLine`, `WriteBook`: pcap_parser.cpp:46-67), and line 44 when it returns |

`CsvLines` and `BookText` are `to_csv_string` and `to_string`: of their fields those
whose text is not just the number. `PriceTexts` is what `operator<<` of a stream makes
of a `double` with six significant digits. `order_price` is shown as `nan` when null;
`trade_price` is converted without that test and shows the null value as a number.

### Command lines

`DimcliArgv`: characters are classes the code tells apart (a letter, blanks, line ends,
form feed, backslash, the quotes, `#`, and `$` for the other characters of the shell).
One action is one turn of the loop of a `to...Argv`; the labels of the code (`IN_GAP`,
`IN_UNQUOTED`, `IN_QUOTED`, `IN_COMMENT`) are values of `mode`. Joining is a function.

| Action | Code (cli.cpp) |
|---|---|
| `toCmdline` | 1671-1835, by convention |
| `toGnuArgv`, `toGlibArgv`, `toWindowsArgv` | 1472-1548, 1339-1462, 1564-1661 |
| `EndOfLine` | what follows each of the loops |

### Parsing

A word is a sequence of symbols: `-`, `=`, `@` are characters of their own, other
symbols stand for one character if they are in `Letters` and for several otherwise.
An option is a record of what `OptBase`, `Opt` and `OptVec` hold and the parser looks
at. `values` gives each option its values with their places; an option is `Given` if
it has one. Conversions are reduced to the values they refuse.

`The({Op(a) : a \in {v}})` is `Op(v)`; it only keeps TLC from evaluating `v` more than
once. `Matched` is `assignOperands` up to the values: three rounds over the operands, one
per category, each a recursive function of the place of the operand.

| Action | Code (cli.cpp) |
|---|---|
| `StartParse` (in `FirstParse`, `SecondParse`) | 2269-2306: help options of commands, the index, the reset, environment options |
| `NextFrameWord`, `expandResponseFile`, `LeaveResponseFile`, `EndExpand` | 1892-1938; `stack` is the stack of calls |
| `BeforeActions` | 2308-2313, with `helpBeforeAction` |
| `ShortName`, `EndOfCluster`, `BareDashes`, `LongName` | 2335-2393, each with the code at `OPTION_VALUE` (2437-2455) |
| `CommandWord`, `UnknownArg`, `OperandWord`, `AssignRest` | 2395-2435, 2457-2465 with `assignOperands` |
| `ParseValue` | one turn of 2466-2476, with the parse and check actions |
| `CheckMinimums`, `AfterActions` | 2478-2507 |

| Action | Code (pcap_parser.cpp) |
|---|---|
| `MainInit`, `FirstParse`, `ReturnExitCode` | 14-29, and 75 after a second parse that fails |
| `OpenFiles`, `InstallAction` | 31-41, 43-72 (`Cli::action`) |
| `SecondParse`, `RunAction`, `defCmdAction` | 74 with `Cli::exec` (cli.cpp:2544) |
| `ChangeFiles` | none: another process writes a response file between the parses |

Where the code departs from what its comments say, the model follows the code:

- A batch is meant to have "as many packets as possible that fit the BATCH SIZE"
  (pcap_buffer.cpp:28), but a packet that would end exactly at its end is left to the next
  one (`>= BATCH_SIZE`, line 51). Nothing is lost (`BatchesContiguous`).
- `toCmdline` "parses back into those same args" (cli.h:499) only for the arguments
  that `Expressible` names: an empty argument disappears with every convention
  (`joined_line`). `ParsesBack` says exactly which lists come back.
- "prints the book as reported by the OrderBookSnapshot message" (README.md:8 of the
  repository): `emplace` drops the second order of a price on one side (simba_types.h:336),
  its volume included. The example at README.md:64 states 23 entries and prints 22 rows.
  `BookOfFirstEntries` and `BooksFollowPackets` say what is printed instead.
- Option minimums of the top level are not checked once a command was found, as the
  index is then that of the command (cli.cpp:2488); the operands before it are
  (`AcceptedIsComplete`). Nor is the minimum of an optional vector operand that is given
  by another of its names, because options are checked by their first name only.
- Not every wrong command line is reported: see `missing_value`.
- A required vector that may have no values (minimum 0) is still reported as missing
  when it has none.
- `prog ""` names the command of the top level, and `argv[0]` is expanded like any
  other word when it begins with `@`.
- An operand with `finalOpt` after a vector operand of exact size that is optional ends
  the options at another place than cli.h:1252 says (`final_operand`).

## 3. Runs

| Run | Properties | Shows |
|---|---|---|
| `buffer` | `TypeOK`, `PacketsFaithful`, `BatchesContiguous`, `BatchesNotEmpty` | PCAPBuffer alone, over 338 captures, with an unconstrained client |
| `processor` | `ProcTypeOK`, `ProcessedIsHanded`, `OnlyTheQueueIsLost`, `ReportedTotalIsProcessed`, `StopsAfterThreads`; `DeliveredInOrder` (refinement of PacketDelivery); `ProducerFinishes`, `ReleasedConsumerEnds`, `QueuedIsProcessed` | the whole reader, safety and liveness |
| `each_packet_processed` | `EachPacketProcessed`: violated | README.md:11 against pcap_processor.cpp:47: batches can be left in the queue |
| `consumer_starts` | `ConsumerStarts`: violated | README.md:14 against pcap_buffer.cpp:84: the consumer can miss the flag for ever |
| `decoder` | `DecoderTypeOK`, `BookOfFirstEntries`, `BestPricesMeet`, `DecodedInStep`, `DecodedUpToUnknown`, `SoundDatagramsAreSafe`; `DecodingReturns` | datagrams in any order, well formed or not, and the book of each snapshot |
| `packets` | `PacketTypeOK`, `ReadsInside`, `CsvFollowsPackets`, `BooksFollowPackets`; `FeedsArePackets` (refinement of MessageFeed) | packets of every kind in any order, up to what is in the output files |
| `argv` | `ArgvTypeOK`, `ParsesBack`, `GnuRules`, `NoBareWhite`; `Splits` | every short line and list of arguments, by the three conventions |
| `command_line` | `CommandTypeOK`, `ExpandsAll`, `OperandsInOrder`, `AcceptedIsComplete`, `FinalEndsOptions`, `SecondParseAgrees`, `ExitTells`; `ProgramEnds` | pcap_parser and six other programs of Dimcli, with every short command line |
| `final_operand` | `FinalEndsOptions`: violated | cli.h:1252 against cli.cpp:2429: a word after the final operand is taken for an option |
| `missing_value` | `ParseReturns`: violated | cli.h:455 against cli.cpp:2219: `pcap_parser --out-book x` ends by an exception inside the parse |
| `joined_line` | `JoinedIsSame`: violated | cli.h:499 against cli.cpp:1754: an empty argument is lost when a joined line is parsed |
| `messages_of_interest` | `MessagesOfInterestDecoded`: violated | simba_decoder.cpp:40 against line 67: a message of no interest ends the datagram |

The two concurrency violations were reproduced with the compiled program: on one CPU
with a small capture it hangs in every run, and with a slowed-down reader it ends
after 16513 of 16533 packets.

`final_operand` was reproduced with the compiled library too: with `[pair]` of size 2 and
a final `[rest]`, `prog x -b` gives `x` to `rest` and still sets the flag of `-b`. The end
of the options is where as many positional words have been read as the operands before
`rest` need at least (cli.cpp:771, 2429), two, but one value is dealt past the pair to
`rest` (cli.cpp:2172). A pair whose values are given by name is counted likewise.

`missing_value` is about an error that cannot be reported. `assignOperands` counts the
operands it could deal (`usedPos`) and uses that number as an index into all raw values,
options among them (cli.cpp:2219). `--out-book` may be given without its value, and its
raw value then has a null `ptr` (line 2444), of which `badUsage` is given a `std::string`.
In `pcap_parser --out-book x` the word `x` is unexpected, and the raw value taken for it is
that of `--out-book`. `parseValue` has the same fault at line 2088, where a vector that is
full is given once more without its optional value. In the model both are `BadValue`: a
usage error, or `Abort`, which is `pc = "terminated"`. Nothing catches the exception, so
the process ends by it, in the first parse or in the second.

### Bounds

- `BATCH_SIZE = 12` words instead of 4194304: room for a record header with up to 7
  words of payload, or two records with an empty one. Captured lengths 0, 1, 2, 4 and
  7 make a record end at every interesting distance from the end of the buffer: a
  header that straddles it before and after `captured_length`, one that begins at its
  last word, an exact fit.
- Captures: in `buffer` all layouts of up to three records, and every truncation of
  the layouts over three of the lengths; in `processor` all layouts of up to four
  records over {1, 4} (up to four batches), two truncations, two with a packet that
  throws, and four the constructor rejects.
- `MaxChunks` bounds the queue, which the code does not bound. In `processor` it is
  the largest number of batches any of the captures gives, so it never blocks the
  producer.
- `CapturedLengths`: what garbage may read as; small values that fit and, in `buffer`,
  one that does not.
- `decoder`: every pair of the schema's messages (no entries, one, three with a
  repeated price, one without a price) with an incremental header, every triple of
  three of them without, every unknown enumeration and every size that is too short or
  too long before an ordinary message, and three wrong `message_size`. For the book:
  snapshots of eight entries with both sides interleaved, three prices of each in every
  order and one of them twice with another volume, entries without a price and of the
  third side. A datagram
  follows any other, so what one leaves behind meets all of them. Garbage headers are
  of every template, and garbage groups include ones with entries of size 0.
- `packets`: plain packets with no, one and ten words of IP options, with padding, with
  prices of six digits and of more (rounded either way), null and negative, with a
  message of an unknown template in the middle and with two books; TCP, a packet cut
  short, one of another EtherType, one shorter than its headers. Any `MaxFrames =
  2` of them follow each other: what one packet leaves behind meets every other. More
  packets add nothing: what the decoder keeps is what the last packet left, and the
  refinement is proved for any number.
- `argv`: all lines of up to four characters over eight classes, of five over the four
  that matter most, of three with `$` and carriage returns; lists of up to two
  arguments of up to two characters, and of one of up to three. An escape needs two characters,
  a doubled backslash before a quote four.
- `command_line`: the words of each program are chosen for the rules its options bring
  into play; all command lines of up to three words (two with the response files that
  fail, four for operands, commands and the final operand) are tried. `RestProgram` has a
  final operand whose value is followed by an option, a dash or `--`, four words being
  enough for two of these after it. `RequiredProgram` has a vector of pairs, whose minimum
  is met or missed in parses without a command. The index of each program
  is checked to break no assertion of the code (`ProgramsAreSound`). Three operands,
  one of them a vector of up to two that can be an option as well, make each round of
  `assignOperands` meet too few and enough values; programs without operands meet values
  that nothing takes. Response files are nested three deep, empty, missing, unreadable, and
  recursive directly and through another one, in two directories.

`buffer`, `decoder`, `packets`, `argv` and `command_line` turn the deadlock check off
because the process, the capture or the line may end. In
`processor` it is on, and the end of the program is an explicit stuttering step.

### Fairness

`FairSpec` assumes weak fairness of each thread separately: the operating system runs
a thread that can run, and no thread of this program is suspended otherwise. Failing
reads and spurious wake-ups get no fairness. `ProducerFinishes` and
`ReleasedConsumerEnds` are stated for captures whose records fit in a batch
(`RecordsFit`) and are not cut before a `captured_length` (`HeadersPresent`): on
others the producer queues empty batches for ever, which is listed as a hazard.

The decoder's `FairSpec` is weak fairness of `DecodeStep`: the thread that called
`decode_message` keeps running. No datagram need ever arrive. `DimcliArgv` and `PcapParserMain` are
sequential: weak fairness of the one thread. `ChangeFiles` gets none, as nothing makes
another process write.

## 4. Proofs

### The reader

`PCAPBufferProofs` and `PCAPProcessorProofs` prove, for every batch size, every set of
captures, every bound of the queue and every interleaving, each safety property the
runs `buffer` and `processor` check.

| Theorem | States |
|---|---|
| `Invariance`, `ProcInvariance` | the inductive invariants `IInv`, `ProcIInv` |
| `TypeCorrectness`, `ProcTypeCorrectness` | `TypeOK`, `ProcTypeOK` |
| `PacketsAreFaithful`, `BatchesAreContiguous`, `BatchesAreNotEmpty` | the properties of PCAPBuffer |
| `ProcessorIsClient` | `ProcSpec => Spec`: the program is one of the clients PCAPBuffer allows |
| `HandedIsProcessed`, `LossIsTheQueue`, `TotalIsProcessed`, `StopIsLast` | the safety properties of PCAPProcessor |
| `ImplementsPacketDelivery` | `ProcSpec => DeliveredInOrder`, the refinement |

Assumptions. `PCAPFileAssumption`: a batch is larger than a record header (`BATCH_SIZE
> REC_HEADER`), garbage reads as a natural number, and every file is a capture
(`IsFile`): records follow one another, the file is not longer than they are and is
cut at most inside the last one. `MaxChunksAssumption`: the bound of the queue is a
natural number. TLC evaluates both on every run.

The inductive invariant of PCAPBuffer. The properties speak of packets and batches;
what keeps them true is where the producer is, so `IInv` adds to them:

- `AtRecord`: `current_offset_` is the start of record `packet_nr`, or at or beyond
  the end of the file when there is none. It survives `PackPacket` because the length
  parsed at the place of a `captured_length` is that record's (`LengthsAtRecord`,
  `ParsedLength`).
- `FilePositioned`: whenever a chunk may be read, the file is positioned at
  `current_offset_`. `PushBatch` re-establishes it by the seek.
- `BatchStarted`: a batch being filled starts with a record of the capture, because
  `EnterLoop` is taken only before the end of the file.
- `BufferFilled`: word `i` of `local_buffer_` is word `BatchBase + i` of the file, as
  far as the file goes, and `offset` is the distance of `current_offset_` from
  `BatchBase`. It is what makes the words left from an earlier read harmless: a
  `captured_length` that is not in the buffer is followed by the test of line 51, and
  a packet that passes the test lies inside the words just read, unless the file ends
  inside it. This is the reason `PacketsFaithful` is stated for records that were
  captured whole.
- `BatchNotEmpty`: when a batch is pushed and records fit, something was packed.

The inductive invariant of the composition. `IInv` is kept because every step of the
program is a step of PCAPBuffer or leaves it alone (`StepOfBuffer`). `ProcIInv` adds:

- `ThreadsJoined`: what the position of the main thread says about the other two.
- `FlagTellsProducer`: the flag is up exactly while the producer is between lines 9
  and 84; a consumer that has left its loop found it down after having found it up
  once, so the producer is done. This is what excludes an exception after the consumer
  has finished, in the refinement.
- `AllPacked`: a producer that left its loop has packed every record. The flag cannot
  have ended the loop, as `stop()` comes after the joins (`NothingLeft`).
- `BatchInHand`, `PlaceInCapture`, `Totals`: the batch being processed is faithful and
  is the last one handed out; the number processed, and the two running totals, are
  given by its first packet number, and by `handed` between batches.

The refinement maps `ProcessPacket` to `Deliver`, every end of the process and the end
of the consumer thread to `End`, and every other step to a stutter.

### The decoder and its book

`OrderBookSnapshotProofs` and `SIMBADecoderProofs` prove the safety properties of the
run `decoder`, for every set of entries and datagrams, of any number and length.

| Theorem | States |
|---|---|
| `BookInvariance`, `DecoderInvariance` | the inductive invariants `BookIInv`, `DecoderIInv` |
| `BookTypeCorrectness`, `DecoderTypeCorrectness` | `BookTypeOK`, `DecoderTypeOK` |
| `BookIsOfFirstEntries` | `BookSpec => []BookOfFirstEntries` |
| `BestPricesAreMiddleRows` | `BookSpec => []BestPricesMeet`: both sides are printed in strictly falling prices |
| `DecoderUsesBook` | `Spec => BookSpec`: the decoder uses the book by its operations only, so the two theorems hold in it |
| `DecodingIsInStep`, `DecodingStopsAtUnknown`, `SoundDatagramsDecode` | `DecodedInStep`, `DecodedUpToUnknown`, `SoundDatagramsAreSafe` |

Assumptions. `OrderBookSnapshotAssumption`: entries have a numeric price and volume.
`SIMBADecoderAssumption`: every datagram is one (`IsDatagram`): its first message begins
at the end of its headers and each next one where the one before ends, and garbage reads
as numbers. That any later message begins at or after the end of an earlier one is proved
from this (`StartsAscend`, `MessagesFollow`), as it is for the records of a capture: the
places where it fails would have a least one. The induction theorems of the library,
which take an operator, cannot be used; well-foundedness of the natural numbers, stated
for sets, can.

The book: `PlacedFirst` says of a map that its entries are in the order of its comparator
(`Ordered`), that each is an entry given for its side with no earlier one at its price, and
that every price given has one. A call of `emplace` preserves it (`EmplaceKeepsFirst`):
`LowerBound` has a place to choose because a map has an end (`LowerBoundIs`), and when the
entry there is not equivalent the new one comes strictly between its neighbours
(`EmplaceIs`). Order and first entries need each other: that a price is not yet in the map
is known from the one place that is looked at only because the map is in order. The order
of the comparators then becomes falling prices by the direction in which each map is
iterated (`BookIInvDescends`).

The decoder: `InStep` says where the decoder is in a datagram that follows the schema:
before message `Len(decoded) + 1` at its start (`BeforeMessage`), after its SBE header
and with that header (`InMessage`), before entry `entry_nr + 1` of it with the entries
before that inserted (`InEntries`), or after one of unknown template (`AfterUnknown`).
Three lemmas say that what is read there is this message and no other
(`MessageAtItsStart`, `HeaderAtItsStart`, `EntryAtItsPlace`), because messages do not
overlap. Nothing of the datagram before is in the invariant but
`MappingExtendsTemplates`: `from_id_to_type` adds only unknown templates to the map.
`Receive` establishes `InStep` from nothing but the reset of the offset, which is why
a datagram that was decoded out of step does no harm to the next one.

### Packets

`PacketProcessorProofs` proves, for every set of frames, datagrams and garbage:

| Theorem | States |
|---|---|
| `UsesDecoder` | `PacketSpec => Spec`: the packet processor is one of the callers the decoder allows, so the theorems about the decoder hold in it |
| `PacketInvariance` | the inductive invariant `PacketIInv` |
| `FeedsAreOfPackets` | `PacketSpec => FeedsArePackets`, the refinement of MessageFeed |
| `PlainPacketsAreReadInside` | `ReadsInside` |
| `PacketTypeCorrect` | `PacketTypeOK` |
| `BooksAreOfPackets` | `BooksFollowPackets`: the book file has a book for each snapshot sent, in their order, with the rows of that message: falling prices, the first volume of each |
| `CsvIsOfPackets` | `CsvFollowsPackets`: the CSV file has a line for each update and execution, in their order, with the price sent, to six digits |

Assumptions. `PacketProcessorAssumption`: every frame is one (`IsFrame`): a whole UDP
packet is at least as long as its headers and its datagram, and an order, where a message
has one, has numeric prices (`IsOrder`); garbage is of the sets named.

`PacketIInv` adds to the decoder's invariant only `InHand`: while a packet is decoded,
it passed the filter, and if it is plain the datagram is its own and `udp_at` the place
of its payload. That what is decoded of it is its feed follows from the decoder being
in step with the datagram (`ReturnsWithFeed`); no conjunct speaks of earlier packets.
What is in the output files needs two more invariants, which tie each file to the
packets processed and to the messages of the one at hand that were decoded so far:
`BooksIInv` for the book file, `CsvIInv` for the CSV file. They are about any frame, in
step or not, since garbage decoded is written as well. `BooksFollowPackets` and
`CsvFollowsPackets` speak of the messages sent instead, which the feeds are by the
refinement; a row of a book is told from the entries of its message by what the maps hold
when the last entry was inserted (`BookIsOfFirstEntries`, `TextShowsBook`).
The refinement maps the end of a packet, skipped or decoded, to `Take` (`TakesOrNot`),
every other step to a stutter.

### Splitting command lines

`DimcliArgvProofs` proves, for every alphabet of character classes, line and list of
arguments (`DimcliArgvAssumption`: lines are sequences of `Characters`, which has the
classes the code names):

| Theorem | States |
|---|---|
| `ArgvTypeCorrect` | `ArgvTypeOK`: the reader stays on the line though an escape reads two characters, and joining gives a line |
| `WhiteIsBrought` | `NoBareWhite`, for each convention |
| `GnuFollowsRules` | `GnuRules`: what `toGnuArgv` returns is what the rules of `buildargv` define |
| `JoinedParsesBack` | `ParsesBack`, for each convention: a joined line parses back into the arguments given exactly when each of them is `Expressible` |

`BareIInv` says of each argument finished and of the one in hand that it has no white
space unless a quote or a backslash was read before. `GnuIInv` says where the loop is
with respect to rules over positions: whether character `cur` is escaped, which quote is
open before it, how many arguments have begun, and which characters of the last one are
kept (`GnuAt`). The rules are recursive functions of the place; their equations
(`EscapedEquation`, `OpenEquation`) are proved by constructing the function place by
place, and the arguments are numbered by the places where they begin (`Number`), so that a
turn of the loop that drops, keeps or separates is one lemma each (`DropStep`,
`KeepStep`, `StartStep`, `SeparatorStep`).

For `JoinedParsesBack` the line is first laid out (`LaidOut`): argument k begins after
place `A[k]`, ends at `E[k]`, and its first j characters, with what was put before them,
end at `P[k][j]`. Where the reader is, is then an argument and a number of its characters,
and the line says what comes next. The theorem is an equivalence, so each invariant says
two things: that what has been read is what was given, or else that something was lost,
which cannot be made good later.

- `EscapedIInv` (GNU and GLib put a backslash before a character): the argument in hand is
  the part read of the one given and those found are the ones before it, unless an argument
  was empty or, with GLib, had a line feed. No argument found is empty or has one, so a
  list with such an argument is never the result (`SameSoFar`).
- `WindowsIInv` (`toWindowsArgv` counts a run of backslashes until it sees what follows).
  An argument that has a space is quoted, and if it ends in backslashes (`Lossy`) these
  are halved and, when they are odd in number, the closing quote is taken for a character
  of it; from there on nothing is known of where the reader takes arguments to begin. What remains known is a number: no reading finds
  more backslashes than were given, and halving that last run loses one at least
  (`Total`, `Light`), so the result differs. Without such an argument the reader is inside
  quotes exactly where the argument was quoted (`InTheQuotes`, `NotInQuotes`), and what is
  lost is an empty argument or a line end outside quotes.

### The index and the dealing of values

| Theorem | States |
|---|---|
| `IndexIsTyped` | the index of a command names only options there are; what it wants before a command (`minOprs`) is the sum of what its required operands need |
| `MatchedIsDeal` | the three rounds deal out no more values than there are, to operands there are; as many as the required ones need are all dealt, and each of these gets its minimum |
| `DealtInOrder` | no operand is dealt more than its maximum, and an optional one is dealt a value only if each required one that has its minimum has its maximum |

All are about recursive functions over the options, the names and the operands. Nothing
is assumed about them: `StepsExist` proves that a function defined by steps exists, place
by place, `TheOne` that the definition means it, and `Upward` that what holds at 0 and is
kept by each step holds up to the last place. `SumsTo` speaks of a sum by the function of
its partial sums.

The values are then handed out by number: `OperandOf(counts, k)` is the operand of the
k-th. `EachGetsItsCount` says that an operand gets as many of them as it was dealt: the
numbers that reach it are those between two partial sums (`OperandIsAt`), which ascend
(`SumsAscend`), and the k-th of a set of places is found by counting those up to it
(`NumbersAscend`).

### The two parses

`PcapParserMainProofs` proves, for every program, file system and set of command lines:

| Theorem | States |
|---|---|
| `ExitInvariance` | `ExitsKnown`: what each place of the program tells of the exit code |
| `ExitCodeTells` | `ExitTells`: what a process that returns tells by its exit code, and when it ends by an exception |
| `CommandInvariance` | the inductive invariant `CommandIInv` |
| `CommandTypeCorrect` | `CommandTypeOK` |
| `OperandCountsMatch` | the assertion at the command (cli.cpp:2403): the operands before it have taken all the values before it |
| `AcceptedComplete` | `AcceptedIsComplete`: nothing required is missing when a parse succeeds |
| `OperandsAreInOrder` | `OperandsInOrder`: positional values go to the operands in their order, required ones before optional ones |
| `FinalEnds` | `FinalEndsOptions`: after a final option or operand no word is an option, if each program satisfies `FinalsFollowSingles` |
| `ResponseFilesExpand` | `ExpandsAll`: response files are replaced in place by the words they stand for, and expansion fails exactly for a file that is missing, unreadable or contains itself |

Assumptions. `DimcliParseAssumption`: options and words are sequences, the sizes of
vectors are those `size()` allows and other options have one value, and an option has at
most one operand name, which is the assertion "Argument with multiple operand names"
(cli.cpp:708; `OptsOK`); each
command has one help option and each help option is of a command, as `findCmdAlways`
makes them; and if there are commands, the operands of the top level have a fixed number
of values (`FixedOperands`), which is the assertion "Mixing top level operands with
commands" (cli.cpp:2286). Without it `AcceptedIsComplete` would not hold: the operands of
the top level are not looked at again once the index is that of the command.
A file system has finitely many files, which is the last part of it.
`ArgvsAssumption`: a command line has the name of the program. TLC evaluates both.

The invariant of the exit code, `ExitsKnown`, says what each position of the program
tells of `exitCode`, `shown` and `ran`: nothing has failed, been shown or run before the
parse is left; a parse that was left has failed or has shown something. One lemma,
`ParseOutcome`, reduces the sixteen actions of the parser to their outcomes: they go
on, stop for a bad word, stop after help, or end the process. When the last is possible is
told by `AbortInv`: only with a raw value that has none of its own. It needs `CommandIInv`,
since the place that the error after the last word names is one of a raw value only by the
count of those pending (`UnusedIsRaw`). `CommandIInv` adds to `ExitsKnown`:

- `OptionsInv`: the index is one of the options there are, and each command has one help
  option. The second parse touches the commands again and finds nothing untouched
  (`TouchKeepsHelp`).
- `WordsInv`: each response file that waits for another one waits at a word of its own,
  which is the one that is replaced (`ReplaceCounts`).
- `PlaceInv`: an option that takes its value from the next word moves two places, so
  `argPos` may be two beyond the last word; `numPos` grows at most with `argPos`.
- `RawInv`: the raw values that wait for an operand are exactly as many as `numPos`
  counts, so `assignOperands` finds an operand for each of them (`EachPendingHasPlace`,
  `OperandsAreAssigned`). Without the count nothing would keep `assignOperands` from
  running out of operands; at the command `numPos = minOprs`, and `MatchedIsDeal` says
  that all are dealt.
- `RunsInv`: how often there was a parse and a run, with `ExitsKnown`.

`AcceptedIsComplete` needs what a word read early has to do with a value counted late.
Its invariants are about:

- the commands (`ModeInv`): a word is taken for a command only if commands are mixed with
  operands, and then these are fixed, in both parses, though each adds options;
- the index in use (`MatchInv`): the command, if there was one, is the only raw value of
  its kind, stands at `precmdValues`, and decides of which command the index is;
- the operands of the top level (`TopInv`): at the command each of them had its minimum
  among the raw values up to `precmdValues`. This is where the dealing comes in
  (`CommandMeetsMinimums`, from `MatchedIsDeal` and `EachGetsItsCount`), and what is
  before the command is not touched afterwards (`BeforeStays`);
- the values (`ValuesInv`): an option has the values of the raw values parsed for it, all
  of them if it is a vector, and never more than its maximum;
- the checks (`CheckedInv`): after them there is not too little of anything in the index
  in use, and nothing required by the program is missing.

The operands of the top level have their minimum by the third and the fourth, those of the
command by the second and the last.

`OperandsInOrder` needs two facts more. `DealtInv` says where the positional values went:
from `assignOperands` on, each is of the operand that `OperandOf` gives for its number
among those after the command. Numbers ascend with the places and `OperandOf` with the
numbers (`OperandsAscend`), which is the order; `EachGetsItsCount` turns the number of
values of an operand into the number dealt to it, of which `DealtInOrder` speaks. That
theorem follows the three rounds: the values left over shrink from one operand to the next,
so a value that reaches an optional operand was left over by every required one
(`DealtInRounds`). An operand is told by its option because an option has one operand name
(`OperandsDiffer`); and that a required operand has its minimum, also when values were
given by name before, is `CheckedInv` again.

`FinalEndsOptions` is false of the code in general, as `final_operand` shows, and
`FinalEnds` proves it under the condition `FinalsFollowSingles`: an operand before a final
one of the same command has exactly one value or is final itself, and none that is
optional comes before a required final one. The second half is what indexName asserts; the
first is more than it asserts (a fixed number of values). It is also more than the truth
needs, since a required pair before a final operand does no harm when its values are
positional. The condition holds for every program of `command_line`, two of which have a
final operand behind another one, and only the program of `final_operand` breaks it:
the assumption `FinalsAreFound` has TLC check both.

`FinalInv` carries the property through the reading of words: each word after one that ends
the options was taken whole, and once there is such a word no option is looked for
(`EndsKnown`). For a final option that is known when its value is read. For a final operand
it is not: a value is `Pending` until `assignOperands`, and the invariant has to say that it
ends the options if it is among those after the first `finalOpr` (`EndsOptionsNow`).
`FinalsComeLate` closes the gap: a value dealt to a final operand is one of these. The
operands before the first final one have a single value each, so `finalOpr` is their number
(`FinalPlace`), and a value reaches the final one only when each
before it has its own (`SinglesTakeFirst`, which follows the three rounds as
`DealtInRounds` does).

`ExpandsAll` is about files that name files. What words stand for is a function of the depth
to which files are followed (`Expansions`), and `ReachedIn` gives the files reached in so
many steps; `ResponseFilesExpand` says that the parser, which keeps a stack of open files and
puts the words of each in the place of its name, finds what these functions say. Its
invariant, `ChainOK`, has three parts:

- the open files are distinct and each waits at the word that names the next (`Waits`); so
  there are no more of them than files (`ChainIsShort`);
- the words already done in the frame at depth l are what its first words stand for, for
  every depth of expansion from the number of files less l - 1 on (`Followed`). The depth
  left shrinks as the stack grows, and that it is enough is the first part;
- the files followed so far in a frame name only each other, none contains itself, and none
  is open (`Sound`, `FrameOK`). When the last word is done this is the whole of what is
  reached.

A step of the chain is one lemma each: `NextWordKeepsChain`, `OpenKeepsChain`,
`LeaveKeepsChain` and `ChainEnds`. For the error, a file that was named is reached from the
command line along the stack, and, if it is on the stack, from itself (`ReachedAlong`,
`ChainFails`; as open files are distinct, the number of steps does not exceed the number of
files, `ReachedSooner`). Conversely a set that has the names on the line and is closed under
naming has all that is reached (`ReachedWithin`), and that is the set of files followed.

### Only model-checked

- The liveness properties (`ProducerFinishes`, `ReleasedConsumerEnds`,
  `QueuedIsProcessed`, `DecodingReturns`, `Splits`, `ProgramEnds`),
  which need fairness and `ENABLED`, beyond the prover.
- `SecondParseAgrees`, which compares two runs of the parser: it holds because a parse is
  a function of what it starts from, and stating that function would restate the parser.
- The six violations.

## 5. Not modelled, and plan

Not modelled, and why:

- Dimcli: the layout of help, usage and errors, column widths and sorting (no state
  that anything depends on); prompts, passwords and confirmations (the program has
  none; they are input and output); conversions of values, units, choices and flag
  values (reduced to values that are refused; pcap_parser has strings only); the help
  command. The component is therefore listed as partly modelled.
- Logging, `hex_dump` (compiled out and without state), the tests.
- The paths of the options are not related to each other: `--file x --out-book x`
  truncates the capture before it is read, which no property excludes.
- The bytes of a record whose length is not a multiple of four, as said above.
- The command line and the reader are separate models: `RunAction` stands for the whole
  run of the PCAPProcessor, which returns or throws; `PCAPProcessor` stands for what
  one packet does by whether it throws; `PacketProcessor` takes any sequence of packets.

Next: a bound on the length of a decoding; choices and flag values in `DimcliParse`.
