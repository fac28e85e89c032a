----------------------------- MODULE PCAPBuffer -----------------------------
(***************************************************************************)
(* class PCAPBuffer: the producer thread cuts the capture into batches of  *)
(* packets and queues them; a client thread waits for the producer to      *)
(* start and takes the batches out.                                        *)
(*                                                                         *)
(* The producer's steps between two accesses to state that another thread  *)
(* reads or writes are one action each.  A critical section under          *)
(* chuncks_mutex is one action: it blocks nowhere inside.                  *)
(***************************************************************************)
EXTENDS PCAPFile

CONSTANT MaxChunks   \* bound on the queue; the deque of the code has none

ASSUME MaxChunksAssumption == MaxChunks \in Nat

VARIABLES
  file,               \* the capture being read
  file_pos,           \* file_handle_: position of the next read
  file_open,          \* file_handle_: not closed
  current_offset_,    \* where the next record to pack begins
  local_buffer_,      \* [0 .. BATCH_SIZE - 1 -> file position or ZERO]
  offset,             \* producer: next position in local_buffer_
  packet_nr,          \* producer: number of the next packet
  buffered_packets,   \* producer: the batch being filled
  pcap_data_chunks_,  \* the deque of batches
  is_started_,        \* the atomic flag
  waiting,            \* a thread is blocked in is_started_.wait(false)
  producer,           \* program counter of the producer thread
  process,            \* running, or how the process was ended
  handed              \* history: number of packets next_batch has returned

bufferVars ==
  <<file, file_pos, file_open, current_offset_, local_buffer_, offset, packet_nr,
    buffered_packets, pcap_data_chunks_, is_started_, waiting, producer, process,
    handed>>

fileVars    == <<file, file_pos, file_open>>
packingVars == <<current_offset_, local_buffer_, offset, packet_nr, buffered_packets>>
flagVars    == <<is_started_, waiting>>
queueVars   == <<pcap_data_chunks_, handed>>

EmptyBatch(nr) == [start_packet_number |-> nr, number_packets |-> 0, packets |-> <<>>]

Init ==
  /\ file \in Files
  /\ file_pos = HEADER_SIZE
  /\ file_open = TRUE
  /\ current_offset_ = HEADER_SIZE
  /\ local_buffer_ = [i \in 0 .. BATCH_SIZE - 1 |-> ZERO]
  /\ offset = 0
  /\ packet_nr = 1
  /\ buffered_packets = EmptyBatch(0)
  /\ pcap_data_chunks_ = <<>>
  /\ is_started_ = FALSE
  /\ waiting = FALSE
  /\ producer = "none"
  /\ process = "running"
  /\ handed = 0

-----------------------------------------------------------------------------
(***************************************************************************)
(* start_buffering() and the producer thread.                              *)
(***************************************************************************)
\* The producer thread is there, and the process has not ended.
ProducerAt(pc) == process = "running" /\ producer = pc

StartBuffering ==
  /\ ProducerAt("none")
  /\ producer' = "start"
  /\ UNCHANGED <<fileVars, packingVars, flagVars, queueVars, process>>

SetStarted ==
  /\ ProducerAt("start")
  /\ is_started_' = TRUE
  /\ producer' = "notify"
  /\ UNCHANGED <<fileVars, packingVars, waiting, queueVars, process>>

\* A thread blocked on the flag is woken; it compares the value again.
NotifyOne ==
  /\ ProducerAt("notify")
  /\ waiting' = FALSE
  /\ producer' = "loop"
  /\ UNCHANGED <<fileVars, packingVars, is_started_, queueVars, process>>

\* Mutant: the loop also runs when everything has been read.
MoreToReadOrAtEnd == current_offset_ <= file.size /\ is_started_

\* Mutant: the loop ends when less than a whole batch is left.
MoreThanABatchToRead == current_offset_ + BATCH_SIZE <= file.size /\ is_started_

MoreToRead == current_offset_ < file.size /\ is_started_

EnterLoop ==
  /\ ProducerAt("loop")
  /\ MoreToRead
  /\ producer' = "read"
  /\ UNCHANGED <<fileVars, packingVars, flagVars, queueVars, process>>

LeaveLoop ==
  /\ ProducerAt("loop")
  /\ ~MoreToRead
  /\ producer' = "exit"
  /\ UNCHANGED <<fileVars, packingVars, flagVars, queueVars, process>>

\* Mutant: the operands of the subtraction swapped.
BytesToReadSwapped ==
  IF current_offset_ + BATCH_SIZE > file.size
  THEN current_offset_ - file.size
  ELSE BATCH_SIZE

BytesToRead ==
  IF current_offset_ + BATCH_SIZE > file.size
  THEN file.size - current_offset_
  ELSE BATCH_SIZE

\* What is beyond the words just read stays in the buffer from earlier reads.
ReadChunk ==
  /\ ProducerAt("read")
  /\ file_open
  /\ file_pos + BytesToRead <= file.size
  /\ local_buffer_' = [i \in 0 .. BATCH_SIZE - 1 |->
                         IF i < BytesToRead THEN file_pos + i ELSE local_buffer_[i]]
  /\ file_pos' = file_pos + BytesToRead
  /\ buffered_packets' = EmptyBatch(packet_nr)
  /\ offset' = 0
  /\ producer' = "pack"
  /\ UNCHANGED <<file, file_open, current_offset_, packet_nr, flagVars, queueVars, process>>

\* The read fails: an I/O error, a closed handle, or fewer bytes than asked
\* for.  The exception leaves the thread, so the runtime ends the process.
ReadFails ==
  /\ ProducerAt("read")
  /\ process' = "terminated"
  /\ UNCHANGED <<fileVars, packingVars, flagVars, queueVars, producer>>

\* The values memcpy can leave in packet_header.captured_length: the header is
\* copied from local_buffer_ whether or not all of it lies inside the buffer.
ParsedLengths ==
  IF offset + LENGTH_WORD >= BATCH_SIZE
  THEN CapturedLengths
  ELSE LengthsAt(file, local_buffer_[offset + LENGTH_WORD])

Packing == ProducerAt("pack") /\ current_offset_ < file.size /\ offset < BATCH_SIZE

\* The packet whose header is at the current offset.
Slice(len) == [j \in 1 .. len |-> local_buffer_[offset + REC_HEADER + j - 1]]

PackPacketLen(len) ==
  /\ offset + REC_HEADER + len < BATCH_SIZE
  /\ buffered_packets' = [buffered_packets EXCEPT
                            !.packets = Append(@, Slice(len)),
                            !.number_packets = @ + 1]
  /\ offset' = offset + REC_HEADER + len
  /\ current_offset_' = current_offset_ + REC_HEADER + len
  /\ packet_nr' = packet_nr + 1

PackPacket ==
  /\ Packing
  /\ \E len \in ParsedLengths : PackPacketLen(len)
  /\ UNCHANGED <<fileVars, local_buffer_, flagVars, queueVars, producer, process>>

\* The break of the inner loop.
DoesNotFit ==
  /\ Packing
  /\ \E len \in ParsedLengths : offset + REC_HEADER + len >= BATCH_SIZE
  /\ offset' = offset + REC_HEADER
  /\ producer' = "push"
  /\ UNCHANGED <<fileVars, current_offset_, local_buffer_, packet_nr, buffered_packets,
                 flagVars, queueVars, process>>

\* The condition of the inner loop is false.
ChunkConsumed ==
  /\ ProducerAt("pack")
  /\ ~Packing
  /\ producer' = "push"
  /\ UNCHANGED <<fileVars, packingVars, flagVars, queueVars, process>>

\* Mutant: no seekg after the batch is queued.
PushBatchNoSeek ==
  /\ ProducerAt("push")
  /\ Len(pcap_data_chunks_) < MaxChunks
  /\ pcap_data_chunks_' = Append(pcap_data_chunks_, buffered_packets)
  /\ producer' = "loop"
  /\ UNCHANGED <<fileVars, packingVars, flagVars, handed, process>>

\* The critical section, then seekg back to the first record not packed.
PushBatch ==
  /\ ProducerAt("push")
  /\ Len(pcap_data_chunks_) < MaxChunks
  /\ pcap_data_chunks_' = Append(pcap_data_chunks_, buffered_packets)
  /\ file_pos' = current_offset_
  /\ producer' = "loop"
  /\ UNCHANGED <<file, file_open, packingVars, flagVars, handed, process>>

\* No notification: a thread blocked in wait_started() stays blocked.
ClearStarted ==
  /\ ProducerAt("exit")
  /\ is_started_' = FALSE
  /\ producer' = "done"
  /\ UNCHANGED <<fileVars, packingVars, waiting, queueVars, process>>

ProducerStep ==
  \/ SetStarted \/ NotifyOne \/ EnterLoop \/ LeaveLoop \/ ReadChunk
  \/ PackPacket \/ DoesNotFit \/ ChunkConsumed \/ PushBatch \/ ClearStarted

-----------------------------------------------------------------------------
(***************************************************************************)
(* The operations of the client.                                           *)
(***************************************************************************)
\* wait_started() compares the flag with false and blocks: one indivisible step.
WaitBlocks ==
  /\ process = "running"
  /\ ~waiting
  /\ ~is_started_
  /\ waiting' = TRUE
  /\ UNCHANGED <<fileVars, packingVars, is_started_, queueVars, producer, process>>

\* The standard lets an atomic wait unblock spuriously.
SpuriousWake ==
  /\ process = "running"
  /\ waiting
  /\ waiting' = FALSE
  /\ UNCHANGED <<fileVars, packingVars, is_started_, queueVars, producer, process>>

\* Mutant: the most recent batch is taken.
NextBatchBack ==
  LET last == Len(pcap_data_chunks_) IN
  /\ process = "running"
  /\ pcap_data_chunks_ # <<>>
  /\ pcap_data_chunks_' = SubSeq(pcap_data_chunks_, 1, last - 1)
  /\ handed' = handed + pcap_data_chunks_[last].number_packets
  /\ UNCHANGED <<fileVars, packingVars, flagVars, producer, process>>

\* next_batch() when the deque is not empty.
NextBatch ==
  /\ process = "running"
  /\ pcap_data_chunks_ # <<>>
  /\ pcap_data_chunks_' = Tail(pcap_data_chunks_)
  /\ handed' = handed + Head(pcap_data_chunks_).number_packets
  /\ UNCHANGED <<fileVars, packingVars, flagVars, producer, process>>

Stop ==
  /\ process = "running"
  /\ is_started_' = FALSE
  /\ file_open' = FALSE
  /\ UNCHANGED <<file, file_pos, packingVars, waiting, queueVars, producer, process>>

\* Another thread of the program ends the process.
ProcessEnds ==
  /\ process = "running"
  /\ process' \in {"terminated", "exited"}
  /\ UNCHANGED <<fileVars, packingVars, flagVars, queueVars, producer>>

Next ==
  \/ StartBuffering
  \/ ProducerStep
  \/ ReadFails
  \/ WaitBlocks
  \/ SpuriousWake
  \/ NextBatch
  \/ Stop
  \/ ProcessEnds

Spec == Init /\ [][Next]_bufferVars
-----------------------------------------------------------------------------
(***************************************************************************)
(* Properties.                                                             *)
(***************************************************************************)
ProducerPCs ==
  {"none", "start", "notify", "loop", "read", "pack", "push", "exit", "done"}

Batches ==
  [start_packet_number : Nat, number_packets : Nat, packets : Seq(Seq(Nat \cup {ZERO}))]

\* The type of every variable.
TypeOK ==
  /\ IsFile(file)
  /\ file_pos \in Nat
  /\ file_open \in BOOLEAN
  /\ current_offset_ \in Nat
  /\ local_buffer_ \in [0 .. BATCH_SIZE - 1 -> Nat \cup {ZERO}]
  /\ offset \in Nat
  /\ packet_nr \in Nat \ {0}
  /\ buffered_packets \in Batches
  /\ pcap_data_chunks_ \in Seq(Batches)
  /\ is_started_ \in BOOLEAN
  /\ waiting \in BOOLEAN
  /\ producer \in ProducerPCs
  /\ process \in {"running", "terminated", "exited"}
  /\ handed \in Nat

\* Every packet of the batch whose record was captured in full is that record's
\* payload, word for word.
Faithful(b) ==
  /\ Len(b.packets) = b.number_packets
  /\ \A k \in 1 .. b.number_packets :
       LET r == b.start_packet_number + k - 1
       IN  r \in Records(file) /\ (Whole(file, r) => b.packets[k] = Payload(file, r))

\* No batch ever holds a packet made of the wrong words: not words left over from
\* an earlier read of local_buffer_, not the words a wrong seek would read, and not
\* a packet cut by a header copied from beyond the end of the buffer.
PacketsFaithful ==
  /\ producer \in {"pack", "push"} => Faithful(buffered_packets)
  /\ \A i \in DOMAIN pcap_data_chunks_ : Faithful(pcap_data_chunks_[i])

\* The number the batch after the last one queued starts at.
NextStart ==
  IF producer \in {"pack", "push"} THEN buffered_packets.start_packet_number ELSE packet_nr

AfterBatch(b) == b.start_packet_number + b.number_packets

\* The batches handed out, the queue and the batch being filled follow one another
\* without a gap or an overlap: a packet is in exactly one batch, at its place.
BatchesContiguous ==
  LET q == pcap_data_chunks_ IN
  /\ producer \in {"pack", "push"} => AfterBatch(buffered_packets) = packet_nr
  /\ \A i \in DOMAIN q :
       /\ q[i].start_packet_number = IF i = 1 THEN handed + 1 ELSE AfterBatch(q[i - 1])
       /\ i = Len(q) => AfterBatch(q[i]) = NextStart
  /\ q = <<>> => handed + 1 = NextStart

\* When every record is shorter than a batch, every pass of the outer loop packs at
\* least one packet, so the producer cannot queue empty batches for ever.
BatchesNotEmpty ==
  RecordsFit(file) /\ HeadersPresent(file) =>
    \A i \in DOMAIN pcap_data_chunks_ : pcap_data_chunks_[i].number_packets > 0
=============================================================================
