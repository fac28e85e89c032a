---------------------------- MODULE PCAPProcessor ----------------------------
(***************************************************************************)
(* class PCAPProcessor: the main thread checks the capture, starts the     *)
(* consumer and the producer, joins both and destroys the object; the      *)
(* consumer thread waits for the producer to start, then alternates        *)
(* between draining the queue and sleeping.                                *)
(***************************************************************************)
EXTENDS PCAPBuffer

VARIABLES
  main,                 \* program counter of the main thread
  consumer,             \* program counter of the consumer thread
  next_batch,           \* process_batch: the batch taken from the queue
  packet_nr_in_batch,   \* process_batch: packets of it processed
  batch_total,          \* process_batch: its local total_number_packets
  total_number_packets, \* consumer thread: packets reported at the end
  processed             \* history: the packets given to process_packet

consumerVars ==
  <<consumer, next_batch, packet_nr_in_batch, batch_total, total_number_packets, processed>>

vars == <<bufferVars, main, consumerVars>>

ProcInit ==
  /\ Init
  /\ main = "open"
  /\ consumer = "none"
  /\ next_batch = EmptyBatch(0)
  /\ packet_nr_in_batch = 0
  /\ batch_total = 0
  /\ total_number_packets = 0
  /\ processed = <<>>

\* A thread takes a step only while the process has not ended.
MainAt(pc)     == process = "running" /\ main = pc
ConsumerAt(pc) == process = "running" /\ consumer = pc

-----------------------------------------------------------------------------
(***************************************************************************)
(* The constructor, run by the main thread.                                *)
(***************************************************************************)
Readable == file.openable /\ file.size >= HEADER_SIZE

\* The file cannot be opened, is empty or is shorter than its global header: the
\* exception leaves main().
RejectFile ==
  /\ MainAt("open")
  /\ ~Readable
  /\ process' = "terminated"
  /\ UNCHANGED <<fileVars, packingVars, flagVars, queueVars, producer, main, consumerVars>>

\* process_header() calls exit(1).
WrongMagic ==
  /\ MainAt("open")
  /\ Readable
  /\ ~file.magic
  /\ process' = "exited"
  /\ UNCHANGED <<fileVars, packingVars, flagVars, queueVars, producer, main, consumerVars>>

AcceptFile ==
  /\ MainAt("open")
  /\ Readable
  /\ file.magic
  /\ main' = "spawn"
  /\ UNCHANGED <<bufferVars, consumerVars>>

SpawnConsumer ==
  /\ MainAt("spawn")
  /\ consumer' = "wait"
  /\ main' = "start"
  /\ UNCHANGED <<bufferVars, next_batch, packet_nr_in_batch, batch_total,
                 total_number_packets, processed>>

CallStartBuffering ==
  /\ MainAt("start")
  /\ StartBuffering
  /\ main' = "join producer"
  /\ UNCHANGED consumerVars

JoinProducer ==
  /\ MainAt("join producer")
  /\ producer = "done"
  /\ main' = "join consumer"
  /\ UNCHANGED <<bufferVars, consumerVars>>

\* Mutant: the consumer is not joined.
NoJoinConsumer ==
  /\ MainAt("join consumer")
  /\ main' = "destroy"
  /\ UNCHANGED <<bufferVars, consumerVars>>

JoinConsumer ==
  /\ MainAt("join consumer")
  /\ consumer = "done"
  /\ main' = "destroy"
  /\ UNCHANGED <<bufferVars, consumerVars>>

Destroy ==
  /\ MainAt("destroy")
  /\ Stop
  /\ main' = "done"
  /\ UNCHANGED consumerVars

MainStep ==
  \/ RejectFile \/ WrongMagic \/ AcceptFile \/ SpawnConsumer \/ CallStartBuffering
  \/ JoinProducer \/ JoinConsumer \/ Destroy

-----------------------------------------------------------------------------
(***************************************************************************)
(* The consumer thread.                                                    *)
(***************************************************************************)
\* wait_started(): the flag is compared with false each time the thread runs.
ConsumerWaits ==
  /\ ConsumerAt("wait")
  /\ WaitBlocks
  /\ UNCHANGED <<main, consumerVars>>

ConsumerReleased ==
  /\ ConsumerAt("wait")
  /\ ~waiting
  /\ is_started_
  /\ consumer' = "loop"
  /\ UNCHANGED <<bufferVars, main, next_batch, packet_nr_in_batch, batch_total,
                 total_number_packets, processed>>

\* while (is_started()): process_batch is entered with a fresh local total.
EnterBatch ==
  /\ ConsumerAt("loop")
  /\ is_started_
  /\ consumer' = "batch"
  /\ batch_total' = 0
  /\ UNCHANGED <<bufferVars, main, next_batch, packet_nr_in_batch, total_number_packets,
                 processed>>

\* Mutant: the flag is not looked at again.
NeverLeavesConsumerLoop ==
  /\ ConsumerAt("loop")
  /\ ~is_started_
  /\ consumer' = "batch"
  /\ UNCHANGED <<bufferVars, main, next_batch, packet_nr_in_batch, batch_total,
                 total_number_packets, processed>>

LeaveConsumerLoop ==
  /\ ConsumerAt("loop")
  /\ ~is_started_
  /\ consumer' = "done"
  /\ UNCHANGED <<bufferVars, main, next_batch, packet_nr_in_batch, batch_total,
                 total_number_packets, processed>>

\* Mutant: packet_nr_in_batch is not reset for the next batch.
TakeBatchNoReset ==
  /\ ConsumerAt("batch")
  /\ NextBatch
  /\ next_batch' = Head(pcap_data_chunks_)
  /\ consumer' = "packets"
  /\ UNCHANGED <<main, packet_nr_in_batch, batch_total, total_number_packets, processed>>

TakeBatch ==
  /\ ConsumerAt("batch")
  /\ NextBatch
  /\ next_batch' = Head(pcap_data_chunks_)
  /\ packet_nr_in_batch' = 0
  /\ consumer' = "packets"
  /\ UNCHANGED <<main, batch_total, total_number_packets, processed>>

\* Mutant: the total of the whole run is overwritten by that of the last call.
QueueEmptyOverwrites ==
  /\ ConsumerAt("batch")
  /\ pcap_data_chunks_ = <<>>
  /\ total_number_packets' = batch_total
  /\ consumer' = "sleep"
  /\ UNCHANGED <<bufferVars, main, next_batch, packet_nr_in_batch, batch_total, processed>>

\* next_batch() returned nothing: process_batch returns and the thread sleeps.
QueueEmpty ==
  /\ ConsumerAt("batch")
  /\ pcap_data_chunks_ = <<>>
  /\ total_number_packets' = total_number_packets + batch_total
  /\ consumer' = "sleep"
  /\ UNCHANGED <<bufferVars, main, next_batch, packet_nr_in_batch, batch_total, processed>>

\* Mutant: the last packet of a batch is left out.
PacketsLeftButLast == packet_nr_in_batch + 1 < Len(next_batch.packets)

PacketsLeft == packet_nr_in_batch < Len(next_batch.packets)

RecordInHand == next_batch.start_packet_number + packet_nr_in_batch

ProcessPacket ==
  /\ ConsumerAt("packets")
  /\ PacketsLeft
  /\ RecordInHand \notin file.poison
  /\ processed' = Append(processed, next_batch.packets[packet_nr_in_batch + 1])
  /\ packet_nr_in_batch' = packet_nr_in_batch + 1
  /\ UNCHANGED <<bufferVars, main, consumer, next_batch, batch_total, total_number_packets>>

\* Processing throws: the exception leaves the consumer thread.
PacketThrows ==
  /\ ConsumerAt("packets")
  /\ PacketsLeft
  /\ RecordInHand \in file.poison
  /\ process' = "terminated"
  /\ UNCHANGED <<fileVars, packingVars, flagVars, queueVars, producer, main, consumerVars>>

\* Mutant: process_batch takes one batch per call.
BatchDoneSleeps ==
  /\ ConsumerAt("packets")
  /\ ~PacketsLeft
  /\ batch_total' = batch_total + next_batch.number_packets
  /\ consumer' = "sleep"
  /\ UNCHANGED <<bufferVars, main, next_batch, packet_nr_in_batch, total_number_packets,
                 processed>>

BatchDone ==
  /\ ConsumerAt("packets")
  /\ ~PacketsLeft
  /\ batch_total' = batch_total + next_batch.number_packets
  /\ consumer' = "batch"
  /\ UNCHANGED <<bufferVars, main, next_batch, packet_nr_in_batch, total_number_packets,
                 processed>>

Wakes ==
  /\ ConsumerAt("sleep")
  /\ consumer' = "loop"
  /\ UNCHANGED <<bufferVars, main, next_batch, packet_nr_in_batch, batch_total,
                 total_number_packets, processed>>

ConsumerStep ==
  \/ ConsumerWaits \/ ConsumerReleased \/ EnterBatch \/ LeaveConsumerLoop \/ TakeBatch
  \/ QueueEmpty \/ ProcessPacket \/ PacketThrows \/ BatchDone \/ Wakes

-----------------------------------------------------------------------------
ProducerRuns == ProducerStep /\ UNCHANGED <<main, consumerVars>>

ProducerThrows == ReadFails /\ UNCHANGED <<main, consumerVars>>

SpuriousWakeUp == SpuriousWake /\ UNCHANGED <<main, consumerVars>>

\* The program has ended: nothing more happens.
Ended == process # "running" \/ main = "done"

ProcNext ==
  \/ MainStep
  \/ ConsumerStep
  \/ ProducerRuns
  \/ ProducerThrows
  \/ SpuriousWakeUp
  \/ Ended /\ UNCHANGED vars

ProcSpec == ProcInit /\ [][ProcNext]_vars

\* The operating system lets a thread that can run, run.
Fairness ==
  /\ WF_vars(MainStep)
  /\ WF_vars(ConsumerStep)
  /\ WF_vars(ProducerRuns)

FairSpec == ProcSpec /\ Fairness
-----------------------------------------------------------------------------
(***************************************************************************)
(* Safety.                                                                 *)
(***************************************************************************)
\* The type of every variable.
ProcTypeOK ==
  /\ TypeOK
  /\ main \in {"open", "spawn", "start", "join producer", "join consumer", "destroy", "done"}
  /\ consumer \in {"none", "wait", "loop", "batch", "packets", "sleep", "done"}
  /\ next_batch \in Batches
  /\ packet_nr_in_batch \in 0 .. Len(next_batch.packets)
  /\ batch_total \in Nat
  /\ total_number_packets \in Nat
  /\ processed \in Seq(Seq(Nat \cup {ZERO}))

\* What the packets processed so far are, seen from the queue: everything handed out,
\* but for the rest of the batch in hand.  No batch is processed twice, or popped and
\* dropped.
ProcessedIsHanded ==
  IF consumer = "packets"
  THEN /\ Len(processed) = RecordInHand - 1
       /\ AfterBatch(next_batch) = handed + 1
  ELSE Len(processed) = handed

Queued ==
  LET q == pcap_data_chunks_ IN
  IF q = <<>> THEN 0 ELSE AfterBatch(q[Len(q)]) - q[1].start_packet_number

\* When the program ends by itself, what was not processed is exactly what is still
\* in the queue: packets are lost at the end of the capture and nowhere else.
OnlyTheQueueIsLost ==
  main = "done" => Len(processed) + Queued = NumRecords(file)

\* The number of packets reported at the end is the number that was processed.
ReportedTotalIsProcessed ==
  consumer = "done" => total_number_packets = Len(processed)

\* The flag is cleared and the capture closed by the destructor only when no thread
\* can use them any more: neither the read of the producer nor the loop of the
\* consumer can be cut off by stop().
StopsAfterThreads == ~file_open => producer = "done" /\ consumer = "done"

\* The program delivers the packets as PacketDelivery promises, and neither thread
\* can end the process once the consumer has finished.
Delivery == INSTANCE PacketDelivery WITH
  delivered <- processed,
  outcome   <- IF process # "running" THEN process
               ELSE IF consumer = "done" THEN "finished" ELSE "running"

DeliveredInOrder == Delivery!Spec

(***************************************************************************)
(* Liveness, under FairSpec.                                               *)
(***************************************************************************)
Parsable == RecordsFit(file) /\ HeadersPresent(file)

\* The producer comes to the end of every capture whose records fit in a batch.
ProducerFinishes ==
  main = "join producer" /\ Parsable ~> process # "running" \/ main = "join consumer"

\* A consumer that was released ends, and with it the program, although it polls a
\* flag that the producer clears while the consumer sleeps or decodes.
ReleasedConsumerEnds == consumer = "loop" /\ Parsable ~> Ended

AllRecords == UNION {Records(f) : f \in Files}

\* A call of process_batch drains the queue: what is queued before it returns is
\* processed, even if the producer finishes meanwhile.
QueuedIsProcessed ==
  \A r \in AllRecords :
    consumer \in {"batch", "packets"} /\ r <= handed + Queued
      ~> process # "running" \/ Len(processed) >= r

(***************************************************************************)
(* Statements of the documentation that the code does not meet.            *)
(***************************************************************************)
\* README.md: the producer's packets "are sent to a consumer thread that process and
\* decodes each single packet".
EachPacketProcessed ==
  main = "done" => Len(processed) = NumRecords(file)

\* README.md: the threads "are synchronized on a atomic variable": the consumer gets
\* past wait_started() once the producer has started.
ConsumerStarts ==
  producer = "start" ~> process # "running" \/ consumer \notin {"none", "wait"}
=============================================================================
