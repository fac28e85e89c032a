------------------------- MODULE PCAPProcessorProofs -------------------------
(***************************************************************************)
(* Proofs of the safety properties of PCAPProcessor, for every size of the *)
(* batch, every capture and every interleaving of the three threads.       *)
(***************************************************************************)
EXTENDS PCAPProcessor, PCAPBufferProofs

USE DEF MainAt, ConsumerAt, ProducerAt

(***************************************************************************)
(* The inductive invariant.  PCAPBuffer's own invariant carries over; what *)
(* is added relates the program counters of the three threads to each      *)
(* other, to the flag and to the file, and says where in the capture the   *)
(* consumer is.                                                            *)
(***************************************************************************)
ProducerBusy == producer \in {"notify", "loop", "read", "pack", "push", "exit"}

ConsumerReleasedOnce == consumer \in {"loop", "batch", "packets", "sleep", "done"}

ThreadsJoined ==
  /\ consumer = "none" <=> main \in {"open", "spawn"}
  /\ producer = "none" <=> main \in {"open", "spawn", "start"}
  /\ main \in {"join consumer", "destroy", "done"} => producer = "done"
  /\ main \in {"destroy", "done"} => consumer = "done"
  /\ file_open = TRUE <=> main # "done"

\* The flag is up exactly while the producer is at work, and a consumer that was
\* released and finds it down finds the producer done.
FlagTellsProducer ==
  /\ is_started_ = TRUE <=> ProducerBusy
  /\ ConsumerReleasedOnce => producer \notin {"none", "start"}
  /\ consumer = "done" => producer = "done"

AllPacked == producer \in {"exit", "done"} => packet_nr = NumRecords(file) + 1

BatchInHand ==
  consumer = "packets" => Faithful(next_batch) /\ AfterBatch(next_batch) = handed + 1

PlaceInCapture ==
  /\ consumer = "packets" => Len(processed) = RecordInHand - 1
  /\ consumer # "packets" => Len(processed) = handed

Totals ==
  /\ consumer = "packets" =>
       total_number_packets + batch_total = next_batch.start_packet_number - 1
  /\ consumer = "batch" => total_number_packets + batch_total = handed
  /\ consumer \notin {"batch", "packets"} => total_number_packets = handed

ProcIInv ==
  /\ IInv
  /\ ProcTypeOK
  /\ ThreadsJoined
  /\ FlagTellsProducer
  /\ AllPacked
  /\ BatchInHand
  /\ PlaceInCapture
  /\ Totals

-----------------------------------------------------------------------------
(***************************************************************************)
(* The composition is a client of PCAPBuffer.                              *)
(***************************************************************************)
LEMMA StepOfBuffer ==
  ASSUME [ProcNext]_vars
  PROVE  [Next]_bufferVars
  <1> USE DEF bufferVars, fileVars, packingVars, flagVars, queueVars
  <1>1. CASE RejectFile
    BY <1>1 DEF RejectFile, Next, ProcessEnds
  <1>2. CASE WrongMagic
    BY <1>2 DEF WrongMagic, Next, ProcessEnds
  <1>3. CASE PacketThrows
    BY <1>3 DEF PacketThrows, Next, ProcessEnds
  <1>4. CASE AcceptFile \/ SpawnConsumer \/ JoinProducer \/ JoinConsumer
    BY <1>4 DEF AcceptFile, SpawnConsumer, JoinProducer, JoinConsumer
  <1>5. CASE CallStartBuffering \/ Destroy
    BY <1>5 DEF CallStartBuffering, Destroy, Next
  <1>6. CASE ConsumerWaits \/ TakeBatch
    BY <1>6 DEF ConsumerWaits, TakeBatch, Next
  <1>7. CASE \/ ConsumerReleased \/ EnterBatch \/ LeaveConsumerLoop \/ QueueEmpty
             \/ ProcessPacket \/ BatchDone \/ Wakes
    BY <1>7 DEF ConsumerReleased, EnterBatch, LeaveConsumerLoop, QueueEmpty, ProcessPacket,
       BatchDone, Wakes
  <1>8. CASE ProducerRuns \/ ProducerThrows \/ SpuriousWakeUp
    BY <1>8 DEF ProducerRuns, ProducerThrows, SpuriousWakeUp, Next
  <1>9. CASE UNCHANGED vars
    BY <1>9 DEF vars
  <1> QED
    BY <1>1, <1>2, <1>3, <1>4, <1>5, <1>6, <1>7, <1>8, <1>9
       DEF ProcNext, MainStep, ConsumerStep

\* Every behaviour of PCAPProcessor is one of PCAPBuffer: its theorems hold of the
\* program.
THEOREM ProcessorIsClient == ProcSpec => Spec
  <1>1. ProcInit => Init
    BY DEF ProcInit
  <1>2. [ProcNext]_vars => [Next]_bufferVars
    BY StepOfBuffer
  <1> QED
    BY <1>1, <1>2, PTL DEF ProcSpec, Spec

-----------------------------------------------------------------------------
(***************************************************************************)
(* The inductive invariant is preserved, part by part.                     *)
(***************************************************************************)
LEMMA ProducerMoves ==
  ASSUME ProducerStep, TypeOK
  PROVE  /\ \/ producer = "start" /\ producer' = "notify" /\ is_started_' = TRUE
            \/ producer = "exit" /\ producer' = "done" /\ is_started_' = FALSE
            \/ /\ producer \in {"notify", "loop", "read", "pack", "push"}
               /\ ProducerBusy'
               /\ is_started_' = is_started_
         /\ producer' = "exit" => producer = "loop" /\ ~MoreToRead /\ UNCHANGED packet_nr
         /\ producer = "exit" => UNCHANGED packet_nr
         /\ UNCHANGED <<file, file_open, handed, process>>
  <1> USE DEF fileVars, packingVars, flagVars, queueVars, ProducerBusy
  <1>1. CASE SetStarted \/ NotifyOne \/ ClearStarted
    BY <1>1 DEF SetStarted, NotifyOne, ClearStarted
  <1>2. CASE EnterLoop \/ LeaveLoop
    BY <1>2 DEF EnterLoop, LeaveLoop
  <1>3. CASE ReadChunk \/ PackPacket \/ DoesNotFit \/ ChunkConsumed
    BY <1>3 DEF ReadChunk, PackPacket, DoesNotFit, ChunkConsumed, Packing
  <1>4. CASE PushBatch
    BY <1>4 DEF PushBatch
  <1> QED
    BY <1>1, <1>2, <1>3, <1>4 DEF ProducerStep

LEMMA ThreadsStep ==
  ASSUME ProcIInv, [ProcNext]_vars
  PROVE  ThreadsJoined' /\ FlagTellsProducer'
  <1> USE DEF ProcIInv, ThreadsJoined, FlagTellsProducer, ProducerBusy, ConsumerReleasedOnce
  <1> USE DEF bufferVars, consumerVars, fileVars, flagVars
  <1>1. CASE RejectFile \/ WrongMagic \/ PacketThrows
    BY <1>1 DEF RejectFile, WrongMagic, PacketThrows
  <1>2. CASE AcceptFile \/ SpawnConsumer
    BY <1>2 DEF AcceptFile, SpawnConsumer
  <1>3. CASE CallStartBuffering
    BY <1>3 DEF CallStartBuffering, StartBuffering
  <1>4. CASE JoinProducer \/ JoinConsumer
    BY <1>4 DEF JoinProducer, JoinConsumer
  <1>5. CASE Destroy
    BY <1>5 DEF Destroy, Stop
  <1>6. CASE ConsumerWaits \/ ConsumerReleased
    BY <1>6 DEF ConsumerWaits, WaitBlocks, ConsumerReleased
  <1>7. CASE EnterBatch \/ LeaveConsumerLoop
    BY <1>7 DEF EnterBatch, LeaveConsumerLoop, IInv, TypeOK, ProducerPCs
  <1>8. CASE TakeBatch
    BY <1>8 DEF TakeBatch, NextBatch
  <1>9. CASE QueueEmpty \/ ProcessPacket \/ BatchDone \/ Wakes
    BY <1>9 DEF QueueEmpty, ProcessPacket, BatchDone, Wakes
  <1>10. CASE ProducerRuns
    BY <1>10, ProducerMoves DEF ProducerRuns, IInv
  <1>11. CASE ProducerThrows
    BY <1>11 DEF ProducerThrows, ReadFails
  <1>12. CASE SpuriousWakeUp
    BY <1>12 DEF SpuriousWakeUp, SpuriousWake
  <1>13. CASE UNCHANGED vars
    BY <1>13 DEF vars
  <1> QED
    BY <1>1, <1>2, <1>3, <1>4, <1>5, <1>6, <1>7, <1>8, <1>9, <1>10, <1>11, <1>12, <1>13
       DEF ProcNext, MainStep, ConsumerStep

\* The producer leaves its outer loop, while the flag is up, only at the end of the
\* capture.
LEMMA NothingLeft ==
  ASSUME IInv, is_started_ = TRUE, ~MoreToRead
  PROVE  packet_nr = NumRecords(file) + 1
  <1>1. TypeOK /\ AtRecord
    BY DEF IInv
  <1>2. IsFile(file) /\ current_offset_ \in Nat /\ packet_nr \in Nat
    BY <1>1 DEF TypeOK
  <1>3. NumRecords(file) \in Nat /\ file.size \in Nat
    BY <1>2, FileFacts
  <1>4. ~(current_offset_ < file.size)
    BY DEF MoreToRead
  <1>5. packet_nr \in 1 .. NumRecords(file) + 1
    BY <1>1 DEF AtRecord
  <1>6. ASSUME packet_nr \in Records(file)
        PROVE  FALSE
    <2>1. packet_nr <= NumRecords(file)
      BY <1>3, <1>6 DEF Records
    <2>2. current_offset_ = file.starts[packet_nr]
      BY <1>1, <2>1 DEF AtRecord
    <2>3. file.size > file.starts[packet_nr] /\ file.starts[packet_nr] \in Nat
      <3>1. file.size > file.starts[packet_nr]
        BY <1>2, <1>6, FileFacts
      <3>2. file.starts[packet_nr] \in Nat
        BY <1>2, <1>5, FileFacts
      <3> QED
        BY <3>1, <3>2
    <2> QED
      BY <1>2, <1>3, <1>4, <2>2, <2>3
  <1>7. ASSUME packet_nr # NumRecords(file) + 1
        PROVE  packet_nr \in 1 .. NumRecords(file)
    BY <1>3, <1>5, <1>7
  <1> QED
    BY <1>6, <1>7 DEF Records

LEMMA AllPackedStep ==
  ASSUME ProcIInv, [ProcNext]_vars
  PROVE  AllPacked'
  <1> USE DEF AllPacked, bufferVars, packingVars, fileVars
  <1>0. IInv /\ TypeOK /\ ThreadsJoined /\ FlagTellsProducer /\ AllPacked
    BY DEF ProcIInv, IInv
  <1>1. CASE ProducerRuns
    <2>1. producer = "loop" /\ ~MoreToRead => packet_nr = NumRecords(file) + 1
      BY <1>0, NothingLeft DEF FlagTellsProducer, ProducerBusy
    <2>2. ProducerStep
      BY <1>1 DEF ProducerRuns
    <2>3. /\ producer' = "exit" => producer = "loop" /\ ~MoreToRead /\ packet_nr' = packet_nr
          /\ producer' = "done" => producer = "exit" /\ packet_nr' = packet_nr
          /\ file' = file
      BY <1>0, <2>2, ProducerMoves DEF ProducerBusy
    <2> QED
      BY <1>0, <2>1, <2>3 DEF NumRecords
  <1>2. CASE \/ RejectFile \/ WrongMagic \/ PacketThrows \/ AcceptFile \/ SpawnConsumer
             \/ JoinProducer \/ JoinConsumer
    BY <1>0, <1>2 DEF RejectFile, WrongMagic, PacketThrows, AcceptFile, SpawnConsumer,
       JoinProducer, JoinConsumer
  <1>3. CASE CallStartBuffering \/ Destroy
    BY <1>0, <1>3 DEF CallStartBuffering, StartBuffering, ThreadsJoined, Destroy, Stop
  <1>4. CASE ConsumerWaits \/ ConsumerReleased \/ TakeBatch
    BY <1>0, <1>4 DEF ConsumerWaits, WaitBlocks, ConsumerReleased, TakeBatch, NextBatch
  <1>5. CASE \/ EnterBatch \/ LeaveConsumerLoop \/ QueueEmpty \/ ProcessPacket \/ BatchDone
             \/ Wakes
    BY <1>0, <1>5 DEF EnterBatch, LeaveConsumerLoop, QueueEmpty, ProcessPacket, BatchDone, Wakes
  <1>6. CASE ProducerThrows \/ SpuriousWakeUp
    BY <1>0, <1>6 DEF ProducerThrows, ReadFails, SpuriousWakeUp, SpuriousWake
  <1>7. CASE UNCHANGED vars
    BY <1>0, <1>7 DEF vars
  <1> QED
    BY <1>1, <1>2, <1>3, <1>4, <1>5, <1>6, <1>7 DEF ProcNext, MainStep, ConsumerStep

\* The invariants about the consumer are not disturbed by a step that leaves its state,
\* what was handed to it and the capture alone.
ConsumerInv == ProcTypeOK /\ BatchInHand /\ PlaceInCapture /\ Totals

LEMMA OtherThreadStep ==
  ASSUME ProcIInv, TypeOK', UNCHANGED <<consumerVars, handed, file>>,
         main' \in {"open", "spawn", "start", "join producer", "join consumer",
                    "destroy", "done"}
  PROVE  ConsumerInv'
  <1> USE DEF ProcIInv, ConsumerInv, consumerVars
  <1>1. ProcTypeOK'
    BY DEF ProcTypeOK
  <1>2. BatchInHand' /\ PlaceInCapture' /\ Totals'
    BY DEF BatchInHand, PlaceInCapture, Totals, Faithful, AfterBatch, RecordInHand
  <1> QED
    BY <1>1, <1>2

LEMMA TakeBatchStep ==
  ASSUME ProcIInv, TypeOK', TakeBatch
  PROVE  ConsumerInv'
  <1> DEFINE q == pcap_data_chunks_
  <1>1. /\ consumer = "batch" /\ consumer' = "packets"
        /\ q # <<>> /\ next_batch' = q[1] /\ packet_nr_in_batch' = 0
        /\ handed' = handed + q[1].number_packets
        /\ file' = file
        /\ UNCHANGED <<main, batch_total, total_number_packets, processed>>
    BY DEF TakeBatch, NextBatch, fileVars
  <1>2. q \in Seq(Batches) /\ handed \in Nat
    BY DEF ProcIInv, IInv, TypeOK
  <1>3. 1 \in DOMAIN q /\ q[1] \in Batches
    BY <1>1, <1>2
  <1>4. /\ q[1].start_packet_number \in Nat /\ q[1].number_packets \in Nat
        /\ q[1].packets \in Seq(Seq(Nat \cup {ZERO}))
    BY <1>3 DEF Batches
  <1>5. Faithful(q[1]) /\ q[1].start_packet_number = handed + 1
    BY <1>3 DEF ProcIInv, IInv, PacketsFaithful, BatchesContiguous
  <1>6. ProcTypeOK'
    <2>1. packet_nr_in_batch' \in 0 .. Len(next_batch'.packets)
      BY <1>1, <1>4
    <2> QED
      BY <1>1, <1>3, <2>1 DEF ProcIInv, ProcTypeOK
  <1>7. BatchInHand'
    <2>1. q[1].start_packet_number + q[1].number_packets = handed' + 1
      <3>1. handed' = handed + q[1].number_packets
        BY <1>1
      <3>2. /\ handed \in Nat /\ q[1].number_packets \in Nat
            /\ q[1].start_packet_number = handed + 1
        BY <1>2, <1>4, <1>5
      <3> HIDE DEF q
      <3> QED
        BY <3>1, <3>2
    <2> QED
      BY <1>1, <1>5, <2>1 DEF BatchInHand, Faithful, AfterBatch
  <1>8. PlaceInCapture'
    <2>1. Len(processed) = handed
      BY <1>1 DEF ProcIInv, PlaceInCapture
    <2> QED
      BY <1>1, <1>2, <1>5, <2>1 DEF PlaceInCapture, RecordInHand
  <1>9. Totals'
    <2>1. total_number_packets + batch_total = handed
      BY <1>1 DEF ProcIInv, Totals
    <2> QED
      BY <1>1, <1>2, <1>5, <2>1 DEF Totals
  <1> QED
    BY <1>6, <1>7, <1>8, <1>9 DEF ConsumerInv

LEMMA ProcessPacketStep ==
  ASSUME ProcIInv, TypeOK', ProcessPacket
  PROVE  ConsumerInv'
  <1> DEFINE p == next_batch.packets[packet_nr_in_batch + 1]
  <1>0. ProcTypeOK /\ TypeOK /\ BatchInHand /\ PlaceInCapture /\ Totals
    BY DEF ProcIInv, IInv
  <1>1. /\ consumer = "packets" /\ consumer' = "packets"
        /\ packet_nr_in_batch < Len(next_batch.packets)
        /\ processed' = Append(processed, p)
        /\ packet_nr_in_batch' = packet_nr_in_batch + 1
        /\ UNCHANGED <<file, handed, main, next_batch, batch_total, total_number_packets>>
    BY DEF ProcessPacket, PacketsLeft, bufferVars
  <1>2. /\ next_batch \in Batches
        /\ processed \in Seq(Seq(Nat \cup {ZERO}))
        /\ packet_nr_in_batch \in 0 .. Len(next_batch.packets)
    BY <1>0 DEF ProcTypeOK
  <1>3. /\ next_batch.packets \in Seq(Seq(Nat \cup {ZERO}))
        /\ next_batch.start_packet_number \in Nat
    BY <1>2 DEF Batches
  <1>4. Len(next_batch.packets) \in Nat
    BY <1>3
  <1>5. packet_nr_in_batch + 1 \in 1 .. Len(next_batch.packets)
    BY <1>1, <1>2, <1>4
  <1>6. /\ processed' \in Seq(Seq(Nat \cup {ZERO}))
        /\ Len(processed') = Len(processed) + 1
        /\ Len(processed) \in Nat
    <2>1. p \in Seq(Nat \cup {ZERO})
      BY <1>3, <1>5
    <2> QED
      BY <1>0, <1>1, <1>2, <2>1
  <1>7. ProcTypeOK'
    <2>1. packet_nr_in_batch' \in 0 .. Len(next_batch'.packets)
      <3>1. packet_nr_in_batch' \in 0 .. Len(next_batch.packets)
        BY <1>1, <1>4, <1>5
      <3> QED
        BY <1>1, <3>1
    <2> QED
      BY <1>0, <1>1, <1>6, <2>1, Zenon DEF ProcTypeOK
  <1>8. BatchInHand' /\ Totals'
    BY <1>0, <1>1 DEF BatchInHand, Totals, Faithful, AfterBatch
  <1>9. PlaceInCapture'
    <2>1. Len(processed) = (next_batch.start_packet_number + packet_nr_in_batch) - 1
      BY <1>0, <1>1 DEF PlaceInCapture, RecordInHand
    <2>2. Len(processed') = (next_batch.start_packet_number + (packet_nr_in_batch + 1)) - 1
      <3>1. packet_nr_in_batch \in Nat
        BY <1>2, <1>4
      <3> QED
        BY <1>3, <1>6, <2>1, <3>1
    <2>3. RecordInHand' = next_batch.start_packet_number + (packet_nr_in_batch + 1)
      BY <1>1 DEF RecordInHand
    <2>4. consumer' = "packets" /\ Len(processed') = RecordInHand' - 1
      BY <1>1, <2>2, <2>3
    <2> QED
      BY <2>4 DEF PlaceInCapture
  <1> QED
    BY <1>7, <1>8, <1>9 DEF ConsumerInv

LEMMA BatchDoneStep ==
  ASSUME ProcIInv, TypeOK', BatchDone
  PROVE  ConsumerInv'
  <1>0. ProcTypeOK /\ TypeOK /\ BatchInHand /\ PlaceInCapture /\ Totals
    BY DEF ProcIInv, IInv
  <1>1. /\ consumer = "packets" /\ consumer' = "batch"
        /\ ~(packet_nr_in_batch < Len(next_batch.packets))
        /\ batch_total' = batch_total + next_batch.number_packets
        /\ UNCHANGED <<file, handed, main, next_batch, packet_nr_in_batch,
                       total_number_packets, processed>>
    BY DEF BatchDone, PacketsLeft, bufferVars
  <1>2. /\ next_batch \in Batches
        /\ packet_nr_in_batch \in 0 .. Len(next_batch.packets)
        /\ batch_total \in Nat /\ total_number_packets \in Nat
        /\ handed \in Nat
    BY <1>0 DEF ProcTypeOK, TypeOK
  <1>3. /\ next_batch.packets \in Seq(Seq(Nat \cup {ZERO}))
        /\ next_batch.start_packet_number \in Nat
        /\ next_batch.number_packets \in Nat
    BY <1>2 DEF Batches
  <1>4. /\ Len(next_batch.packets) = next_batch.number_packets
        /\ next_batch.start_packet_number + next_batch.number_packets = handed + 1
    BY <1>0, <1>1 DEF BatchInHand, Faithful, AfterBatch
  <1>5. packet_nr_in_batch = next_batch.number_packets
    BY <1>0, <1>1, <1>2, <1>3, <1>4
  <1>6. ProcTypeOK'
    <2>1. packet_nr_in_batch' \in 0 .. Len(next_batch'.packets)
      BY <1>1, <1>2
    <2>2. batch_total' \in Nat /\ total_number_packets' \in Nat
      BY <1>1, <1>2, <1>3
    <2> QED
      BY <1>0, <1>1, <2>1, <2>2, Zenon DEF ProcTypeOK
  <1>7. PlaceInCapture'
    <2>1. Len(processed) = (next_batch.start_packet_number + packet_nr_in_batch) - 1
      BY <1>0, <1>1 DEF PlaceInCapture, RecordInHand
    <2> QED
      BY <1>1, <1>2, <1>3, <1>4, <1>5, <2>1 DEF PlaceInCapture
  <1>8. Totals'
    <2>1. total_number_packets + batch_total = next_batch.start_packet_number - 1
      BY <1>0, <1>1 DEF Totals
    <2> QED
      BY <1>1, <1>2, <1>3, <1>4, <2>1 DEF Totals
  <1> QED
    BY <1>1, <1>6, <1>7, <1>8 DEF ConsumerInv, BatchInHand

\* The steps of the consumer that move no packet.
LEMMA ConsumerControlStep ==
  ASSUME ProcIInv, TypeOK',
         \/ ConsumerReleased \/ EnterBatch \/ LeaveConsumerLoop \/ QueueEmpty \/ Wakes
  PROVE  ConsumerInv'
  <1>1. /\ consumer' \in {"loop", "batch", "sleep", "done"}
        /\ UNCHANGED <<file, handed, main, next_batch, packet_nr_in_batch, processed>>
        /\ consumer # "packets"
    BY DEF ConsumerReleased, EnterBatch, LeaveConsumerLoop, QueueEmpty, Wakes, bufferVars
  <1>2. /\ batch_total \in Nat /\ total_number_packets \in Nat /\ handed \in Nat
    BY DEF ProcIInv, ProcTypeOK, TypeOK
  <1>3. /\ batch_total' \in Nat /\ total_number_packets' \in Nat
        /\ Totals'
    <2>1. CASE ConsumerReleased \/ LeaveConsumerLoop \/ Wakes
      BY <1>2, <2>1 DEF ConsumerReleased, LeaveConsumerLoop, Wakes, ProcIInv, Totals, bufferVars
    <2>2. CASE EnterBatch
      BY <1>2, <2>2 DEF EnterBatch, ProcIInv, Totals, bufferVars
    <2>3. CASE QueueEmpty
      BY <1>2, <2>3 DEF QueueEmpty, ProcIInv, Totals, bufferVars
    <2> QED
      BY <2>1, <2>2, <2>3
  <1>4. ProcTypeOK'
    BY <1>1, <1>3 DEF ProcIInv, ProcTypeOK
  <1>5. BatchInHand' /\ PlaceInCapture'
    BY <1>1 DEF ProcIInv, BatchInHand, PlaceInCapture
  <1> QED
    BY <1>3, <1>4, <1>5 DEF ConsumerInv

LEMMA ProcNextIInv ==
  ASSUME ProcIInv, [ProcNext]_vars
  PROVE  ProcIInv'
  <1>1. IInv'
    BY StepOfBuffer, NextIInv DEF ProcIInv
  <1>2. TypeOK'
    BY <1>1 DEF IInv
  <1>3. ConsumerInv'
    <2> USE <1>2 DEF bufferVars, fileVars, queueVars
    <2>0. main \in {"open", "spawn", "start", "join producer", "join consumer",
                    "destroy", "done"}
      BY DEF ProcIInv, ProcTypeOK
    <2>1. CASE RejectFile \/ WrongMagic \/ PacketThrows
      BY <2>0, <2>1, OtherThreadStep DEF RejectFile, WrongMagic, PacketThrows
    <2>2. CASE AcceptFile \/ JoinProducer \/ JoinConsumer
      BY <2>2, OtherThreadStep DEF AcceptFile, JoinProducer, JoinConsumer
    <2>3. CASE SpawnConsumer
      <3>1. /\ main' = "start" /\ consumer = "none" /\ consumer' = "wait"
            /\ UNCHANGED <<file, handed, next_batch, packet_nr_in_batch, batch_total,
                           total_number_packets, processed>>
        BY <2>3 DEF SpawnConsumer, ProcIInv, ThreadsJoined
      <3> QED
        BY <3>1 DEF ConsumerInv, ProcIInv, ProcTypeOK, BatchInHand, PlaceInCapture, Totals
    <2>4. CASE CallStartBuffering \/ Destroy
      BY <2>4, OtherThreadStep DEF CallStartBuffering, StartBuffering, Destroy, Stop
    <2>5. CASE ConsumerWaits
      BY <2>0, <2>5, OtherThreadStep DEF ConsumerWaits, WaitBlocks
    <2>6. CASE ConsumerReleased \/ EnterBatch \/ LeaveConsumerLoop \/ QueueEmpty \/ Wakes
      BY <2>6, ConsumerControlStep
    <2>7. CASE TakeBatch
      BY <2>7, TakeBatchStep
    <2>8. CASE ProcessPacket
      BY <2>8, ProcessPacketStep
    <2>9. CASE BatchDone
      BY <2>9, BatchDoneStep
    <2>10. CASE ProducerRuns
      BY <2>0, <2>10, ProducerMoves, OtherThreadStep DEF ProducerRuns, ProcIInv, IInv
    <2>11. CASE ProducerThrows \/ SpuriousWakeUp
      BY <2>0, <2>11, OtherThreadStep
         DEF ProducerThrows, ReadFails, SpuriousWakeUp, SpuriousWake
    <2>12. CASE UNCHANGED vars
      BY <2>0, <2>12, OtherThreadStep DEF vars
    <2> QED
      BY <2>1, <2>2, <2>3, <2>4, <2>5, <2>6, <2>7, <2>8, <2>9, <2>10, <2>11, <2>12
         DEF ProcNext, MainStep, ConsumerStep
  <1> QED
    BY <1>1, <1>3, ThreadsStep, AllPackedStep DEF ProcIInv, ConsumerInv

LEMMA ProcInitIInv ==
  ASSUME ProcInit
  PROVE  ProcIInv
  <1>1. IInv /\ TypeOK
    BY InitIInv DEF ProcInit, IInv
  <1>2. /\ main = "open" /\ consumer = "none" /\ next_batch = EmptyBatch(0)
        /\ packet_nr_in_batch = 0 /\ batch_total = 0 /\ total_number_packets = 0
        /\ processed = <<>>
    BY DEF ProcInit
  <1>3. /\ producer = "none" /\ file_open = TRUE /\ is_started_ = FALSE /\ handed = 0
    BY DEF ProcInit, Init
  <1>4. ProcTypeOK
    <2>1. next_batch \in Batches
      BY <1>2 DEF EmptyBatch, Batches
    <2>2. packet_nr_in_batch \in 0 .. Len(next_batch.packets)
      BY <1>2 DEF EmptyBatch
    <2>3. batch_total \in Nat /\ total_number_packets \in Nat
      BY <1>2
    <2>4. processed \in Seq(Seq(Nat \cup {ZERO}))
      BY <1>2
    <2> QED
      BY <1>1, <1>2, <2>1, <2>2, <2>3, <2>4, Zenon DEF ProcTypeOK
  <1>5. ThreadsJoined /\ FlagTellsProducer /\ AllPacked
    BY <1>2, <1>3 DEF ThreadsJoined, FlagTellsProducer, ProducerBusy, ConsumerReleasedOnce,
       AllPacked
  <1>6. BatchInHand /\ PlaceInCapture /\ Totals
    BY <1>2, <1>3 DEF BatchInHand, PlaceInCapture, Totals
  <1> QED
    BY <1>1, <1>4, <1>5, <1>6 DEF ProcIInv

-----------------------------------------------------------------------------
(***************************************************************************)
(* The theorems.                                                           *)
(***************************************************************************)
\* The inductive invariant holds of the program.
THEOREM ProcInvariance == ProcSpec => []ProcIInv
  <1>1. ProcInit => ProcIInv
    BY ProcInitIInv
  <1>2. ProcIInv /\ [ProcNext]_vars => ProcIInv'
    BY ProcNextIInv
  <1> QED
    BY <1>1, <1>2, PTL DEF ProcSpec

\* Every variable of the program keeps its type; in particular process_batch indexes
\* no batch beyond its last packet.
THEOREM ProcTypeCorrectness == ProcSpec => []ProcTypeOK
  <1>1. ProcIInv => ProcTypeOK
    BY DEF ProcIInv
  <1> QED
    BY <1>1, ProcInvariance, PTL

\* The consumer loop processes every batch that next_batch() returns, all of it and
\* once.
THEOREM HandedIsProcessed == ProcSpec => []ProcessedIsHanded
  <1>1. ProcIInv => ProcessedIsHanded
    BY DEF ProcIInv, BatchInHand, PlaceInCapture, ProcessedIsHanded
  <1> QED
    BY <1>1, ProcInvariance, PTL

\* The packets that the program leaves unprocessed when it ends by itself are those of
\* the batches the consumer left in the queue, and no others.
THEOREM LossIsTheQueue == ProcSpec => []OnlyTheQueueIsLost
  <1>1. ASSUME ProcIInv, main = "done"
        PROVE  Len(processed) + Queued = NumRecords(file)
    <2> DEFINE q == pcap_data_chunks_
               total == AfterBatch(q[Len(q)])
    <2>1. producer = "done" /\ consumer = "done"
      BY <1>1 DEF ProcIInv, ThreadsJoined
    <2>2. packet_nr = NumRecords(file) + 1 /\ Len(processed) = handed
      BY <1>1, <2>1 DEF ProcIInv, AllPacked, PlaceInCapture
    <2>3. TypeOK /\ BatchesContiguous
      BY <1>1 DEF ProcIInv, IInv
    <2>4. handed \in Nat /\ NumRecords(file) \in Nat /\ q \in Seq(Batches)
      BY <2>3, FileFacts DEF TypeOK
    <2>5. NextStart = NumRecords(file) + 1
      BY <2>1, <2>2 DEF NextStart
    <2>6. CASE q = <<>>
      <3>1. handed + 1 = NumRecords(file) + 1
        BY <2>3, <2>5, <2>6 DEF BatchesContiguous
      <3>2. Queued = 0
        BY <2>6 DEF Queued
      <3> QED
        BY <2>2, <2>4, <3>1, <3>2
    <2>7. CASE q # <<>>
      <3>1. 1 \in DOMAIN q /\ Len(q) \in DOMAIN q
        BY <2>4, <2>7
      <3>2. q[1].start_packet_number = handed + 1
        BY <2>3, <3>1 DEF BatchesContiguous
      <3>3. total = NumRecords(file) + 1
        BY <2>3, <2>5, <3>1 DEF BatchesContiguous
      <3>4. Queued = total - q[1].start_packet_number
        BY <2>7 DEF Queued
      <3> HIDE DEF q, total
      <3> QED
        BY <2>2, <2>4, <3>2, <3>3, <3>4
    <2> QED
      BY <2>6, <2>7
  <1>2. ProcIInv => OnlyTheQueueIsLost
    BY <1>1 DEF OnlyTheQueueIsLost
  <1> QED
    BY <1>2, ProcInvariance, PTL

\* The total that the consumer thread adds up over its calls of process_batch is the
\* number of packets it gave to the packet processor.
THEOREM TotalIsProcessed == ProcSpec => []ReportedTotalIsProcessed
  <1>1. ProcIInv => ReportedTotalIsProcessed
    BY DEF ProcIInv, PlaceInCapture, Totals, ReportedTotalIsProcessed
  <1> QED
    BY <1>1, ProcInvariance, PTL

\* start() joins both threads before the destructor closes the capture and clears the
\* flag.
THEOREM StopIsLast == ProcSpec => []StopsAfterThreads
  <1>1. ProcIInv => StopsAfterThreads
    BY DEF ProcIInv, IInv, TypeOK, ThreadsJoined, StopsAfterThreads
  <1> QED
    BY <1>1, ProcInvariance, PTL

-----------------------------------------------------------------------------
(***************************************************************************)
(* The program implements PacketDelivery.                                  *)
(***************************************************************************)
LEMMA DeliveryInit ==
  ASSUME ProcInit
  PROVE  Delivery!Init
  BY DEF ProcInit, Init, Delivery!Init

LEMMA QuietStep ==
  ASSUME UNCHANGED <<file, processed, process>>,
         consumer' = "done" <=> consumer = "done"
  PROVE  [Delivery!Next]_(Delivery!vars)
  BY DEF Delivery!vars

LEMMA EndingStep ==
  ASSUME process = "running", consumer # "done", UNCHANGED <<file, processed>>,
         \/ process' \in {"terminated", "exited"}
         \/ process' = "running" /\ consumer' = "done"
  PROVE  Delivery!Next
  BY DEF Delivery!Next, Delivery!End

\* The packet taken from the batch in hand is the payload of the next record.
LEMMA DeliveryOfPacket ==
  ASSUME ProcIInv, ProcessPacket
  PROVE  Delivery!Next
  <1> DEFINE r == Len(processed) + 1
             p == next_batch.packets[packet_nr_in_batch + 1]
  <1>1. /\ process = "running" /\ consumer = "packets"
        /\ packet_nr_in_batch < Len(next_batch.packets)
        /\ processed' = Append(processed, p)
        /\ UNCHANGED <<file, process, consumer>>
    BY DEF ProcessPacket, PacketsLeft, bufferVars
  <1>2. ProcTypeOK /\ BatchInHand /\ PlaceInCapture
    BY DEF ProcIInv
  <1>3. /\ next_batch \in Batches
        /\ packet_nr_in_batch \in 0 .. Len(next_batch.packets)
        /\ processed \in Seq(Seq(Nat \cup {ZERO}))
    BY <1>2 DEF ProcTypeOK
  <1>4. /\ next_batch.start_packet_number \in Nat
        /\ next_batch.number_packets \in Nat
        /\ next_batch.packets \in Seq(Seq(Nat \cup {ZERO}))
    BY <1>3 DEF Batches
  <1>5. Faithful(next_batch)
    BY <1>1, <1>2 DEF BatchInHand
  <1>6. Len(next_batch.packets) = next_batch.number_packets
    BY <1>5 DEF Faithful
  <1>7. packet_nr_in_batch + 1 \in 1 .. next_batch.number_packets
    BY <1>1, <1>3, <1>4, <1>6
  <1>8. Len(processed) = (next_batch.start_packet_number + packet_nr_in_batch) - 1
    BY <1>1, <1>2 DEF PlaceInCapture, RecordInHand
  <1>9. r = next_batch.start_packet_number + (packet_nr_in_batch + 1) - 1
    BY <1>3, <1>4, <1>8
  <1>10. r \in Records(file) /\ (Whole(file, r) => p = Payload(file, r))
    BY <1>5, <1>7, <1>9 DEF Faithful
  <1>11. p \in Seq(Nat \cup {ZERO})
    BY <1>4, <1>6, <1>7
  <1>12. Len(processed') = r /\ processed'[r] = p
    BY <1>1, <1>3, <1>11
  <1>13. /\ r \in Delivery!Records(file)
         /\ Delivery!Whole(file, r) => processed'[r] = Delivery!Payload(file, r)
    BY <1>10, <1>12 DEF Records, Delivery!Records, NumRecords, Delivery!NumRecords, Whole,
       Delivery!Whole, Payload, Delivery!Payload, CapturedLength, Delivery!CapturedLength,
       REC_HEADER, Delivery!REC_HEADER
  <1>14. processed' = Append(processed, processed'[r])
    BY <1>1, <1>12
  <1>15. Delivery!Deliver
    BY <1>1, <1>12, <1>13, <1>14 DEF Delivery!Deliver
  <1> QED
    BY <1>15 DEF Delivery!Next

LEMMA DeliveryStep ==
  ASSUME ProcIInv, [ProcNext]_vars
  PROVE  [Delivery!Next]_(Delivery!vars)
  <1> USE DEF bufferVars, fileVars, consumerVars
  <1>0. ThreadsJoined /\ FlagTellsProducer /\ TypeOK
    BY DEF ProcIInv, IInv
  <1>1. CASE RejectFile \/ WrongMagic \/ PacketThrows
    BY <1>0, <1>1, EndingStep DEF RejectFile, WrongMagic, PacketThrows, ThreadsJoined
  <1>2. CASE ProducerThrows
    BY <1>0, <1>2, EndingStep DEF ProducerThrows, ReadFails, FlagTellsProducer
  <1>3. CASE LeaveConsumerLoop
    BY <1>3, EndingStep DEF LeaveConsumerLoop
  <1>4. CASE ProcessPacket
    BY <1>4, DeliveryOfPacket
  <1>5. CASE AcceptFile \/ JoinProducer \/ JoinConsumer
    BY <1>5, QuietStep DEF AcceptFile, JoinProducer, JoinConsumer
  <1>6. CASE SpawnConsumer
    BY <1>0, <1>6, QuietStep DEF SpawnConsumer, ThreadsJoined
  <1>7. CASE CallStartBuffering \/ Destroy
    BY <1>7, QuietStep DEF CallStartBuffering, StartBuffering, Destroy, Stop
  <1>8. CASE ConsumerWaits \/ ConsumerReleased \/ TakeBatch
    BY <1>8, QuietStep DEF ConsumerWaits, WaitBlocks, ConsumerReleased, TakeBatch, NextBatch
  <1>9. CASE EnterBatch \/ QueueEmpty \/ BatchDone \/ Wakes
    BY <1>9, QuietStep DEF EnterBatch, QueueEmpty, BatchDone, Wakes
  <1>10. CASE ProducerRuns
    BY <1>0, <1>10, ProducerMoves, QuietStep DEF ProducerRuns
  <1>11. CASE SpuriousWakeUp
    BY <1>11, QuietStep DEF SpuriousWakeUp, SpuriousWake
  <1>12. CASE UNCHANGED vars
    BY <1>12, QuietStep DEF vars
  <1> QED
    BY <1>1, <1>2, <1>3, <1>4, <1>5, <1>6, <1>7, <1>8, <1>9, <1>10, <1>11, <1>12
       DEF ProcNext, MainStep, ConsumerStep

\* The two threads and their queue deliver the packets of the capture in its order,
\* once each and with the words of their records, up to where they stop; and once the
\* consumer has finished, nothing ends the process abnormally.
THEOREM ImplementsPacketDelivery == ProcSpec => DeliveredInOrder
  <1>1. ProcInit => Delivery!Init
    BY DeliveryInit
  <1>2. ProcIInv /\ [ProcNext]_vars => [Delivery!Next]_(Delivery!vars)
    BY DeliveryStep
  <1> QED
    BY <1>1, <1>2, ProcInvariance, PTL DEF ProcSpec, DeliveredInOrder, Delivery!Spec
=============================================================================
