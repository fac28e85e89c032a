-------------------------- MODULE PCAPBufferProofs --------------------------
(***************************************************************************)
(* Proofs of the safety properties of PCAPBuffer, for every size of the    *)
(* batch, every capture and every interleaving with the client.            *)
(***************************************************************************)
EXTENDS PCAPBuffer, WellFoundedInduction, TLAPS

USE DEF ProducerAt

(***************************************************************************)
(* The inductive invariant.  What the safety properties leave out is where *)
(* the producer is: its offset in the file is the start of the record it   *)
(* packs next, the file is positioned there whenever a chunk is read, and  *)
(* the buffer holds the words of the file from the start of the batch on.  *)
(***************************************************************************)
InBatch == producer \in {"pack", "push"}

AtRecord ==
  /\ packet_nr \in 1 .. NumRecords(file) + 1
  /\ IF packet_nr <= NumRecords(file)
     THEN current_offset_ = file.starts[packet_nr]
     ELSE current_offset_ >= file.size

FilePositioned ==
  /\ producer \in {"none", "start", "notify", "loop", "read"} => file_pos = current_offset_
  /\ producer = "read" => packet_nr <= NumRecords(file)

BatchBase == file.starts[buffered_packets.start_packet_number]

BatchStarted ==
  InBatch => buffered_packets.start_packet_number \in Records(file)

BufferFilled ==
  producer = "pack" =>
    /\ packet_nr <= NumRecords(file) => offset = file.starts[packet_nr] - BatchBase
    /\ \A i \in 0 .. BATCH_SIZE - 1 :
          BatchBase + i < file.size => local_buffer_[i] = BatchBase + i

BatchNotEmpty ==
  producer = "push" /\ RecordsFit(file) /\ HeadersPresent(file)
    => buffered_packets.number_packets > 0

IInv ==
  /\ TypeOK
  /\ AtRecord
  /\ FilePositioned
  /\ BatchStarted
  /\ BufferFilled
  /\ BatchNotEmpty
  /\ PacketsFaithful
  /\ BatchesContiguous
  /\ BatchesNotEmpty

-----------------------------------------------------------------------------
(***************************************************************************)
(* Facts about the capture.                                                *)
(***************************************************************************)
\* What rises from each place to the next rises from every place to every later one.
LEMMA StartsAscend ==
  ASSUME NEW n \in Nat, NEW s \in [1 .. n -> Nat], \A i \in 1 .. n - 1 : s[i] <= s[i + 1],
         NEW i \in 1 .. n, NEW j \in 1 .. n, i <= j
  PROVE  s[i] <= s[j]
  <1> DEFINE R == {ss \in Nat \X Nat : ss[1] < ss[2]}
             T == {k \in i .. n : ~(s[i] <= s[k])}
  <1>1. SUFFICES ASSUME ~(s[i] <= s[j])
                 PROVE  FALSE
    BY <1>1
  <1>2. T # {}
    <2>1. j \in i .. n
      OBVIOUS
    <2> QED
      BY <1>1, <2>1
  <1>3. IsWellFoundedOn(R, Nat)
    BY NatLessThanWellFounded DEF OpToRel
  <1>4. \A k, m \in Nat : k < m => <<k, m>> \in R
    OBVIOUS
  <1>5. T \subseteq Nat
    OBVIOUS
  <1> HIDE DEF R, T
  <1>6. PICK m \in T : \A k \in T : <<k, m>> \notin R
    BY <1>2, <1>3, <1>5, WFMin
  <1>7. m \in i .. n /\ ~(s[i] <= s[m])
    BY <1>6 DEF T
  <1>8. m # i /\ m - 1 \in i .. n /\ m - 1 \in 1 .. n - 1 /\ m - 1 \in Nat /\ m \in Nat /\ m - 1 < m
    BY <1>7
  <1>9. m - 1 \notin T
    BY <1>4, <1>6, <1>8
  <1>10. s[i] <= s[m - 1] /\ s[m - 1] <= s[(m - 1) + 1] /\ (m - 1) + 1 = m
    BY <1>8, <1>9 DEF T
  <1>11. s[i] \in Nat /\ s[m - 1] \in Nat /\ s[m] \in Nat
    BY <1>7, <1>8
  <1> QED
    BY <1>7, <1>10, <1>11

\* The records of a capture follow one another and begin inside the file.
LEMMA FileFacts ==
  ASSUME NEW f, IsFile(f)
  PROVE  /\ NumRecords(f) \in Nat
         /\ f.size \in Nat
         /\ f.size <= f.starts[NumRecords(f) + 1]
         /\ f.starts[1] = HEADER_SIZE
         /\ \A r \in 1 .. NumRecords(f) + 1 : f.starts[r] \in Nat
         /\ \A r \in Records(f) :
              /\ r + 1 \in 1 .. NumRecords(f) + 1
              /\ f.starts[r + 1] >= f.starts[r] + REC_HEADER
              /\ f.size > f.starts[r]
              /\ CapturedLength(f, r) \in Nat
              /\ f.starts[r + 1] = f.starts[r] + REC_HEADER + CapturedLength(f, r)
  <1>1. /\ f.starts \in Seq(Nat)
        /\ Len(f.starts) \in Nat
        /\ Len(f.starts) >= 1
        /\ DOMAIN f.starts = 1 .. Len(f.starts)
    BY DEF IsFile
  <1>2. \A r \in 1 .. NumRecords(f) + 1 : f.starts[r] \in Nat
    BY <1>1 DEF NumRecords
  <1>3. ASSUME NEW r \in Records(f)
        PROVE  f.starts[r + 1] >= f.starts[r] + REC_HEADER
    BY DEF IsFile
  <1>4. ASSUME NEW r \in Records(f)
        PROVE  /\ CapturedLength(f, r) \in Nat
               /\ f.starts[r + 1] = f.starts[r] + REC_HEADER + CapturedLength(f, r)
    <2>1. f.starts[r] \in Nat /\ f.starts[r + 1] \in Nat
      BY <1>1, <1>2 DEF Records, NumRecords
    <2> QED
      BY <1>3, <2>1 DEF CapturedLength, REC_HEADER
  <1>5. /\ NumRecords(f) \in Nat
        /\ \A r \in Records(f) : r + 1 \in 1 .. NumRecords(f) + 1
    BY <1>1 DEF Records, NumRecords
  <1>6. NumRecords(f) + 1 = Len(f.starts)
    BY <1>1 DEF NumRecords
  <1>7. /\ f.size \in Nat
        /\ f.size <= f.starts[NumRecords(f) + 1]
        /\ f.starts[1] = HEADER_SIZE
        /\ \A r \in Records(f) : f.size > f.starts[r]
    BY <1>6, Zenon DEF IsFile
  <1> QED
    BY <1>2, <1>3, <1>4, <1>5, <1>7

\* No two records begin at the same word.
LEMMA StartsDistinct ==
  ASSUME NEW f, IsFile(f), NEW q \in Records(f), NEW r \in Records(f),
         f.starts[q] = f.starts[r]
  PROVE  q = r
  <1>1. f.starts \in Seq(Nat) /\ Len(f.starts) \in Nat
    BY DEF IsFile
  <1>2. ASSUME NEW i \in Records(f), NEW j \in Records(f), i < j
        PROVE  f.starts[j] >= f.starts[i] + REC_HEADER
    <2> DEFINE n == Len(f.starts)
               s == f.starts
    <2>1. s \in [1 .. n -> Nat] /\ n \in Nat /\ i \in 1 .. n - 1 /\ j \in 1 .. n
          /\ i + 1 \in 1 .. n /\ i + 1 <= j
      <3>1. i \in 1 .. n - 1 /\ j \in 1 .. n - 1 /\ i < j /\ n \in Nat
        BY <1>1, <1>2 DEF Records, NumRecords
      <3>2. s \in [1 .. n -> Nat]
        BY <1>1
      <3> HIDE DEF n, s
      <3>3. j \in 1 .. n /\ i + 1 \in 1 .. n /\ i + 1 <= j
        BY <3>1
      <3> QED
        BY <3>1, <3>2, <3>3
    <2>2. \A k \in 1 .. n - 1 : s[k] + REC_HEADER <= s[k + 1] /\ s[k] \in Nat /\ s[k + 1] \in Nat
      <3>1. \A k \in 1 .. n - 1 : k \in Records(f) /\ k \in 1 .. n /\ k + 1 \in 1 .. n
        BY <2>1 DEF Records, NumRecords
      <3>2. \A k \in Records(f) : s[k + 1] >= s[k] + REC_HEADER
        BY DEF IsFile
      <3> HIDE DEF s, n
      <3> QED
        BY <2>1, <3>1, <3>2 DEF REC_HEADER
    <2>3. \A k \in 1 .. n - 1 : s[k] <= s[k + 1]
      BY <2>2 DEF REC_HEADER
    <2> HIDE DEF s, n
    <2>4. s[i + 1] <= s[j] /\ s[j] \in Nat
      BY <2>1, <2>3, StartsAscend
    <2>5. s[i] + REC_HEADER <= s[i + 1]
      BY <2>1, <2>2
    <2>6. s[j] >= s[i] + REC_HEADER
      BY <2>1, <2>2, <2>4, <2>5 DEF REC_HEADER
    <2> QED
      BY <2>6 DEF s
  <1>3. /\ q < r => f.starts[r] >= f.starts[q] + REC_HEADER
        /\ r < q => f.starts[q] >= f.starts[r] + REC_HEADER
    BY <1>2
  <1>4. f.starts[q] \in Nat /\ q \in Nat /\ r \in Nat
    <2>1. NumRecords(f) \in Nat /\ \A p \in 1 .. NumRecords(f) + 1 : f.starts[p] \in Nat
      BY FileFacts
    <2> QED
      BY <2>1 DEF Records
  <1>5. ~(q < r) /\ ~(r < q)
    BY <1>3, <1>4 DEF REC_HEADER
  <1> QED
    BY <1>4, <1>5

\* What the word at the place of a captured_length stands for, if it is a word of the
\* file, is the captured length of that record.
LEMMA LengthsAtRecord ==
  ASSUME NEW f, IsFile(f), NEW r \in Records(f)
  PROVE  LengthsAt(f, f.starts[r] + LENGTH_WORD) = {CapturedLength(f, r)}
  <1> DEFINE w == f.starts[r] + LENGTH_WORD
             Q == {q \in Records(f) : f.starts[q] + LENGTH_WORD = w}
  <1>1. f.starts[r] \in Nat /\ \A q \in Records(f) : f.starts[q] \in Nat
    BY FileFacts DEF Records
  <1>2. Q = {r}
    BY <1>1, StartsDistinct DEF LENGTH_WORD
  <1>3. w # ZERO /\ w \in LengthWords(f)
    BY <1>1 DEF LengthWords, LENGTH_WORD, ZERO
  <1>4. LengthsAt(f, w) = {CapturedLength(f, q) : q \in Q}
    BY <1>3 DEF LengthsAt
  <1> QED
    BY <1>2, <1>4

\* Every value parsed as a captured_length is a natural number.
LEMMA LengthsAtNat ==
  ASSUME NEW f, IsFile(f), NEW w
  PROVE  LengthsAt(f, w) \subseteq Nat
  <1>1. \A r \in Records(f) : CapturedLength(f, r) \in Nat
    BY FileFacts
  <1>2. CASE w = ZERO
    <2>1. \A r \in Records(f) : f.starts[r] \in Nat
      BY FileFacts DEF Records
    <2>2. w \notin LengthWords(f)
      BY <1>2, <2>1 DEF LengthWords, LENGTH_WORD, ZERO
    <2> QED
      BY <1>2, <2>2 DEF LengthsAt
  <1>3. CASE w # ZERO /\ w \in LengthWords(f)
    BY <1>1, <1>3 DEF LengthsAt
  <1>4. CASE w # ZERO /\ w \notin LengthWords(f)
    BY <1>4, PCAPFileAssumption DEF LengthsAt
  <1> QED
    BY <1>2, <1>3, <1>4

-----------------------------------------------------------------------------
(***************************************************************************)
(* Where the producer is while it packs.                                   *)
(***************************************************************************)
\* While there is something to pack, the next packet is a record of the capture and
\* both offsets are at its start.
LEMMA AtNextRecord ==
  ASSUME IInv, current_offset_ < file.size
  PROVE  /\ packet_nr \in Records(file)
         /\ current_offset_ = file.starts[packet_nr]
         /\ producer = "pack" => offset = file.starts[packet_nr] - BatchBase
  <1>1. IsFile(file) /\ current_offset_ \in Nat /\ packet_nr \in Nat
    BY DEF IInv, TypeOK
  <1>2. NumRecords(file) \in Nat /\ file.size \in Nat
    BY <1>1, FileFacts
  <1> QED
    BY <1>1, <1>2 DEF IInv, AtRecord, BufferFilled, Records

\* The captured_length parsed is a natural number; it is that of the record when the
\* header lies in the buffer and in the file up to that field.
LEMMA ParsedLength ==
  ASSUME IInv, Packing, NEW len \in ParsedLengths
  PROVE  /\ len \in Nat
         /\ offset + LENGTH_WORD < BATCH_SIZE
              /\ file.starts[packet_nr] + LENGTH_WORD < file.size
            => len = CapturedLength(file, packet_nr)
  <1>1. /\ IsFile(file)
        /\ offset \in Nat
        /\ producer = "pack"
        /\ current_offset_ < file.size
    BY DEF IInv, TypeOK, Packing
  <1>2. /\ packet_nr \in Records(file)
        /\ offset = file.starts[packet_nr] - BatchBase
    BY <1>1, AtNextRecord
  <1>3. BATCH_SIZE \in Nat /\ CapturedLengths \subseteq Nat
    BY PCAPFileAssumption
  <1>4. len \in Nat
    BY <1>1, <1>3, LengthsAtNat DEF ParsedLengths
  <1>5. ASSUME offset + LENGTH_WORD < BATCH_SIZE,
               file.starts[packet_nr] + LENGTH_WORD < file.size
        PROVE  len = CapturedLength(file, packet_nr)
    <2>1. file.starts[packet_nr] \in Nat /\ BatchBase \in Nat
      BY <1>1, <1>2, FileFacts DEF Records, BatchBase, IInv, BatchStarted, InBatch
    <2>2. /\ offset + LENGTH_WORD \in 0 .. BATCH_SIZE - 1
          /\ BatchBase + (offset + LENGTH_WORD) = file.starts[packet_nr] + LENGTH_WORD
      BY <1>1, <1>2, <1>3, <1>5, <2>1 DEF LENGTH_WORD
    <2>3. local_buffer_[offset + LENGTH_WORD] = file.starts[packet_nr] + LENGTH_WORD
      BY <1>1, <1>5, <2>2 DEF IInv, BufferFilled
    <2>4. ~(offset + LENGTH_WORD >= BATCH_SIZE)
      BY <1>3, <1>5, <2>2
    <2>5. ParsedLengths = LengthsAt(file, file.starts[packet_nr] + LENGTH_WORD)
      BY <2>3, <2>4 DEF ParsedLengths
    <2> QED
      BY <1>1, <1>2, <2>5, LengthsAtRecord
  <1> QED
    BY <1>4, <1>5

\* The slice of the buffer is a sequence of words; when the record was captured in
\* full it is the payload of the record.
LEMMA SliceIsPayload ==
  ASSUME IInv, Packing, NEW len \in ParsedLengths, offset + REC_HEADER + len < BATCH_SIZE
  PROVE  /\ Slice(len) \in Seq(Nat \cup {ZERO})
         /\ Whole(file, packet_nr) => Slice(len) = Payload(file, packet_nr)
  <1>1. /\ IsFile(file)
        /\ offset \in Nat
        /\ producer = "pack"
        /\ current_offset_ < file.size
        /\ local_buffer_ \in [0 .. BATCH_SIZE - 1 -> Nat \cup {ZERO}]
    BY DEF IInv, TypeOK, Packing
  <1>2. /\ packet_nr \in Records(file)
        /\ offset = file.starts[packet_nr] - BatchBase
    BY <1>1, AtNextRecord
  <1>3. BATCH_SIZE \in Nat
    BY PCAPFileAssumption
  <1>4. len \in Nat
    BY ParsedLength
  <1>5. file.starts[packet_nr] \in Nat /\ BatchBase \in Nat
    BY <1>1, <1>2, FileFacts DEF Records, BatchBase, IInv, BatchStarted, InBatch
  <1>6. \A j \in 1 .. len : offset + REC_HEADER + j - 1 \in 0 .. BATCH_SIZE - 1
    BY <1>1, <1>3, <1>4 DEF REC_HEADER
  <1>7. Slice(len) \in Seq(Nat \cup {ZERO})
    <2>1. \A j \in 1 .. len :
            local_buffer_[offset + REC_HEADER + j - 1] \in Nat \cup {ZERO}
      BY <1>1, <1>6
    <2> QED
      BY <1>4, <2>1 DEF Slice
  <1>8. ASSUME Whole(file, packet_nr)
        PROVE  Slice(len) = Payload(file, packet_nr)
    <2>1. /\ file.starts[packet_nr + 1] <= file.size
          /\ CapturedLength(file, packet_nr) \in Nat
          /\ file.starts[packet_nr + 1]
               = file.starts[packet_nr] + REC_HEADER + CapturedLength(file, packet_nr)
          /\ file.size \in Nat
      BY <1>1, <1>2, <1>8, FileFacts DEF Whole
    <2>2. len = CapturedLength(file, packet_nr)
      BY <1>1, <1>3, <1>4, <1>5, <2>1, ParsedLength DEF LENGTH_WORD, REC_HEADER
    <2>3. ASSUME NEW j \in 1 .. len
          PROVE  local_buffer_[offset + REC_HEADER + j - 1]
                   = file.starts[packet_nr] + REC_HEADER + j - 1
      <3> DEFINE i == offset + REC_HEADER + j - 1
      <3>0. i \in 0 .. BATCH_SIZE - 1
        BY <1>6
      <3>1. /\ BatchBase + i = file.starts[packet_nr] + REC_HEADER + j - 1
            /\ BatchBase + i < file.size
        <4>1. j \in Nat /\ j <= CapturedLength(file, packet_nr)
          BY <1>4, <2>2
        <4>2. offset = file.starts[packet_nr] - BatchBase
          BY <1>2
        <4> QED
          BY <1>5, <2>1, <4>1, <4>2 DEF REC_HEADER
      <3>2. local_buffer_[i] = BatchBase + i
        BY <1>1, <3>0, <3>1 DEF IInv, BufferFilled
      <3> QED
        BY <3>1, <3>2
    <2> QED
      BY <2>2, <2>3 DEF Slice, Payload
  <1> QED
    BY <1>7, <1>8

-----------------------------------------------------------------------------
(***************************************************************************)
(* The inductive invariant is preserved by every step.                     *)
(***************************************************************************)
\* Steps that move no packet: they change the program counter outside of a batch, the
\* flag, the handle or the process.
LEMMA ControlStep ==
  ASSUME IInv, TypeOK',
         UNCHANGED <<file, file_pos, packingVars, queueVars>>,
         \/ UNCHANGED producer
         \/ /\ ~InBatch /\ ~InBatch'
            /\ producer' \in {"none", "start", "notify", "loop", "read"}
                 => producer \in {"none", "start", "notify", "loop", "read"}
            /\ producer' = "read" => current_offset_ < file.size
  PROVE  IInv'
  <1>1. AtRecord'
    BY DEF IInv, AtRecord, packingVars
  <1>2. FilePositioned'
    <2>1. producer' = "read" => packet_nr <= NumRecords(file)
      <3>1. CASE UNCHANGED producer
        BY <3>1 DEF IInv, FilePositioned
      <3>2. CASE current_offset_ < file.size
        <4>1. NumRecords(file) \in Nat
          BY FileFacts DEF IInv, TypeOK
        <4> QED
          BY <3>2, <4>1, AtNextRecord DEF Records
      <3> QED
        BY <3>1, <3>2
    <2> QED
      BY <2>1 DEF IInv, FilePositioned, packingVars
  <1>3. BatchStarted' /\ BufferFilled' /\ BatchNotEmpty'
    BY DEF IInv, BatchStarted, BufferFilled, BatchNotEmpty, BatchBase, InBatch, packingVars
  <1>4. PacketsFaithful'
    BY DEF IInv, PacketsFaithful, Faithful, InBatch, packingVars, queueVars
  <1>5. BatchesContiguous' /\ BatchesNotEmpty'
    <2>1. NextStart' = NextStart
      BY DEF NextStart, InBatch, packingVars
    <2> QED
      BY <2>1 DEF IInv, BatchesContiguous, BatchesNotEmpty, AfterBatch, InBatch, packingVars,
         queueVars
  <1> QED
    BY <1>1, <1>2, <1>3, <1>4, <1>5 DEF IInv

\* A chunk is read where the next record begins.
LEMMA ReadChunkStep ==
  ASSUME IInv, ReadChunk
  PROVE  IInv'
  <1>1. /\ IsFile(file) /\ file' = file
        /\ producer = "read" /\ producer' = "pack"
        /\ packet_nr' = packet_nr /\ current_offset_' = current_offset_
        /\ buffered_packets' = EmptyBatch(packet_nr)
        /\ offset' = 0
        /\ UNCHANGED <<queueVars, flagVars, process, file_open>>
    BY DEF IInv, TypeOK, ReadChunk
  <1>2. /\ NumRecords(file) \in Nat
        /\ file.size \in Nat
        /\ packet_nr \in Records(file)
        /\ current_offset_ = file.starts[packet_nr]
        /\ file_pos = current_offset_
        /\ current_offset_ \in Nat
    BY <1>1, FileFacts DEF IInv, TypeOK, FilePositioned, AtRecord, Records
  <1>3. current_offset_ < file.size
    BY <1>1, <1>2, FileFacts
  <1>4. BATCH_SIZE \in Nat /\ BATCH_SIZE > 0
    BY PCAPFileAssumption DEF REC_HEADER
  <1>5. /\ BytesToRead \in Nat
        /\ \A i \in 0 .. BATCH_SIZE - 1 : current_offset_ + i < file.size => i < BytesToRead
    BY <1>2, <1>3, <1>4 DEF BytesToRead
  <1>6. local_buffer_' = [i \in 0 .. BATCH_SIZE - 1 |->
                            IF i < BytesToRead THEN file_pos + i ELSE local_buffer_[i]]
    BY DEF ReadChunk
  <1>7. buffered_packets' \in Batches
    BY <1>1, <1>2 DEF EmptyBatch, Batches, Records
  <1>8. TypeOK'
    <2>1. local_buffer_' \in [0 .. BATCH_SIZE - 1 -> Nat \cup {ZERO}]
      BY <1>2, <1>5, <1>6 DEF IInv, TypeOK
    <2>2. file_pos' \in Nat
      BY <1>2, <1>5 DEF ReadChunk
    <2> QED
      BY <1>1, <1>7, <2>1, <2>2
         DEF IInv, TypeOK, queueVars, flagVars, ProducerPCs
  <1>9. AtRecord' /\ FilePositioned' /\ BatchNotEmpty'
    BY <1>1 DEF IInv, AtRecord, FilePositioned, BatchNotEmpty
  <1>10. BatchBase' = file.starts[packet_nr]
    BY <1>1 DEF BatchBase, EmptyBatch
  <1>11. BatchStarted'
    BY <1>1, <1>2 DEF BatchStarted, EmptyBatch
  <1>12. BufferFilled'
    BY <1>1, <1>2, <1>5, <1>6, <1>10 DEF BufferFilled
  <1>13. PacketsFaithful'
    <2>1. Faithful(buffered_packets)'
      BY <1>1 DEF Faithful, EmptyBatch
    <2> QED
      BY <1>1, <2>1 DEF IInv, PacketsFaithful, Faithful, queueVars
  <1>14. BatchesContiguous' /\ BatchesNotEmpty'
    <2>1. NextStart' = packet_nr /\ NextStart = packet_nr
      BY <1>1 DEF NextStart, EmptyBatch
    <2>2. AfterBatch(buffered_packets)' = packet_nr'
      BY <1>1, <1>2 DEF AfterBatch, EmptyBatch, Records
    <2> QED
      BY <1>1, <2>1, <2>2
         DEF IInv, BatchesContiguous, BatchesNotEmpty, AfterBatch, queueVars
  <1> QED
    BY <1>8, <1>9, <1>11, <1>12, <1>13, <1>14 DEF IInv

\* A packed packet is the next record, and both offsets move to the record after it.
LEMMA PackPacketStep ==
  ASSUME IInv, PackPacket
  PROVE  IInv'
  <1> PICK len \in ParsedLengths : PackPacketLen(len)
    BY DEF PackPacket
  <1> DEFINE b == buffered_packets
             r == packet_nr
  <1>1. /\ IsFile(file) /\ file' = file
        /\ Packing /\ producer = "pack" /\ producer' = "pack"
        /\ current_offset_ < file.size
        /\ local_buffer_' = local_buffer_
        /\ UNCHANGED <<fileVars, queueVars, flagVars, process>>
        /\ b \in Batches
        /\ offset \in Nat /\ r \in Nat \ {0} /\ current_offset_ \in Nat
    BY DEF IInv, TypeOK, PackPacket, Packing, fileVars
  <1>2. /\ offset + REC_HEADER + len < BATCH_SIZE
        /\ b' = [b EXCEPT !.packets = Append(@, Slice(len)), !.number_packets = @ + 1]
        /\ offset' = offset + REC_HEADER + len
        /\ current_offset_' = current_offset_ + REC_HEADER + len
        /\ packet_nr' = r + 1
    BY DEF PackPacketLen
  <1>3. /\ r \in Records(file)
        /\ current_offset_ = file.starts[r]
        /\ offset = file.starts[r] - BatchBase
    BY <1>1, AtNextRecord
  <1>4. /\ len \in Nat
        /\ Slice(len) \in Seq(Nat \cup {ZERO})
        /\ Whole(file, r) => Slice(len) = Payload(file, r)
    BY <1>1, <1>2, ParsedLength, SliceIsPayload
  <1>5. /\ b'.start_packet_number = b.start_packet_number
        /\ b'.number_packets = b.number_packets + 1
        /\ b'.packets = Append(b.packets, Slice(len))
        /\ b.number_packets \in Nat /\ b.packets \in Seq(Seq(Nat \cup {ZERO}))
        /\ b.start_packet_number \in Nat
        /\ b' \in Batches
    <2>1. /\ b.start_packet_number \in Nat /\ b.number_packets \in Nat
          /\ b.packets \in Seq(Seq(Nat \cup {ZERO}))
      BY <1>1 DEF Batches
    <2>2. Append(b.packets, Slice(len)) \in Seq(Seq(Nat \cup {ZERO}))
      BY <1>4, <2>1
    <2>3. b' = [start_packet_number |-> b.start_packet_number,
                number_packets      |-> b.number_packets + 1,
                packets             |-> Append(b.packets, Slice(len))]
      BY <1>1, <1>2 DEF Batches
    <2> QED
      BY <2>1, <2>2, <2>3 DEF Batches
  <1>6. Faithful(b) /\ AfterBatch(b) = r /\ b.start_packet_number \in Records(file)
    BY <1>1 DEF IInv, PacketsFaithful, BatchesContiguous, BatchStarted, InBatch
  <1>7. BatchBase' = BatchBase
    BY <1>1, <1>5 DEF BatchBase
  <1>8. /\ NumRecords(file) \in Nat /\ file.size \in Nat
        /\ file.starts[r] \in Nat /\ file.starts[r + 1] \in Nat
        /\ r < NumRecords(file) => file.size > file.starts[r + 1]
        /\ file.starts[r + 1] = file.starts[r] + REC_HEADER + CapturedLength(file, r)
        /\ CapturedLength(file, r) \in Nat
        /\ file.size <= file.starts[NumRecords(file) + 1]
    <2>1. r < NumRecords(file) /\ NumRecords(file) \in Nat => r + 1 \in Records(file)
      BY <1>3 DEF Records
    <2> QED
      BY <1>1, <1>3, <2>1, FileFacts DEF Records
  <1>9. \/ /\ len = CapturedLength(file, r)
           /\ current_offset_' = file.starts[r + 1]
        \/ /\ r = NumRecords(file)
           /\ current_offset_' >= file.size
    <2>1. offset + LENGTH_WORD < BATCH_SIZE
      BY <1>1, <1>2, <1>4, PCAPFileAssumption DEF REC_HEADER, LENGTH_WORD
    <2>2. CASE file.starts[r] + LENGTH_WORD < file.size
      BY <1>1, <1>2, <1>3, <1>8, <2>1, <2>2, ParsedLength
    <2>3. CASE ~(file.starts[r] + LENGTH_WORD < file.size)
      <3>1. r \in Nat /\ r <= NumRecords(file)
        BY <1>1, <1>3, <1>8 DEF Records
      <3>2. file.size <= file.starts[r] + LENGTH_WORD
        BY <1>8, <2>3 DEF LENGTH_WORD
      <3>3. ~(r < NumRecords(file))
        BY <1>8, <3>2 DEF LENGTH_WORD, REC_HEADER
      <3>4. current_offset_' >= file.size
        <4>1. current_offset_' = file.starts[r] + REC_HEADER + len
          BY <1>2, <1>3
        <4>2. file.starts[r] \in Nat /\ file.size \in Nat /\ len \in Nat
          BY <1>4, <1>8
        <4> HIDE DEF r
        <4> QED
          BY <3>2, <4>1, <4>2 DEF LENGTH_WORD, REC_HEADER
      <3> QED
        BY <1>8, <3>1, <3>3, <3>4
    <2> QED
      BY <2>2, <2>3
  <1>10. AtRecord'
    BY <1>1, <1>2, <1>3, <1>8, <1>9 DEF AtRecord, Records
  <1>11. BufferFilled'
    <2>1. r < NumRecords(file) => offset' = file.starts[r + 1] - BatchBase
      <3>1. BatchBase \in Nat
        BY <1>1, <1>6, FileFacts DEF BatchBase, Records
      <3> QED
        BY <1>2, <1>3, <1>4, <1>8, <1>9, <3>1 DEF REC_HEADER
    <2>2. packet_nr' <= NumRecords(file) => r < NumRecords(file)
      BY <1>1, <1>2, <1>8
    <2>3. \A i \in 0 .. BATCH_SIZE - 1 :
            BatchBase + i < file.size => local_buffer_[i] = BatchBase + i
      BY <1>1 DEF IInv, BufferFilled
    <2> HIDE DEF r
    <2> QED
      BY <1>1, <1>2, <1>7, <2>1, <2>2, <2>3 DEF BufferFilled
  <1>12. TypeOK'
    <2>1. offset' \in Nat /\ current_offset_' \in Nat /\ packet_nr' \in Nat \ {0}
      BY <1>1, <1>2, <1>4 DEF REC_HEADER
    <2> QED
      BY <1>1, <1>5, <2>1 DEF IInv, TypeOK, fileVars, queueVars, flagVars, ProducerPCs
  <1>13. FilePositioned' /\ BatchStarted' /\ BatchNotEmpty'
    BY <1>1, <1>5, <1>6 DEF FilePositioned, BatchStarted, BatchNotEmpty
  <1>14. Faithful(b)'
    <2>1. Len(b.packets) = b.number_packets
      BY <1>6 DEF Faithful
    <2>2. b'.packets[b.number_packets + 1] = Slice(len)
      BY <1>4, <1>5, <2>1
    <2>3. b.start_packet_number + (b.number_packets + 1) - 1 = r
      BY <1>5, <1>6 DEF AfterBatch
    <2>4. \A k \in 1 .. b.number_packets : b'.packets[k] = b.packets[k]
      BY <1>4, <1>5, <2>1
    <2>5. ASSUME NEW k \in 1 .. b.number_packets + 1
          PROVE  LET q == b.start_packet_number + k - 1
                 IN  q \in Records(file)
                       /\ (Whole(file, q) => b'.packets[k] = Payload(file, q))
      <3>1. CASE k = b.number_packets + 1
        BY <1>3, <1>4, <2>2, <2>3, <3>1
      <3>2. CASE k \in 1 .. b.number_packets
        BY <1>6, <2>4, <3>2 DEF Faithful
      <3>3. k = b.number_packets + 1 \/ k \in 1 .. b.number_packets
        BY <1>5
      <3> QED
        BY <3>1, <3>2, <3>3
    <2>6. /\ Len(b'.packets) = b'.number_packets
          /\ b'.number_packets = b.number_packets + 1
          /\ b'.start_packet_number = b.start_packet_number
      BY <1>4, <1>5, <2>1
    <2> QED
      BY <1>1, <2>5, <2>6, Zenon DEF Faithful
  <1>15. PacketsFaithful'
    BY <1>1, <1>14 DEF IInv, PacketsFaithful, Faithful, queueVars
  <1>16. BatchesContiguous' /\ BatchesNotEmpty'
    <2>1. NextStart' = NextStart
      BY <1>1, <1>5 DEF NextStart
    <2>2. AfterBatch(b)' = packet_nr'
      BY <1>2, <1>5, <1>6 DEF AfterBatch
    <2> QED
      BY <1>1, <2>1, <2>2 DEF IInv, BatchesContiguous, BatchesNotEmpty, AfterBatch, queueVars
  <1> QED
    BY <1>10, <1>11, <1>12, <1>13, <1>15, <1>16 DEF IInv

\* The batch is complete.  When every record fits in a batch it holds a packet.
LEMMA EndBatchStep ==
  ASSUME IInv, DoesNotFit \/ ChunkConsumed
  PROVE  IInv'
  <1>1. /\ IsFile(file) /\ file' = file
        /\ ProducerAt("pack") /\ producer' = "push"
        /\ offset' \in Nat
        /\ UNCHANGED <<fileVars, queueVars, flagVars, process, current_offset_,
                       local_buffer_, packet_nr, buffered_packets>>
    BY DEF IInv, TypeOK, DoesNotFit, ChunkConsumed, Packing, packingVars, fileVars, REC_HEADER
  <1>2. TypeOK'
    BY <1>1 DEF IInv, TypeOK, fileVars, queueVars, flagVars, ProducerPCs
  <1>3. AtRecord' /\ FilePositioned' /\ BatchStarted' /\ BufferFilled'
    BY <1>1 DEF IInv, AtRecord, FilePositioned, BatchStarted, BufferFilled, InBatch
  <1>4. BatchNotEmpty'
    <2> SUFFICES ASSUME RecordsFit(file), HeadersPresent(file),
                        buffered_packets.number_packets = 0
                 PROVE  FALSE
      BY <1>1 DEF IInv, TypeOK, BatchNotEmpty, Batches
    <2> DEFINE r == packet_nr
    <2>1. /\ buffered_packets.start_packet_number = r
          /\ r \in Records(file)
      BY <1>1 DEF IInv, TypeOK, Batches, BatchesContiguous, AfterBatch, BatchStarted, InBatch
    <2>2. /\ NumRecords(file) \in Nat
          /\ file.size > file.starts[r]
          /\ file.starts[r] \in Nat
          /\ file.size \in Nat
      BY <1>1, <2>1, FileFacts DEF Records
    <2>3. current_offset_ = file.starts[r] /\ offset = 0
      BY <1>1, <2>1, <2>2 DEF IInv, AtRecord, BufferFilled, BatchBase, Records
    <2>4. BATCH_SIZE \in Nat /\ BATCH_SIZE > REC_HEADER
      BY PCAPFileAssumption
    <2>5. Packing
      BY <1>1, <2>2, <2>3, <2>4 DEF Packing, REC_HEADER
    <2>6. PICK len \in ParsedLengths : offset + REC_HEADER + len >= BATCH_SIZE
      BY <2>5 DEF DoesNotFit, ChunkConsumed
    <2>7. len = CapturedLength(file, r)
      BY <2>1, <2>3, <2>4, <2>5, ParsedLength DEF HeadersPresent, LENGTH_WORD, REC_HEADER
    <2>8. REC_HEADER + CapturedLength(file, r) < BATCH_SIZE /\ CapturedLength(file, r) \in Nat
      BY <1>1, <2>1, FileFacts DEF RecordsFit
    <2> QED
      BY <2>3, <2>4, <2>6, <2>7, <2>8 DEF REC_HEADER
  <1>5. PacketsFaithful'
    BY <1>1 DEF IInv, PacketsFaithful, Faithful, queueVars
  <1>6. BatchesContiguous' /\ BatchesNotEmpty'
    <2>1. NextStart' = NextStart
      BY <1>1 DEF NextStart
    <2> QED
      BY <1>1, <2>1 DEF IInv, BatchesContiguous, BatchesNotEmpty, AfterBatch, queueVars
  <1> QED
    BY <1>2, <1>3, <1>4, <1>5, <1>6 DEF IInv

\* The batch joins the queue where its place is, and the file is positioned at the
\* first record that was not packed.
LEMMA PushBatchStep ==
  ASSUME IInv, PushBatch
  PROVE  IInv'
  <1> DEFINE q == pcap_data_chunks_
             b == buffered_packets
  <1>1. /\ IsFile(file) /\ file' = file
        /\ producer = "push" /\ producer' = "loop"
        /\ q' = Append(q, b)
        /\ file_pos' = current_offset_
        /\ UNCHANGED <<file_open, packingVars, flagVars, handed, process>>
    BY DEF IInv, TypeOK, PushBatch
  <1>2. /\ q \in Seq(Batches) /\ b \in Batches
        /\ handed \in Nat /\ current_offset_ \in Nat
    BY DEF IInv, TypeOK
  <1>3. /\ Len(q) \in Nat
        /\ DOMAIN q = 1 .. Len(q)
        /\ q' \in Seq(Batches)
        /\ Len(q') = Len(q) + 1 /\ DOMAIN q' = 1 .. Len(q) + 1
        /\ q'[Len(q) + 1] = b
        /\ \A i \in 1 .. Len(q) : q'[i] = q[i]
        /\ q = <<>> <=> Len(q) = 0
    BY <1>1, <1>2
  <1>4. TypeOK'
    BY <1>1, <1>2, <1>3 DEF IInv, TypeOK, packingVars, flagVars, ProducerPCs
  <1>5. AtRecord' /\ FilePositioned' /\ BatchStarted' /\ BufferFilled' /\ BatchNotEmpty'
    BY <1>1 DEF IInv, AtRecord, FilePositioned, BatchStarted, BufferFilled, BatchNotEmpty,
       InBatch, packingVars
  <1>6. PacketsFaithful'
    <2>1. \A i \in 1 .. Len(q) + 1 : Faithful(q'[i])
      BY <1>1, <1>3 DEF IInv, PacketsFaithful
    <2> QED
      BY <1>1, <1>3, <2>1 DEF PacketsFaithful, Faithful
  <1>7. BatchesContiguous'
    <2>1. NextStart = b.start_packet_number /\ NextStart' = packet_nr
          /\ AfterBatch(b) = packet_nr
      BY <1>1 DEF IInv, BatchesContiguous, NextStart, packingVars
    <2>2. ASSUME NEW i \in 1 .. Len(q)
          PROVE  q'[i].start_packet_number
                   = IF i = 1 THEN handed + 1 ELSE AfterBatch(q'[i - 1])
      <3>1. i # 1 => i - 1 \in 1 .. Len(q)
        BY <1>3
      <3> QED
        BY <1>3, <3>1 DEF IInv, BatchesContiguous
    <2>3. q'[Len(q) + 1].start_packet_number
            = IF Len(q) + 1 = 1 THEN handed + 1 ELSE AfterBatch(q'[Len(q) + 1 - 1])
      <3>1. CASE Len(q) = 0
        BY <1>3, <2>1, <3>1 DEF IInv, BatchesContiguous
      <3>2. CASE Len(q) > 0
        <4>1. Len(q) \in 1 .. Len(q) /\ Len(q) + 1 - 1 = Len(q)
          BY <1>3, <3>2
        <4>2. AfterBatch(q[Len(q)]) = NextStart
          BY <1>3, <4>1 DEF IInv, BatchesContiguous
        <4> QED
          BY <1>3, <2>1, <3>2, <4>1, <4>2
      <3> QED
        BY <1>3, <3>1, <3>2
    <2>4. AfterBatch(q'[Len(q) + 1]) = NextStart'
      BY <1>3, <2>1
    <2>5. \A i \in 1 .. Len(q) + 1 :
            q'[i].start_packet_number = IF i = 1 THEN handed + 1 ELSE AfterBatch(q'[i - 1])
      BY <1>3, <2>2, <2>3
    <2> QED
      BY <1>1, <1>3, <2>4, <2>5 DEF BatchesContiguous, AfterBatch
  <1>8. BatchesNotEmpty'
    <2>1. ASSUME RecordsFit(file), HeadersPresent(file), NEW i \in 1 .. Len(q) + 1
          PROVE  q'[i].number_packets > 0
      <3>1. CASE i = Len(q) + 1
        BY <1>1, <1>3, <2>1, <3>1 DEF IInv, BatchNotEmpty
      <3>2. CASE i \in 1 .. Len(q)
        BY <1>3, <2>1, <3>2 DEF IInv, BatchesNotEmpty
      <3> QED
        BY <1>3, <3>1, <3>2
    <2> QED
      BY <1>1, <1>3, <2>1 DEF BatchesNotEmpty
  <1> QED
    BY <1>4, <1>5, <1>6, <1>7, <1>8 DEF IInv

\* The batch handed out is the one at the head of the queue.
LEMMA NextBatchStep ==
  ASSUME IInv, NextBatch
  PROVE  IInv'
  <1> DEFINE q == pcap_data_chunks_
  <1>1. /\ IsFile(file) /\ file' = file
        /\ q # <<>>
        /\ q' = Tail(q)
        /\ handed' = handed + q[1].number_packets
        /\ UNCHANGED <<fileVars, packingVars, flagVars, producer, process>>
    BY DEF IInv, TypeOK, NextBatch, fileVars
  <1>2. q \in Seq(Batches) /\ handed \in Nat
    BY DEF IInv, TypeOK
  <1>3. /\ Len(q) \in Nat \ {0}
        /\ DOMAIN q = 1 .. Len(q)
        /\ q' \in Seq(Batches)
        /\ Len(q') = Len(q) - 1 /\ DOMAIN q' = 1 .. Len(q) - 1
        /\ \A i \in 1 .. Len(q) - 1 : q'[i] = q[i + 1] /\ i + 1 \in 1 .. Len(q)
        /\ q' = <<>> <=> Len(q) = 1
        /\ q[1] \in Batches
        /\ 1 \in 1 .. Len(q)
    <2>1. Len(q) \in Nat \ {0} /\ DOMAIN q = 1 .. Len(q)
      BY <1>1, <1>2
    <2>2. q' \in Seq(Batches) /\ Len(q') = Len(q) - 1
      BY <1>1, <1>2, <2>1
    <2>3. \A i \in 1 .. Len(q) - 1 : q'[i] = q[i + 1] /\ i + 1 \in 1 .. Len(q)
      BY <1>1, <1>2, <2>1
    <2>4. q[1] \in Batches /\ 1 \in 1 .. Len(q)
      BY <1>2, <2>1
    <2>5. DOMAIN q' = 1 .. Len(q) - 1
      BY <2>2
    <2>6. q' = <<>> <=> Len(q') = 0
      BY <2>2
    <2>7. q' = <<>> <=> Len(q) = 1
      BY <2>1, <2>2, <2>6
    <2> QED
      BY <2>1, <2>2, <2>3, <2>4, <2>5, <2>7
  <1>4. q[1].start_packet_number \in Nat /\ q[1].number_packets \in Nat
    BY <1>3 DEF Batches
  <1>5. TypeOK'
    BY <1>1, <1>2, <1>3, <1>4
       DEF IInv, TypeOK, fileVars, packingVars, flagVars
  <1>6. AtRecord' /\ FilePositioned' /\ BatchStarted' /\ BufferFilled' /\ BatchNotEmpty'
    BY <1>1 DEF IInv, AtRecord, FilePositioned, BatchStarted, BufferFilled, BatchNotEmpty,
       BatchBase, InBatch, packingVars, fileVars
  <1>7. PacketsFaithful'
    BY <1>1, <1>3 DEF IInv, PacketsFaithful, Faithful, packingVars
  <1>8. BatchesContiguous'
    <2>1. NextStart' = NextStart /\ AfterBatch(buffered_packets)' = AfterBatch(buffered_packets)
      BY <1>1 DEF NextStart, AfterBatch, packingVars
    <2>2. handed' + 1 = AfterBatch(q[1])
      <3>1. q[1].start_packet_number = handed + 1
        BY <1>3 DEF IInv, BatchesContiguous
      <3>2. handed' + 1 = (handed + 1) + q[1].number_packets
        <4>1. handed' = handed + q[1].number_packets
          BY <1>1
        <4>2. handed \in Nat /\ q[1].number_packets \in Nat
          BY <1>2, <1>4
        <4> HIDE DEF q
        <4> QED
          BY <4>1, <4>2
      <3> QED
        BY <3>1, <3>2 DEF AfterBatch
    <2>3. ASSUME NEW i \in 1 .. Len(q) - 1
          PROVE  /\ q'[i].start_packet_number
                      = IF i = 1 THEN handed' + 1 ELSE AfterBatch(q'[i - 1])
                 /\ i = Len(q) - 1 => AfterBatch(q'[i]) = NextStart
      <3>1. /\ q'[i] = q[i + 1] /\ i + 1 \in DOMAIN q /\ i + 1 # 1 /\ (i + 1) - 1 = i
            /\ i # 1 => q'[i - 1] = q[(i - 1) + 1] /\ (i - 1) + 1 = i
        BY <1>3
      <3>2. /\ q[i + 1].start_packet_number = AfterBatch(q[i])
            /\ i + 1 = Len(q) => AfterBatch(q[i + 1]) = NextStart
        BY <3>1 DEF IInv, BatchesContiguous
      <3>3. q'[i].start_packet_number = IF i = 1 THEN handed' + 1 ELSE AfterBatch(q'[i - 1])
        BY <2>2, <3>1, <3>2
      <3>4. i = Len(q) - 1 => i + 1 = Len(q)
        BY <1>3
      <3> QED
        BY <3>1, <3>2, <3>3, <3>4
    <2>4. Len(q) = 1 => handed' + 1 = NextStart
      BY <1>3, <2>2 DEF IInv, BatchesContiguous
    <2> QED
      BY <1>1, <1>3, <2>1, <2>3, <2>4 DEF IInv, BatchesContiguous, AfterBatch, packingVars
  <1>9. BatchesNotEmpty'
    BY <1>1, <1>3 DEF IInv, BatchesNotEmpty
  <1> QED
    BY <1>5, <1>6, <1>7, <1>8, <1>9 DEF IInv

-----------------------------------------------------------------------------
(***************************************************************************)
(* The theorems.                                                           *)
(***************************************************************************)
LEMMA InitIInv ==
  ASSUME Init
  PROVE  IInv
  <1>1. IsFile(file)
    BY PCAPFileAssumption DEF Init
  <1>2. /\ NumRecords(file) \in Nat
        /\ file.starts[1] = HEADER_SIZE
        /\ file.size <= file.starts[NumRecords(file) + 1]
    BY <1>1, FileFacts
  <1>3. BATCH_SIZE \in Nat
    BY PCAPFileAssumption
  <1>4. TypeOK
    <2>1. local_buffer_ \in [0 .. BATCH_SIZE - 1 -> Nat \cup {ZERO}]
      BY DEF Init
    <2>2. <<>> \in Seq(Seq(Nat \cup {ZERO})) /\ <<>> \in Seq(Batches)
      OBVIOUS
    <2>3. buffered_packets \in Batches
      BY <2>2 DEF Init, EmptyBatch, Batches
    <2>4. pcap_data_chunks_ \in Seq(Batches)
      BY <2>2 DEF Init
    <2>5. /\ file_pos \in Nat /\ current_offset_ \in Nat /\ offset \in Nat
          /\ packet_nr \in Nat \ {0} /\ handed \in Nat
      BY DEF Init, HEADER_SIZE
    <2>6. /\ file_open \in BOOLEAN /\ is_started_ \in BOOLEAN /\ waiting \in BOOLEAN
          /\ producer \in ProducerPCs /\ process \in {"running", "terminated", "exited"}
      BY Zenon DEF Init, ProducerPCs
    <2> QED
      BY <1>1, <2>1, <2>3, <2>4, <2>5, <2>6 DEF TypeOK
  <1>5. AtRecord
    <2>1. CASE NumRecords(file) = 0
      BY <1>2, <2>1 DEF Init, AtRecord
    <2>2. CASE NumRecords(file) > 0
      BY <1>2, <2>2 DEF Init, AtRecord
    <2> QED
      BY <1>2, <2>1, <2>2
  <1>6. FilePositioned /\ BatchStarted /\ BufferFilled /\ BatchNotEmpty
    BY DEF Init, FilePositioned, BatchStarted, BufferFilled, BatchNotEmpty, InBatch
  <1>7. PacketsFaithful /\ BatchesContiguous /\ BatchesNotEmpty
    BY DEF Init, PacketsFaithful, BatchesContiguous, BatchesNotEmpty, NextStart
  <1> QED
    BY <1>4, <1>5, <1>6, <1>7 DEF IInv

LEMMA NextIInv ==
  ASSUME IInv, [Next]_bufferVars
  PROVE  IInv'
  <1> USE DEF IInv, TypeOK, fileVars, packingVars, flagVars, queueVars, InBatch, ProducerPCs
  <1>1. CASE StartBuffering
    BY <1>1, ControlStep DEF StartBuffering
  <1>2. CASE SetStarted
    BY <1>2, ControlStep DEF SetStarted
  <1>3. CASE NotifyOne
    BY <1>3, ControlStep DEF NotifyOne
  <1>4. CASE EnterLoop
    BY <1>4, ControlStep DEF EnterLoop, MoreToRead
  <1>5. CASE LeaveLoop
    BY <1>5, ControlStep DEF LeaveLoop
  <1>6. CASE ReadChunk
    BY <1>6, ReadChunkStep
  <1>7. CASE PackPacket
    BY <1>7, PackPacketStep
  <1>8. CASE DoesNotFit \/ ChunkConsumed
    BY <1>8, EndBatchStep
  <1>9. CASE PushBatch
    BY <1>9, PushBatchStep
  <1>10. CASE ClearStarted
    BY <1>10, ControlStep DEF ClearStarted
  <1>11. CASE ReadFails
    BY <1>11, ControlStep DEF ReadFails
  <1>12. CASE WaitBlocks
    BY <1>12, ControlStep DEF WaitBlocks
  <1>13. CASE SpuriousWake
    BY <1>13, ControlStep DEF SpuriousWake
  <1>14. CASE NextBatch
    BY <1>14, NextBatchStep
  <1>15. CASE Stop
    BY <1>15, ControlStep DEF Stop
  <1>16. CASE ProcessEnds
    BY <1>16, ControlStep DEF ProcessEnds
  <1>17. CASE UNCHANGED bufferVars
    BY <1>17, ControlStep DEF bufferVars
  <1> QED
    BY <1>1, <1>2, <1>3, <1>4, <1>5, <1>6, <1>7, <1>8, <1>9, <1>10, <1>11, <1>12, <1>13,
       <1>14, <1>15, <1>16, <1>17 DEF Next, ProducerStep

\* The inductive invariant holds of PCAPBuffer.
THEOREM Invariance == Spec => []IInv
  <1>1. Init => IInv
    BY InitIInv
  <1>2. IInv /\ [Next]_bufferVars => IInv'
    BY NextIInv
  <1> QED
    BY <1>1, <1>2, PTL DEF Spec

\* Every variable of PCAPBuffer keeps its type; in particular no position of the file
\* or of local_buffer_ that start_buffering() computes is ever negative.
THEOREM TypeCorrectness == Spec => []TypeOK
  <1>1. IInv => TypeOK
    BY DEF IInv
  <1> QED
    BY <1>1, Invariance, PTL

\* No packet that start_buffering() puts in a batch is made of stale or misplaced
\* words, whatever the client does.
THEOREM PacketsAreFaithful == Spec => []PacketsFaithful
  <1>1. IInv => PacketsFaithful
    BY DEF IInv
  <1> QED
    BY <1>1, Invariance, PTL

\* next_batch() hands the packets out in the order of the capture, without a gap and
\* without a repetition.
THEOREM BatchesAreContiguous == Spec => []BatchesContiguous
  <1>1. IInv => BatchesContiguous
    BY DEF IInv
  <1> QED
    BY <1>1, Invariance, PTL

\* start_buffering() queues no empty batch when every record fits in a batch: every
\* pass of its outer loop gets further in the capture.
THEOREM BatchesAreNotEmpty == Spec => []BatchesNotEmpty
  <1>1. IInv => BatchesNotEmpty
    BY DEF IInv
  <1> QED
    BY <1>1, Invariance, PTL
=============================================================================
