------------------------------ MODULE PCAPFile ------------------------------
(***************************************************************************)
(* The capture file as the program sees it.  The unit of length is a       *)
(* 4-byte word.  A word is named by its position in the file, so a packet  *)
(* is the sequence of the file positions its words were copied from, and a *)
(* word that was never read from the file is ZERO.                         *)
(***************************************************************************)
EXTENDS Integers, Sequences

CONSTANTS
  BATCH_SIZE,       \* words in local_buffer_ (16 MB in the code)
  CapturedLengths,  \* values captured_length can have when garbage is parsed
  Files             \* the capture files considered

HEADER_SIZE == 6    \* sizeof(pcap_hdr_t) is 24 bytes
REC_HEADER  == 4    \* sizeof(pcaprec_hdr_s) is 16 bytes
LENGTH_WORD == 2    \* captured_length follows ts_sec and ts_usec
ZERO        == -1   \* the initial content of local_buffer_

(***************************************************************************)
(* f.starts[i] is where the header of record i begins.  The last element   *)
(* is where the last record would end, had the capture been written whole: *)
(* f.size is smaller when the capture was cut short inside that record, or *)
(* inside the global header when there is no record.                       *)
(***************************************************************************)
NumRecords(f) == Len(f.starts) - 1

Records(f) == 1 .. NumRecords(f)

IsFile(f) ==
  /\ f.starts \in Seq(Nat)
  /\ Len(f.starts) >= 1
  /\ f.starts[1] = HEADER_SIZE
  /\ \A i \in Records(f) : f.starts[i + 1] >= f.starts[i] + REC_HEADER
  /\ f.size \in Nat
  /\ f.size <= f.starts[Len(f.starts)]
  /\ \A i \in Records(f) : f.size > f.starts[i]
  /\ f.openable \in BOOLEAN      \* std::ifstream could open it
  /\ f.magic \in BOOLEAN         \* its magic number is 0xa1b23c4d
  /\ f.poison \subseteq Records(f)  \* records whose processing throws

ASSUME PCAPFileAssumption ==
  /\ BATCH_SIZE \in Nat /\ BATCH_SIZE > REC_HEADER
  /\ CapturedLengths \subseteq Nat
  /\ \A f \in Files : IsFile(f)

CapturedLength(f, r) == f.starts[r + 1] - f.starts[r] - REC_HEADER

\* The record was written to the file in full.
Whole(f, r) == f.starts[r + 1] <= f.size

Payload(f, r) ==
  [j \in 1 .. CapturedLength(f, r) |-> f.starts[r] + REC_HEADER + j - 1]

\* The words of the file that hold a captured_length.
LengthWords(f) == {f.starts[r] + LENGTH_WORD : r \in Records(f)}

\* What a word read as a captured_length stands for.
LengthsAt(f, w) ==
  CASE w = ZERO            -> {0}
    [] w \in LengthWords(f) ->
         {CapturedLength(f, r) : r \in {q \in Records(f) : f.starts[q] + LENGTH_WORD = w}}
    [] OTHER               -> CapturedLengths

(***************************************************************************)
(* Conditions on a file under which the liveness properties are stated.    *)
(***************************************************************************)
\* Every record is shorter than a batch.
RecordsFit(f) == \A r \in Records(f) : REC_HEADER + CapturedLength(f, r) < BATCH_SIZE

\* The file is not cut short before the captured_length of its last record.
HeadersPresent(f) == \A r \in Records(f) : f.starts[r] + LENGTH_WORD < f.size
=============================================================================
