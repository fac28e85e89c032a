--------------------------- MODULE MCPCAPProcessor ---------------------------
(***************************************************************************)
(* Model checking the two threads and the main thread.  A batch is 12      *)
(* words, so a record of 4 words of payload leaves room for no other and   *)
(* every capture below is cut into at most four batches: MaxChunks never   *)
(* blocks the producer.                                                    *)
(***************************************************************************)
EXTENDS PCAPProcessor, MCPCAPFile

Unusable ==
  { Capture(<<>>, 6, TRUE, FALSE, {}),       \* an empty file
    Capture(<<>>, 2, TRUE, FALSE, {}),       \* shorter than the global header
    Capture(<<1>>, 0, FALSE, TRUE, {}),      \* cannot be opened
    Capture(<<1>>, 0, TRUE, FALSE, {}) }     \* another magic number

Damaged ==
  { Capture(<<4, 1, 1>>, 0, TRUE, TRUE, {3}),  \* the processing of the last packet throws
    Capture(<<1, 4, 1>>, 0, TRUE, TRUE, {1}),  \* that of the first
    Capture(<<4, 4>>, 3, TRUE, TRUE, {}),      \* cut in a payload
    Capture(<<1, 4>>, 6, TRUE, TRUE, {}) }     \* cut in a header

MCFiles == Unusable \cup Damaged \cup {Complete(l) : l \in Layouts({1, 4}, 4)}

MCCapturedLengths == {0, 1}
=============================================================================
