---------------------------- MODULE MCPCAPBuffer ----------------------------
(***************************************************************************)
(* Model checking PCAPBuffer alone, over every layout of at most three     *)
(* records.  A batch is 12 words: it holds at most two packets, and the    *)
(* lengths are chosen so that a record can end 2 words before the end of   *)
(* the buffer (the next header is copied from beyond it), at its very end, *)
(* or anywhere else.                                                       *)
(***************************************************************************)
EXTENDS PCAPBuffer, MCPCAPFile

MCLengths == {0, 1, 2, 4, 7}

MCFiles ==
  {Complete(l) : l \in Layouts(MCLengths, 3)}
    \cup UNION {Truncations(l) : l \in Layouts({0, 1, 4}, 3) \ {<<>>}}

MCCapturedLengths == {0, 1, 5, 9}
=============================================================================
