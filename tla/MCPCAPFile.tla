----------------------------- MODULE MCPCAPFile -----------------------------
(***************************************************************************)
(* Small capture files for the model checker.                              *)
(***************************************************************************)
EXTENDS Integers, Sequences, SequencesExt

\* The starts of the records with the given captured lengths, after the global
\* header of 6 words, with a record header of 4 words.
StartsOf(lens) == FoldLeft(LAMBDA s, l : Append(s, s[Len(s)] + 4 + l), <<6>>, lens)

Capture(lens, cut, open, magic, poison) ==
  LET s == StartsOf(lens) IN
  [starts |-> s, size |-> s[Len(s)] - cut, openable |-> open, magic |-> magic,
   poison |-> poison]

\* A capture written whole.
Complete(lens) == Capture(lens, 0, TRUE, TRUE, {})

\* Captures whose last record is short of 1 or more words.
Truncations(lens) ==
  {Capture(lens, c, TRUE, TRUE, {}) : c \in 1 .. (3 + lens[Len(lens)])}

\* Every sequence of at most n captured lengths from S.
Layouts(S, n) == UNION {[1 .. k -> S] : k \in 0 .. n}
=============================================================================
