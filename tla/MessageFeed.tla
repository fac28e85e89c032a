----------------------------- MODULE MessageFeed -----------------------------
(***************************************************************************)
(* What the handlers of main() are promised: packets are taken one after   *)
(* the other, and each contributes its own messages and nothing else,      *)
(* whatever the packets before it were.                                    *)
(***************************************************************************)
EXTENDS Naturals, Sequences

CONSTANTS
  Frames,            \* the packets considered
  IsFeedOf(_, _, _)  \* whether a packet may contribute these messages, for the handlers

VARIABLES
  handlers,          \* the handlers installed
  arrived,           \* the packets taken
  feeds              \* the messages each of them contributed

feedVars == <<handlers, arrived, feeds>>

FeedInit == arrived = <<>> /\ feeds = <<>>

\* A packet is taken, with messages it may contribute.
Take(f, items) ==
  /\ IsFeedOf(handlers, f, items)
  /\ arrived' = Append(arrived, f)
  /\ feeds' = Append(feeds, items)
  /\ UNCHANGED handlers

FeedNext ==
  /\ Len(feeds') = Len(feeds) + 1
  /\ \E f \in Frames : Take(f, feeds'[Len(feeds) + 1])

FeedSpec == FeedInit /\ [][FeedNext]_feedVars
==============================================================================
