--------------------------- MODULE PacketDelivery ---------------------------
(***************************************************************************)
(* What the reader of a capture promises to the decoder, whatever the two  *)
(* threads do: the packets come in the order of the file, each at most     *)
(* once, and each with the words of its record.  The delivery may end      *)
(* before the last packet, and nothing is delivered after it has ended.    *)
(***************************************************************************)
EXTENDS PCAPFile

VARIABLES
  file,       \* the capture
  delivered,  \* the packets handed to the packet processor, in order
  outcome     \* running, finished, terminated or exited

vars == <<file, delivered, outcome>>

Init ==
  /\ file \in Files
  /\ delivered = <<>>
  /\ outcome = "running"

\* One more packet: the payload of the next record.  A record cut short by the end of
\* the file may be delivered with any content.
Deliver ==
  LET r == Len(delivered) + 1 IN
  /\ outcome = "running"
  /\ r \in Records(file)
  /\ Len(delivered') = r
  /\ delivered' = Append(delivered, delivered'[r])
  /\ Whole(file, r) => delivered'[r] = Payload(file, r)
  /\ UNCHANGED <<file, outcome>>

End ==
  /\ outcome = "running"
  /\ outcome' \in {"finished", "terminated", "exited"}
  /\ UNCHANGED <<file, delivered>>

Next == Deliver \/ End

Spec == Init /\ [][Next]_vars
=============================================================================
