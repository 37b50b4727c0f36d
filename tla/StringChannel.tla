--------------------------- MODULE StringChannel ----------------------------
(***************************************************************************)
(* What write_str() and read_str() promise together: a first-in first-out  *)
(* channel of strings.  The strings are numbered in the order of the calls *)
(* of write_str().                                                         *)
(***************************************************************************)
EXTENDS Naturals, Sequences

VARIABLES
  sent,      \* calls of write_str()
  acked,     \* those that returned true
  delivered  \* the strings that the reader got

vars == <<sent, acked, delivered>>

Init == sent = 0 /\ acked = 0 /\ delivered = <<>>

(* The next call is made after the one before was successful.              *)
Send == sent = acked /\ sent' = sent + 1 /\ UNCHANGED <<acked, delivered>>

Acknowledge == acked < sent /\ acked' = acked + 1 /\ UNCHANGED <<sent, delivered>>

Deliver ==
  /\ Len(delivered) < acked
  /\ delivered' = Append(delivered, Len(delivered) + 1)
  /\ UNCHANGED <<sent, acked>>

Next == Send \/ Acknowledge \/ Deliver

Spec == Init /\ [][Next]_vars

=============================================================================
