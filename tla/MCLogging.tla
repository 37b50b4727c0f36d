----------------------------- MODULE MCLogging -----------------------------
EXTENDS Logging

CONSTANTS A, B

MCTwo == {A, B}

(* A bound: processes compete for the lock, or one of them indents what it *)
(* logs to a stream, pieces not counted, with a level that may change and  *)
(* a lock that may fail.  A behaviour leaves the bound only by a call.     *)
OneSubject ==
  (fails \/ dynamic \/ \E p \in Procs : blocks[p] # <<>> \/ flag[p] # "plain") =>
    /\ kind = "stream"
    /\ \E p \in Procs :
         todo[p] = 0 /\ \A q \in Procs \ {p} : calls[q] = 0 /\ blocks[q] = <<>> /\ pc[q] = "idle"

=============================================================================
