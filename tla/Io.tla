--------------------------------- MODULE Io ---------------------------------
(***************************************************************************)
(* io.c: strings with a length in front of them, written by one process    *)
(* and read by another through a pipe or a socket.                         *)
(*                                                                         *)
(* Every write() and read() transfers as much as the kernel likes, so a    *)
(* step of the model is one system call, and the calls of the two          *)
(* processes interleave.  A call that is interrupted (EINTR) is repeated:  *)
(* that changes nothing and needs no action.                               *)
(*                                                                         *)
(* The byte <<k, i>> is the i-th byte of what write_str() writes for its   *)
(* k-th string: the first Header bytes are the length in big endian, the   *)
(* others are the string.                                                  *)
(*                                                                         *)
(* Both callers stop at the first failure: after it nobody knows where in  *)
(* the stream the next string begins.                                      *)
(***************************************************************************)
EXTENDS Integers, Sequences, SequencesExt

CONSTANTS
  Header,      \* sizeof(uint32_t)
  U32Max,      \* the greatest uint32_t
  Lengths,     \* the lengths of the strings that are written
  Rooms,       \* the sizes of the buffers that read_str() and read_eof() get
  Capacity,    \* bytes the pipe holds
  MaxStrings   \* bound: calls of write_str()

(* That the length of a string fits in its header is left to the callers   *)
(* of write_str(), which has a size_t.                                     *)
ASSUME LengthAssumption ==
  /\ Header \in Nat \ {0} /\ U32Max \in Nat /\ Capacity \in Nat \ {0}
  /\ Lengths \subseteq 0 .. U32Max
  /\ Rooms \subseteq Nat /\ MaxStrings \in Nat

VARIABLES
  w,         \* the writer: phase, length of its string, bytes left to write;
             \* "ok" until write_str() returned false
  r,         \* the reader: the call, its phase, its buffer and what is in it
  pipe,      \* the bytes in the pipe
  open,      \* does the writer have its end open?
  lens,      \* the lengths of the strings write_str() was called with
  acked,     \* how many of these calls returned true
  delivered  \* what the calls of the reader returned

vars == <<w, r, pipe, open, lens, acked, delivered>>

wrap32(n) == n % (U32Max + 1)

Byte == (1 .. MaxStrings) \X (1 .. Header + U32Max)

(* Bytes "from" to "to" of what write_str() writes for string k.           *)
Bytes(k, from, to) == [i \in 1 .. to - from + 1 |-> <<k, from + i - 1>>]

Smaller(a, b) == IF a < b THEN a ELSE b

-----------------------------------------------------------------------------
(* write_str() and the write_all() in it.                                  *)

Writing == open /\ w.ok /\ w.at # "idle"

(* Seeded fault: only the header is written.                               *)
header_only(q) == IF q.left > 0 THEN q ELSE [q EXCEPT !.at = "idle"]

(* write_all() returned: the header is followed by the string, if there is *)
(* anything to write.                                                      *)
NextPhase(q) ==
  IF q.left > 0 THEN q
  ELSE IF q.at = "head" /\ q.len > 0 THEN [q EXCEPT !.at = "body", !.left = q.len]
  ELSE [q EXCEPT !.at = "idle"]

WriteStr(len) ==
  /\ open /\ w.ok /\ w.at = "idle" /\ Len(lens) < MaxStrings
  /\ w' = [at |-> "head", len |-> len, left |-> Header, ok |-> TRUE]
  /\ lens' = Append(lens, len)
  /\ UNCHANGED <<r, pipe, open, acked, delivered>>

(* Seeded fault: the pointer into the data is not advanced.                *)
written_from_start(n) ==
  IF w.at = "head" THEN Bytes(Len(lens), 1, n)
  ELSE Bytes(Len(lens), Header + 1, Header + n)

(* The byte that the writer has to write next.                             *)
NextToWrite ==
  CASE w.at = "idle" -> <<Len(lens) + 1, 1>>
    [] w.at = "head" -> <<Len(lens), Header - w.left + 1>>
    [] w.at = "body" -> <<Len(lens), Header + w.len - w.left + 1>>

(* The next n bytes of what is being written.                              *)
written(n) == Bytes(Len(lens), NextToWrite[2], NextToWrite[2] + n - 1)

(* Nothing can be written when the reader is gone.                         *)
Write(n) ==
  /\ Writing /\ r.at # "stopped"
  /\ n \in 1 .. Smaller(w.left, Capacity - Len(pipe))
  /\ pipe' = pipe \o written(n)
  /\ w' = NextPhase([w EXCEPT !.left = @ - n])
  /\ acked' = IF w'.at = "idle" THEN acked + 1 ELSE acked
  /\ UNCHANGED <<r, open, lens, delivered>>

(* An error, or nothing written: write_str() returns false.                *)
WriteFails ==
  /\ Writing
  /\ w' = [w EXCEPT !.ok = FALSE]
  /\ UNCHANGED <<r, pipe, open, lens, acked, delivered>>

(* close(), or the end of the process at any time.                         *)
CloseWriter ==
  /\ open
  /\ open' = FALSE
  /\ UNCHANGED <<w, r, pipe, lens, acked, delivered>>

-----------------------------------------------------------------------------
(* read_str(), read_stra() and read_eof(), and the read_all() in them.     *)

Reading == r.at \in {"head", "body", "rest"}

Stopped(q) == [q EXCEPT !.at = "stopped", !.left = 0]

(* Seeded fault: the bytes are not swapped on a little endian machine.     *)
length_not_swapped(h) == {wrap32(lens[h[1][1]] * ((U32Max + 1) \div 2))}

(* What the length may be after these bytes were read as a header.         *)
be32toh(h) ==
  IF \E k \in 1 .. Len(lens) : h = Bytes(k, 1, Header)
  THEN {wrap32(lens[h[1][1]])}
  ELSE 0 .. U32Max

(* The number of the string that these bytes are, 0 if they are not one.   *)
StringOf(b) ==
  LET is == {k \in 1 .. Len(lens) : b = Bytes(k, Header + 1, Header + lens[k])}
  IN IF is = {} THEN 0
     ELSE IF Len(delivered) + 1 \in is THEN Len(delivered) + 1
     ELSE CHOOSE k \in is : TRUE

Returns(b) ==
  /\ r' = [Stopped(r) EXCEPT !.at = "idle", !.buf = <<>>]
  /\ delivered' = Append(delivered, StringOf(b))

Fails ==
  /\ r' = Stopped(r)
  /\ UNCHANGED delivered

ReadStr(call, room) ==
  /\ r.at = "idle"
  /\ r' = [call |-> call, at |-> "head", room |-> room, left |-> Header, buf |-> <<>>]
  /\ UNCHANGED <<w, pipe, open, lens, acked, delivered>>

(* A buffer of no bytes is too small at once.                              *)
ReadEof(room) ==
  /\ r.at = "idle"
  /\ r' = [call |-> "read_eof", at |-> IF room > 0 THEN "rest" ELSE "stopped",
           room |-> room, left |-> room, buf |-> <<>>]
  /\ UNCHANGED <<w, pipe, open, lens, acked, delivered>>

(* Seeded fault: the byte for the NUL is forgotten.                        *)
fits_without_nul(slen) == r.call = "read_stra" \/ slen <= r.room

(* Is there room for a string of that length?  read_stra() makes room.     *)
fits(slen) == r.call = "read_stra" \/ slen < r.room

Allocated(slen) == IF r.call = "read_stra" THEN wrap32(slen + 1) ELSE r.room

(* The header is complete.  malloc() may fail in read_stra().  If slen + 1 *)
(* is 0 in 32 bits, read() gets a buffer without memory behind it: what    *)
(* the reader does after that is undefined and not followed.               *)
HeaderRead(h) ==
  \E slen \in be32toh(h) :
    IF slen = 0 /\ fits(0) THEN Returns(<<>>)
    ELSE \/ /\ fits(slen)
            /\ r' = [r EXCEPT !.at = IF slen < Allocated(slen) THEN "body" ELSE "overrun",
                              !.room = Allocated(slen), !.left = slen, !.buf = <<>>]
            /\ UNCHANGED delivered
         \/ (~ fits(slen) \/ r.call = "read_stra") /\ Fails

(* read_eof() wants to see the end of the file before its buffer is full.  *)
Read(n) ==
  /\ Reading /\ n \in 1 .. Smaller(r.left, Len(pipe))
  /\ pipe' = SubSeq(pipe, n + 1, Len(pipe))
  /\ LET b == r.buf \o SubSeq(pipe, 1, n) IN
     IF n < r.left
     THEN r' = [r EXCEPT !.left = @ - n, !.buf = b] /\ UNCHANGED delivered
     ELSE CASE r.at = "head" -> HeaderRead(b)
            [] r.at = "body" -> Returns(b)
            [] r.at = "rest" -> Fails
  /\ UNCHANGED <<w, open, lens, acked>>

(* Seeded fault: 0 is taken for an interrupted call.                       *)
end_is_retried ==
  /\ r.at = "rest" /\ r.left > 0 /\ pipe = <<>> /\ ~ open
  /\ r' = [Stopped(r) EXCEPT !.at = "complete"]
  /\ UNCHANGED <<w, pipe, open, lens, acked, delivered>>

(* read() returns 0.  Only read_eof() wanted that.                         *)
ReadEnd ==
  /\ Reading /\ r.left > 0 /\ pipe = <<>> /\ ~ open
  /\ r' = [Stopped(r) EXCEPT !.at = IF r.at = "rest" THEN "complete" ELSE "stopped"]
  /\ UNCHANGED <<w, pipe, open, lens, acked, delivered>>

(* read() fails.                                                           *)
ReadFails ==
  /\ Reading
  /\ Fails
  /\ UNCHANGED <<w, pipe, open, lens, acked>>

-----------------------------------------------------------------------------
Init ==
  /\ w = [at |-> "idle", len |-> 0, left |-> 0, ok |-> TRUE]
  /\ r = [call |-> "none", at |-> "idle", room |-> 0, left |-> 0, buf |-> <<>>]
  /\ pipe = <<>> /\ open = TRUE
  /\ lens = <<>> /\ acked = 0 /\ delivered = <<>>

WriterGoesOn == WriteFails \/ \E n \in 1 .. Capacity : Write(n)

ReaderCalls ==
  \/ \E room \in Rooms : ReadStr("read_str", room) \/ ReadEof(room)
  \/ ReadStr("read_stra", 0)

ReaderGoesOn == ReadEnd \/ \E n \in 1 .. Capacity : Read(n)

Next ==
  \/ \E len \in Lengths : WriteStr(len)
  \/ WriterGoesOn
  \/ CloseWriter
  \/ ReaderCalls
  \/ ReaderGoesOn
  \/ ReadFails

Spec == Init /\ [][Next]_vars

(* Both processes are scheduled again and again, and the reader goes on    *)
(* calling as long as it is told that all is well.  Nothing is assumed of  *)
(* the calls of the writer, of failures or of close().                     *)
FairSpec ==
  Spec /\ WF_vars(WriterGoesOn) /\ WF_vars(ReaderCalls) /\ WF_vars(ReaderGoesOn)

-----------------------------------------------------------------------------
(* Properties.                                                             *)

(* Between what the reader has returned and what the writer has still to   *)
(* write there is every byte once, in its order, however the transfers of  *)
(* both were cut into pieces: the bytes in the reader's buffer, then those *)
(* in the pipe.  For a read_eof() that succeeded this means that it has    *)
(* all that was ever written.                                              *)
Follows(b) ==
  IF b[2] < Header + lens[b[1]] THEN <<b[1], b[2] + 1>> ELSE <<b[1] + 1, 1>>

NextToRead == <<Len(delivered) + 1, IF r.at = "body" THEN Header + 1 ELSE 1>>

StreamInOrder ==
  r.at \notin {"stopped", "overrun"} =>
    LET b == r.buf \o pipe IN
    /\ \A i \in 1 .. Len(b) - 1 : b[i + 1] = Follows(b[i])
    /\ IF b = <<>> THEN NextToRead = NextToWrite
       ELSE Head(b) = NextToRead /\ Follows(Last(b)) = NextToWrite

(* What is read, and the NUL byte behind it, stays inside of the buffer    *)
(* that read_str() got or read_stra() allocated, with one exception: for   *)
(* the string of the greatest length a header can hold, and for no other,  *)
(* read_stra() allocates too little.                                       *)
BufferFits ==
  /\ r.at = "body" => Len(r.buf) + r.left + 1 <= r.room
  /\ r.at = "rest" => Len(r.buf) + r.left <= r.room
  /\ r.at = "overrun" => r.call = "read_stra" /\ lens[Len(delivered) + 1] = U32Max

Abstract == INSTANCE StringChannel WITH sent <- Len(lens)

(* The two ends are a channel of whole strings: the reader gets the        *)
(* strings that write_str() returned true for, each once, unchanged and in *)
(* their order, and never a part of one that failed or was cut off.        *)
Refinement == Abstract!Spec

(* A string that write_str() returned true for reaches a reader that goes  *)
(* on reading strings, unless one of its calls fails first (or read_stra() *)
(* meets a string of the greatest length).                                 *)
AckedIsDelivered ==
  \A k \in 1 .. MaxStrings :
    acked >= k ~> Len(delivered) >= k \/ r.at \in {"stopped", "overrun"}
                  \/ r.call = "read_eof"

(* A reader notices that the writer is gone, even inside of a string       *)
(* (again without the string of the greatest length).                      *)
EndIsNoticed == ~ open ~> r.at \in {"stopped", "complete", "overrun"}

=============================================================================
