----------------------------- MODULE Unserialize -----------------------------
(***************************************************************************)
(* unserialize.h: values read back from memory, from a file descriptor or  *)
(* socket, or through a callback.                                          *)
(*                                                                         *)
(* A call copies one or two pieces: the value or the length, and then the  *)
(* bytes of a buffer.  From memory a piece is copied whole or not at all;  *)
(* a descriptor delivers it in as many parts as the kernel likes.          *)
(*                                                                         *)
(* The bytes are not modelled one by one.  A piece is what was written if  *)
(* it starts where the writer put it and every part of it was stored right *)
(* behind the one before.  A length that was read from anywhere else may   *)
(* be any number.                                                          *)
(*                                                                         *)
(* "s" is the strbuf that unserialize_bufa() fills; the local buffer of    *)
(* unserialize_stra() uses it while the caller has none of his own.        *)
(***************************************************************************)
EXTENDS Serialize

CONSTANTS
  U32Max,        \* the greatest uint32_t
  Garbage,       \* lengths that a reader may find where no length was written
  Rooms,         \* sizes of the buffers that callers pass
  Sources,       \* the kinds of streams that are opened
  MemoryShort    \* can an allocation of more than 0 bytes fail?

(* A size_t holds every uint32_t.                                          *)
ASSUME ReaderAssumption ==
  /\ U32Max \in SizeT /\ Strings \subseteq 0 .. U32Max /\ Garbage \subseteq 0 .. U32Max
  /\ Rooms \subseteq Nat
  /\ Sources \subseteq {"mem", "fd", "generic"}
  /\ MemoryShort \in BOOLEAN

VARIABLES
  src,      \* the stream: its type, the position in it, bytes left in memory
  arrived,  \* how many bytes the descriptor has delivered or holds
  closed,   \* has the writer of the descriptor closed it?
  call,     \* the call that runs or ran last
  results,  \* the values that were read, as long as the reader kept the order
  astray,   \* has the reader left the order of the values?
  lost      \* blocks that nobody can free any more

streamVars == <<s, life, given, op, d, items, stage, src, arrived, closed, call,
                results, astray, lost>>

readerVars == <<s, life, given, op, call, results, astray, lost>>

Buffers == {"buf", "str", "bufa", "stra"}
Filling == {"bufa", "stra"}

Copying == call.at \in {"head", "body"}

(* What realloc() does: for 0 bytes the C library frees the block and      *)
(* returns NULL.                                                           *)
Outcomes(n) == IF MemoryShort THEN BOOLEAN ELSE {n > 0}

PieceSize(name) ==
  CASE name = "u16" -> U16
    [] name = "u64" -> U64
    [] OTHER -> U32

Matches(name, kind) == IF name \in Buffers THEN kind = "buf" ELSE name = kind

(* Is the call that ends for the value that is next in the order?          *)
InOrder ==
  /\ ~ astray /\ Len(results) < Len(items)
  /\ Matches(call.name, items[Len(results) + 1].kind)

-----------------------------------------------------------------------------
(* The ends of a call.                                                     *)

NoCall == [name |-> "none", at |-> "idle", left |-> 0, start |-> 0, dst |-> 0,
           right |-> TRUE, from |-> 0, len |-> 0, room |-> 0, optimize |-> FALSE,
           cnt |-> 0]

Refuses(c) ==
  /\ call' = [c EXCEPT !.at = "failed", !.left = 0, !.dst = 0]
  /\ UNCHANGED <<results, astray>>

(* alloc_error() *)
Stops ==
  /\ call' = [NoCall EXCEPT !.at = "stopped"]
  /\ astray' = ~ InOrder
  /\ UNCHANGED results

(* The number of the value that was read, 0 if it is none of those that    *)
(* were written.                                                           *)
ValueOf(c) ==
  LET is == {k \in 1 .. Len(items) :
               /\ c.right /\ items[k].at = c.from
               /\ Matches(c.name, items[k].kind)
               /\ c.name \in Buffers => items[k].len = c.len}
  IN IF is = {} THEN 0 ELSE CHOOSE k \in is : TRUE

Succeeds(c) ==
  /\ call' = [NoCall EXCEPT !.at = "done"]
  /\ results' = IF InOrder THEN Append(results, ValueOf(c)) ELSE results
  /\ astray' = ~ InOrder

(* Bytes are copied to b[n] and behind, while len is still 0.              *)
Overwrite(q, at, n) ==
  [q EXCEPT !.safe = @ /\ q.b /\ at + n <= q.size,
            !.end  = IF at <= @ /\ @ < at + n THEN Nowhere ELSE @]

(* dst->len = l: the text is what was copied.                              *)
SetLength(q, c) == [q EXCEPT !.len = c.len, !.text = IF c.right THEN c.len ELSE 0]

(* The end of unserialize_bufa(): the buffer is cut to size.               *)
FinishBufa(q, c) ==
  \E got \in Outcomes(c.len) :
    /\ s' = IF c.optimize THEN strbuf_shrink(SetLength(q, c), got) ELSE SetLength(q, c)
    /\ IF s'.ok THEN Succeeds(c) ELSE Stops
    /\ UNCHANGED <<life, given>>

(* The end of unserialize_stra(): the string is handed to the caller.      *)
FinishStra(q, c) ==
  \E got, got2 \in Outcomes(1) :
    LET str == strbuf_to_str(SetLength(q, c), TRUE, got, got2) IN
    IF str.ok
    THEN s' = strbuf_xfer(str, TRUE) /\ given' = given + 1 /\ life' = "gone" /\ Succeeds(c)
    ELSE s' = str /\ UNCHANGED <<given, life>> /\ Stops

Finish(q, c) ==
  /\ CASE c.name = "bufa" -> FinishBufa(q, c)
       [] c.name = "stra" -> FinishStra(q, c)
       [] OTHER -> s' = q /\ UNCHANGED <<life, given>> /\ Succeeds(c)
  /\ UNCHANGED lost

(* unserialize_stra() does not destroy its local buffer when it fails.     *)
Fail(c) ==
  /\ Refuses(c)
  /\ IF c.name = "stra"
     THEN life' = "gone" /\ s' = NullBuf(s) /\ lost' = IF s.b THEN lost + 1 ELSE lost
     ELSE UNCHANGED <<s, life, lost>>
  /\ UNCHANGED given

-----------------------------------------------------------------------------
(* The pieces.                                                             *)

(* Seeded fault: the byte for the NUL is not reserved.                     *)
fits_without_nul(c, l) ==
  IF c.name = "buf" \/ c.name = "str" THEN l <= c.room ELSE TRUE

(* Seeded fault: a buffer must be longer than what is read into it.        *)
fits_strictly(c, l) ==
  IF c.name = "buf" \/ c.name = "str" THEN l < c.room ELSE TRUE

fits(c, l) ==
  CASE c.name = "buf" -> l <= c.room
    [] c.name = "str" -> l <= c.room - 1
    [] OTHER -> TRUE

(* Seeded fault: it is assumed that the bytes are there.                   *)
always_available(c, cnt, l) == TRUE

_unserialize_is_available(c, cnt, l) ==
  src.type = "mem" /\ c.name \in Filling => cnt >= l

(* The lengths that may be found in a piece that starts there.             *)
LengthsAt(c) ==
  LET is == {k \in 1 .. Len(items) : c.right /\ items[k].at = c.from /\ items[k].kind = "buf"}
  IN IF is = {} THEN Garbage ELSE {items[k].len : k \in is}

(* Nothing is copied for a length of 0, but the callback is called.        *)
Body(q, c, l) ==
  LET body == [c EXCEPT !.at = "body", !.len = l, !.left = l, !.dst = 0,
                        !.start = src'.pos]
  IN IF l = 0 /\ (c.name \in Filling \/ src.type # "generic") THEN Finish(q, body)
     ELSE s' = q /\ call' = body /\ UNCHANGED <<life, given, results, astray, lost>>

(* The length is there.                                                    *)
HeaderRead(c) ==
  \E l \in LengthsAt(c) :
    IF ~ fits(c, l) \/ ~ _unserialize_is_available(c, src'.cnt, l) THEN Fail(c)
    ELSE IF c.name \in Filling
    THEN \E got \in Outcomes(1) :
           LET room == strbuf_allocate(strbuf_clear(s), l, got) IN
           IF room.ok THEN Body(room, c, l)
           ELSE s' = room /\ Stops /\ UNCHANGED <<life, given, lost>>
    ELSE Body(s, c, l)

(* Seeded fault: the next part is stored over this one.                    *)
stored_at_start(n) ==
  [call EXCEPT !.left = @ - n, !.right = @ /\ call.dst = src.pos - call.start]

(* n bytes are stored where the part before ended.                         *)
stored(n) ==
  [call EXCEPT !.left = @ - n, !.dst = @ + n,
               !.right = @ /\ call.dst = src.pos - call.start]

Copied(n) ==
  LET c == stored(n)
      q == IF c.at = "body" /\ c.name \in Filling /\ n > 0 THEN Overwrite(s, call.dst, n) ELSE s
  IN /\ src' = [src EXCEPT !.pos = @ + n, !.cnt = IF src.type = "mem" THEN @ - n ELSE @]
     /\ IF c.left > 0
        THEN call' = c /\ s' = q /\ UNCHANGED <<life, given, results, astray, lost>>
        ELSE IF c.at = "body" \/ c.name \notin Buffers THEN Finish(q, c)
        ELSE HeaderRead(c)
     /\ UNCHANGED <<op, d, items, stage, arrived, closed>>

(* Seeded fault: what is missing is not noticed.                           *)
copy_unchecked ==
  /\ Copying /\ src.type = "mem"
  /\ Copied(call.left)

CopyMem ==
  /\ Copying /\ src.type = "mem"
  /\ IF call.left <= src.cnt THEN Copied(call.left)
     ELSE Fail(call) /\ UNCHANGED <<op, serVars, src, arrived, closed>>

(* recv() or read() return some bytes.  EAGAIN and EINTR change nothing.   *)
CopyFd(n) ==
  /\ Copying /\ src.type = "fd"
  /\ n \in 1 .. Smaller(call.left, arrived - src.pos)
  /\ Copied(n)

(* Seeded fault: 0 is taken for EAGAIN.                                    *)
end_is_retried ==
  /\ Copying /\ src.type = "fd" /\ arrived = src.pos /\ closed /\ ~ s.ok
  /\ Fail(call)
  /\ UNCHANGED <<op, serVars, src, arrived, closed>>

(* They return 0 at the end, or an error.                                  *)
EndFd ==
  /\ Copying /\ src.type = "fd" /\ arrived = src.pos /\ closed
  /\ Fail(call)
  /\ UNCHANGED <<op, serVars, src, arrived, closed>>

ErrorFd ==
  /\ Copying /\ src.type = "fd"
  /\ Fail(call)
  /\ UNCHANGED <<op, serVars, src, arrived, closed>>

(* The callback copies all, or fails.                                      *)
CopyGeneric ==
  /\ Copying /\ src.type = "generic"
  /\ \/ call.left <= d.len - src.pos /\ Copied(call.left)
     \/ Fail(call) /\ UNCHANGED <<op, serVars, src, arrived, closed>>

-----------------------------------------------------------------------------
(* The calls.  After one failed the reader has left the order, unless it   *)
(* goes back to a copy of the stream structure.                            *)

MayCall == s.ok /\ src.type # "none" /\ call.at \in {"idle", "done", "failed"}
           /\ (stage = "destroyed" => src.type = "fd")

Begin(name, room, optimize) ==
  /\ call' = [NoCall EXCEPT !.name = name, !.at = "head", !.left = PieceSize(name),
                            !.start = src.pos, !.from = src.pos, !.room = room,
                            !.optimize = optimize, !.cnt = src.cnt]
  /\ astray' = (astray \/ call.at = "failed")
  /\ UNCHANGED <<op, given, serVars, src, arrived, closed, results, lost>>

UnserializeScalar(name) ==
  /\ MayCall
  /\ Begin(name, 0, FALSE) /\ UNCHANGED <<s, life>>

UnserializeBuf(room) ==
  /\ MayCall
  /\ Begin("buf", room, FALSE) /\ UNCHANGED <<s, life>>

(* There is no room for the NUL byte: nothing is read.                     *)
RefusedAtOnce ==
  /\ call' = [NoCall EXCEPT !.name = "str", !.at = "failed", !.from = src.pos, !.cnt = src.cnt]
  /\ astray' = (astray \/ call.at = "failed")
  /\ UNCHANGED <<op, given, serVars, src, arrived, closed, results, lost>>

UnserializeStr(room) ==
  /\ MayCall
  /\ IF room = 0 THEN RefusedAtOnce ELSE Begin("str", room, FALSE)
  /\ UNCHANGED <<s, life>>

UnserializeBufa(optimize) ==
  /\ MayCall /\ life = "live"
  /\ Begin("bufa", 0, optimize) /\ UNCHANGED <<s, life>>

UnserializeStra ==
  /\ MayCall /\ life # "live" /\ given < MaxGiven
  /\ Begin("stra", 0, FALSE) /\ s' = strbuf_init(s, 0, TRUE) /\ life' = "live"

(* A reader from memory may copy the structure before a call, and go on    *)
(* with the copy when the call failed.                                     *)
Rewind ==
  /\ call.at = "failed" /\ src.type = "mem"
  /\ src' = [src EXCEPT !.pos = call.from, !.cnt = call.cnt]
  /\ call' = NoCall
  /\ UNCHANGED <<s, life, given, op, serVars, arrived, closed, results, astray, lost>>

(* The stream is opened on the memory, or on a part of it, or while the    *)
(* writer still sends.                                                     *)
Open(type, cnt) ==
  /\ src.type = "none" /\ stage = "writing" /\ d.ok
  /\ src' = [type |-> type, pos |-> 0, cnt |-> cnt]
  /\ stage' = IF type = "fd" THEN stage ELSE "reading"
  /\ UNCHANGED <<readerVars, d, items, arrived, closed>>

Arrive ==
  /\ src.type = "fd" /\ ~ closed /\ arrived < d.len /\ stage # "destroyed"
  /\ arrived' = arrived + 1
  /\ UNCHANGED <<readerVars, serVars, src, closed>>

CloseFd ==
  /\ src.type = "fd" /\ ~ closed
  /\ closed' = TRUE
  /\ UNCHANGED <<readerVars, serVars, src, arrived>>

(* What the caller does with his strbuf between the calls.                 *)
Caller ==
  /\ ~ Copying /\ call.at # "stopped"
  /\ InitBuf(0, TRUE) \/ Destroy \/ FreeGiven
  /\ UNCHANGED <<serVars, src, arrived, closed, call, results, astray, lost>>

-----------------------------------------------------------------------------
StreamInit ==
  /\ Init
  /\ d = s /\ items = <<>> /\ stage = "writing"
  /\ src = [type |-> "none", pos |-> 0, cnt |-> 0]
  /\ arrived = 0 /\ closed = FALSE
  /\ call = NoCall /\ results = <<>> /\ astray = FALSE /\ lost = 0

Writer ==
  /\ \/ \E got \in Outcomes(1) :
          \/ SerializeU32(got) \/ SerializeU64(got)
          \/ \E len \in Strings, got2 \in Outcomes(1) : SerializeBuf(len, got, got2)
          \/ \E len \in Lengths : SerializeAllocate(len, got)
     \/ /\ Copying => src.type = "fd"
        /\ \E invalidate \in BOOLEAN : SerializeDestroy(invalidate)
  /\ UNCHANGED <<readerVars, src, arrived, closed>>

ReaderCalls ==
  \/ \E name \in {"u16", "u32", "u64"} : UnserializeScalar(name)
  \/ \E room \in Rooms : UnserializeBuf(room) \/ UnserializeStr(room)
  \/ \E optimize \in BOOLEAN : UnserializeBufa(optimize)
  \/ UnserializeStra

ReaderGoesOn ==
  CopyMem \/ EndFd \/ CopyGeneric \/ \E n \in 1 .. d.len : CopyFd(n)

StreamNext ==
  \/ Writer
  \/ \E type \in Sources : \E cnt \in IF type = "mem" THEN 0 .. d.len ELSE {0} : Open(type, cnt)
  \/ Arrive
  \/ CloseFd
  \/ Caller
  \/ ReaderCalls
  \/ ReaderGoesOn
  \/ ErrorFd
  \/ Rewind

StreamSpec == StreamInit /\ [][StreamNext]_streamVars

(* A process that has something to copy is scheduled again.                *)
FairSpec == StreamSpec /\ WF_streamVars(ReaderGoesOn)

-----------------------------------------------------------------------------
(* Properties.                                                             *)

(* Neither the writer nor unserialize_bufa() and _stra(), which believe a  *)
(* length that they read, leave the blocks that they allocated; what the   *)
(* strbuf says of its block stays true when a call fails half way; a       *)
(* reader from memory never gets behind its end, and a caller's buffer is  *)
(* never overrun, the NUL byte included.                                   *)
BlocksSafe ==
  /\ s.safe /\ d.safe /\ TextIntact
  /\ src.type = "mem" => src.pos + src.cnt <= d.len
  /\ call.at = "body" =>
       /\ call.name = "buf" => call.dst + call.left <= call.room
       /\ call.name = "str" => call.dst + call.left + 1 <= call.room

(* A reader that calls for the values in the order in which they were      *)
(* written gets each of them, whatever parts they came in, and stands      *)
(* where the next one starts.                                              *)
NextAt == IF Len(results) < Len(items) THEN items[Len(results) + 1].at ELSE d.len

RoundTrip ==
  ~ astray =>
    /\ \A i \in 1 .. Len(results) : results[i] = i
    /\ call.at \in {"idle", "done"} /\ d.ok => src.pos = NextAt

(* A call for the next value fails only for a reason: the memory does not  *)
(* hold all of it, or the caller's buffer is too small for it.             *)
RefusalsAreJust ==
  call.at = "failed" /\ src.type = "mem" /\ ~ astray /\ Len(results) < Len(items) =>
    LET next == items[Len(results) + 1] IN
    \/ ~ Matches(call.name, next.kind)
    \/ call.cnt < HeaderSize(next.kind) + next.len
    \/ call.name = "buf" /\ call.room < next.len
    \/ call.name = "str" /\ call.room <= next.len

(* All blocks are accounted for.  unserialize_stra() loses its own when    *)
(* the stream fails inside of a string; from memory this cannot happen,    *)
(* because the length is checked before anything is allocated.             *)
NothingLost ==
  s.ok => /\ s.heap = given + lost + (IF life = "live" /\ s.b THEN 1 ELSE 0)
          /\ src.type = "mem" => lost = 0

(* A call returns, unless it waits for bytes that may still come.          *)
CallReturns ==
  Copying ~> ~ Copying \/ (src.type = "fd" /\ ~ closed)

(* Reading back what was written does not stop the program while there is  *)
(* memory: the tests read every kind of value with every call that fits.   *)
OrderIsEnough == ~ MemoryShort /\ ~ astray => call.at # "stopped"

=============================================================================
