------------------------------- MODULE StrBuf -------------------------------
(***************************************************************************)
(* strbuf.h: the growing string buffer, and the Xmalloc()/Xrealloc() of    *)
(* xalloc.h below it.                                                      *)
(*                                                                         *)
(* "s" holds the structure of the code (len, alloc, b) and what the heap   *)
(* knows of the block that b points to.  Bytes are not modelled one by     *)
(* one: a buffer is only appended to and cleared, so its content is right  *)
(* exactly if the block starts with "text" bytes of the current text and   *)
(* text = len.  Numbers are size_t: they wrap beyond SizeMax.              *)
(***************************************************************************)
EXTENDS Integers

CONSTANTS
  SizeMax,       \* SIZE_MAX
  Lengths,       \* the lengths and sizes that callers pass
  MaxGiven       \* bound: blocks that callers may hold at a time

(* strbuf_allocate() names the size_t it is written for: SIZE_MAX > 17.    *)
ASSUME SizeAssumption == SizeMax \in Nat /\ SizeMax > 17

ASSUME CallerAssumption == Lengths \subseteq 0 .. SizeMax /\ MaxGiven \in Nat

VARIABLES
  s,     \* the buffer and its block
  life,  \* "raw" before strbuf_init(), "live", "gone" after strbuf_destroy()
  given, \* blocks that callers took over and did not free yet
  op     \* the last call, with its length or the length of its result

vars == <<s, life, given, op>>

SizeT   == 0 .. SizeMax
Nowhere == -1
wrap(n) == n % (SizeMax + 1)

(* b: is the pointer non-NULL; size: of the block; text: its leading bytes *)
(* that hold the text; end: where its first NUL byte is known to be; heap: *)
(* blocks malloc()ed minus blocks free()d; ok: alloc_error() not called;   *)
(* safe: no access was outside of the block.                               *)
Buffer == [len : SizeT, alloc : SizeT, b : BOOLEAN, size : SizeT, text : SizeT,
           end : SizeT \cup {Nowhere}, heap : Nat, ok : BOOLEAN, safe : BOOLEAN]

-----------------------------------------------------------------------------
(* The heap.                                                               *)

alloc_error(q) == [q EXCEPT !.ok = FALSE]

Smaller(a, b) == IF a < b THEN a ELSE b

(* realloc() keeps what fits.  It returns NULL if memory is short, and may *)
(* do so for n = 0: both are got = FALSE.                                  *)
Xrealloc(q, n, got) ==
  IF ~ got THEN alloc_error(q)
  ELSE [q EXCEPT !.b = TRUE, !.size = n, !.text = Smaller(@, n),
                 !.end = IF @ < n THEN @ ELSE Nowhere,
                 !.heap = IF q.b THEN @ ELSE @ + 1]

(* Writing n bytes of text to b[len]; writing the NUL byte there.          *)
PutText(q, n) ==
  [q EXCEPT !.safe = @ /\ q.b /\ q.len + n <= q.size,
            !.text = IF @ = q.len THEN q.len + n ELSE @,
            !.end  = IF q.len <= @ /\ @ < q.len + n THEN Nowhere ELSE @,
            !.len  = wrap(@ + n)]

PutEnd(q) ==
  [q EXCEPT !.safe = @ /\ q.b /\ q.len < q.size,
            !.text = Smaller(@, q.len),
            !.end  = q.len]

-----------------------------------------------------------------------------
(* The operations.                                                         *)

NullBuf(q) == [q EXCEPT !.len = 0, !.alloc = 0, !.b = FALSE, !.size = 0,
                        !.text = 0, !.end = Nowhere]

strbuf_init(q, hint, got) ==
  IF hint = 0 THEN NullBuf(q)
  ELSE Xrealloc([NullBuf(q) EXCEPT !.alloc = hint], hint, got)

(* data: a block of "size" bytes from malloc(), or NULL if size is 0, the  *)
(* first len of which are the text.                                        *)
strbuf_assign_buf(q, size, len) ==
  [NullBuf(q) EXCEPT !.b = size > 0, !.size = size, !.text = len,
                     !.len = len, !.alloc = len]

strbuf_assign_str(q, size, strlen) ==
  [strbuf_assign_buf(q, size, strlen) EXCEPT !.alloc = wrap(strlen + 1), !.end = strlen]

(* Seeded fault: the block is not resized to what alloc says.              *)
shrink_keeps_alloc(q, extra, got) ==
  IF q.alloc > wrap(q.len + extra) THEN Xrealloc(q, wrap(q.len + extra), got) ELSE q

(* Seeded fault: the byte for the NUL is forgotten.                        *)
shrink_to_text(q, extra, got) ==
  IF q.alloc > q.len THEN Xrealloc([q EXCEPT !.alloc = q.len], q.len, got) ELSE q

_strbuf_shrink(q, extra, got) ==
  LET n == wrap(q.len + extra)
  IN IF q.len > SizeMax - extra THEN alloc_error(q)
     ELSE IF q.alloc > n THEN Xrealloc([q EXCEPT !.alloc = n], n, got) ELSE q

strbuf_shrink(q, got) == _strbuf_shrink(q, 0, got)

(* Seeded fault: the growth is computed without the first check.           *)
allocate_unchecked(q, l, got) ==
  LET extra == wrap(wrap(l * 3) \div 2 + 8)
  IN IF q.len > SizeMax - l THEN alloc_error(q)
     ELSE IF wrap(q.len + l) <= q.alloc THEN q
     ELSE IF q.len > SizeMax - extra THEN alloc_error(q)
     ELSE Xrealloc([q EXCEPT !.alloc = wrap(q.len + extra)], wrap(q.len + extra), got)

(* Seeded fault: the check that the comment calls critical is missing.     *)
allocate_wrapping(q, l, got) ==
  LET extra == wrap(wrap(l * 3) \div 2 + 8)
  IN IF l > SizeMax \div 3 THEN alloc_error(q)
     ELSE IF wrap(q.len + l) <= q.alloc THEN q
     ELSE IF q.len > SizeMax - extra THEN alloc_error(q)
     ELSE Xrealloc([q EXCEPT !.alloc = wrap(q.len + extra)], wrap(q.len + extra), got)

strbuf_allocate(q, l, got) ==
  LET extra == wrap(wrap(l * 3) \div 2 + 8)
      size  == wrap(q.len + extra)
  IN IF l > SizeMax \div 3 \/ q.len > SizeMax - l THEN alloc_error(q)
     ELSE IF wrap(q.len + l) <= q.alloc THEN q
     ELSE IF q.len > SizeMax - extra THEN alloc_error(q)
     ELSE Xrealloc([q EXCEPT !.alloc = size], size, got)

(* strbuf_append_char(), _str() and _strbuf() are this with l = 1, strlen  *)
(* and the length of the other buffer.                                     *)
strbuf_append_buf(q, l, got) ==
  LET grown == strbuf_allocate(q, l, got)
  IN IF grown.ok /\ l > 0 THEN PutText(grown, l) ELSE grown

strbuf_to_str(q, optimize, got, got2) ==
  LET grown == strbuf_allocate(q, 1, got)
      ended == PutEnd(grown)
  IN IF ~ grown.ok THEN grown
     ELSE IF optimize THEN _strbuf_shrink(ended, 1, got2) ELSE ended

(* Seeded fault: the pointer stays in the buffer.                          *)
xfer_keeps_pointer(q, got) == [q EXCEPT !.len = 0, !.text = 0]

(* The block, or a new one of one byte, now belongs to the caller.         *)
strbuf_xfer(q, got) ==
  IF q.b THEN NullBuf(q)
  ELSE IF got THEN [NullBuf(q) EXCEPT !.heap = @ + 1] ELSE alloc_error(NullBuf(q))

strbuf_clear(q) == [q EXCEPT !.len = 0, !.text = 0]

strbuf_destroy(q) == [q EXCEPT !.heap = IF q.b THEN @ - 1 ELSE @]

-----------------------------------------------------------------------------
(* The calls, in the order a caller may make them: strbuf_init() or an     *)
(* assignment first, and again only when the buffer owns nothing.          *)

Live == s.ok /\ life = "live"
Bare == s.ok /\ (life # "live" \/ ~ s.b)

(* What strlen() finds in the block: nothing that can be relied on if no   *)
(* NUL byte is known.                                                      *)
StrLen(q) == IF q.b /\ q.end # Nowhere THEN Smaller(q.text, q.end) ELSE Nowhere

Calls(name, n) == op' = <<name, n>>

Init ==
  /\ s = [len |-> 0, alloc |-> 0, b |-> FALSE, size |-> 0, text |-> 0, end |-> Nowhere,
          heap |-> 0, ok |-> TRUE, safe |-> TRUE]
  /\ life = "raw" /\ given = 0
  /\ op = <<"none", 0>>

InitBuf(hint, got) ==
  /\ Bare
  /\ Calls("assign", 0)
  /\ s' = strbuf_init(s, hint, got) /\ life' = "live"
  /\ UNCHANGED given

(* The caller gives away a block that it got from elsewhere.               *)
AssignBuf(size, len) ==
  /\ Bare /\ len <= size
  /\ Calls("assign", len)
  /\ s' = [strbuf_assign_buf(s, size, len) EXCEPT !.heap = IF size > 0 THEN @ + 1 ELSE @]
  /\ life' = "live"
  /\ UNCHANGED given

AssignStr(size, strlen) ==
  /\ Bare /\ strlen < size
  /\ Calls("assign", strlen)
  /\ s' = [strbuf_assign_str(s, size, strlen) EXCEPT !.heap = @ + 1]
  /\ life' = "live"
  /\ UNCHANGED given

(* strbuf_assign_str(NULL) *)
AssignNull ==
  /\ Bare
  /\ Calls("assign", 0)
  /\ s' = strbuf_init(s, 0, TRUE) /\ life' = "live"
  /\ UNCHANGED given

Shrink(got) ==
  /\ Live
  /\ Calls("resize", 0)
  /\ s' = strbuf_shrink(s, got)
  /\ UNCHANGED <<life, given>>

Allocate(l, got) ==
  /\ Live
  /\ Calls("resize", 0)
  /\ s' = strbuf_allocate(s, l, got)
  /\ UNCHANGED <<life, given>>

AppendBuf(l, got) ==
  /\ Live
  /\ Calls("append", l)
  /\ s' = strbuf_append_buf(s, l, got)
  /\ UNCHANGED <<life, given>>

ToStr(optimize, got, got2) ==
  /\ Live
  /\ s' = strbuf_to_str(s, optimize, got, got2)
  /\ Calls("to_str", StrLen(s'))
  /\ UNCHANGED <<life, given>>

Xfer(got) ==
  /\ Live /\ given < MaxGiven
  /\ Calls("xfer", s.len)
  /\ s' = strbuf_xfer(s, got)
  /\ given' = IF s'.ok THEN given + 1 ELSE given
  /\ UNCHANGED life

Clear ==
  /\ Live
  /\ Calls("assign", 0)
  /\ s' = strbuf_clear(s)
  /\ UNCHANGED <<life, given>>

Destroy ==
  /\ Live
  /\ Calls("free", 0)
  /\ s' = strbuf_destroy(s) /\ life' = "gone"
  /\ UNCHANGED given

FreeGiven ==
  /\ s.ok /\ given > 0
  /\ Calls("free", 0)
  /\ s' = [s EXCEPT !.heap = @ - 1] /\ given' = given - 1
  /\ UNCHANGED life

Next ==
  \/ \E got \in BOOLEAN :
       \/ \E l \in Lengths : InitBuf(l, got) \/ Allocate(l, got) \/ AppendBuf(l, got)
       \/ \E optimize, got2 \in BOOLEAN : ToStr(optimize, got, got2)
       \/ Shrink(got)
       \/ Xfer(got)
  \/ \E size, len \in Lengths : AssignBuf(size, len) \/ AssignStr(size, len)
  \/ AssignNull
  \/ Clear
  \/ Destroy
  \/ FreeGiven

Spec == Init /\ [][Next]_vars

-----------------------------------------------------------------------------
(* Properties.                                                             *)

(* The variables have their types.                                         *)
TypeOK ==
  /\ s \in Buffer
  /\ life \in {"raw", "live", "gone"}
  /\ given \in 0 .. MaxGiven

(* Nothing is written through a NULL pointer or behind the end of the      *)
(* block, whatever the lengths: the checks of strbuf_allocate() leave no   *)
(* sum that wraps and then looks small enough.                             *)
MemorySafe == s.safe

(* What the buffer says of its block is true, and its text is all there:   *)
(* no growing, shrinking or terminating lost a byte.                       *)
TextIntact ==
  Live => /\ s.len <= s.alloc /\ s.alloc <= s.size
          /\ s.text = s.len
          /\ ~ s.b => s.size = 0

(* Every block is the buffer's or a caller's: none is lost when one is     *)
(* replaced, handed over or destroyed, and none has two owners.            *)
NoLeak == s.ok => s.heap = given + (IF life = "live" /\ s.b THEN 1 ELSE 0)

Abstract == INSTANCE StrBufSpec WITH text <- s.text, on <- s.ok

(* The text in memory changes as the calls say and only so, and every      *)
(* string handed out is terminated by a NUL byte right behind the text:    *)
(* strlen() of what strbuf_to_str() returns is the length of the text,     *)
(* with and without "optimize", in a fresh, assigned or cleared buffer.    *)
Refinement == Abstract!Spec

============================================================================
