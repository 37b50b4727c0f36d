---------------------------- MODULE StrBufProofs ----------------------------
(***************************************************************************)
(* Proofs about StrBuf for every SIZE_MAX that strbuf_allocate() allows,   *)
(* every set of lengths and every outcome of every allocation.             *)
(***************************************************************************)
EXTENDS StrBuf, TLAPS

(* A number that a size_t can hold is not changed.                         *)
LEMMA WrapFits ==
  ASSUME NEW n \in SizeT
  PROVE  wrap(n) = n
BY SizeAssumption DEF wrap, SizeT

(* The comment in strbuf_allocate(): if l * 3 does not overflow then       *)
(* neither does l * 3 / 2 + 8; and it is more than was asked for.          *)
LEMMA ExtraFits ==
  ASSUME NEW l \in SizeT, l <= SizeMax \div 3
  PROVE  /\ wrap(wrap(l * 3) \div 2 + 8) = (l * 3) \div 2 + 8
         /\ (l * 3) \div 2 + 8 \in SizeT
         /\ (l * 3) \div 2 + 8 > l
<1>1. l * 3 \in SizeT
  BY SizeAssumption DEF SizeT
<1>2. (l * 3) \div 2 + 8 \in SizeT /\ (l * 3) \div 2 + 8 > l
  BY <1>1, SizeAssumption DEF SizeT
<1> QED
  BY <1>1, <1>2, WrapFits

(* A buffer whose fields agree with each other and with its block.         *)
Good(q) ==
  /\ q \in Buffer
  /\ q.len <= q.alloc /\ q.alloc <= q.size
  /\ q.text = q.len
  /\ ~ q.b => q.size = 0
  /\ q.end # Nowhere => q.len <= q.end /\ q.end < q.size

(* How many blocks the buffer owns.                                        *)
Owned(q) == IF q.b THEN 1 ELSE 0

(* A change of the block that the text does not notice: the outcome of     *)
(* every operation that may resize.                                        *)
Resized(q, r) ==
  /\ r \in Buffer
  /\ r.safe = q.safe
  /\ r.ok => /\ Good(r)
             /\ r.len = q.len
             /\ r.heap - Owned(r) = q.heap - Owned(q)

(* Xrealloc() to a size that the text fits in, with alloc set to it.       *)
LEMMA ReallocResizes ==
  ASSUME NEW q, Good(q), NEW n \in SizeT, q.len <= n, NEW got \in BOOLEAN
  PROVE  LET r == Xrealloc([q EXCEPT !.alloc = n], n, got)
         IN /\ Resized(q, r)
            /\ r.ok => /\ r.b /\ r.alloc = n
                       /\ q.end # Nowhere /\ q.end < n => r.end = q.end
<1> DEFINE r == Xrealloc([q EXCEPT !.alloc = n], n, got)
<1>1. CASE ~ got
  <2>1. r = [q EXCEPT !.alloc = n, !.ok = FALSE]
    BY <1>1 DEF Xrealloc, alloc_error
  <2>2. r \in Buffer /\ r.safe = q.safe /\ ~ r.ok
    BY <2>1 DEF Good, Buffer
  <2> QED
    BY <2>2 DEF Resized
<1>2. CASE got
  <2>1. r = [q EXCEPT !.alloc = n, !.b = TRUE, !.size = n, !.text = Smaller(@, n),
                      !.end = IF @ < n THEN @ ELSE Nowhere,
                      !.heap = IF q.b THEN @ ELSE @ + 1]
    BY <1>2 DEF Xrealloc, Good, Buffer
  <2>2. Smaller(q.text, n) = q.len
    BY SizeAssumption DEF Smaller, Good, Buffer, SizeT
  <2>3. /\ r.len = q.len /\ r.alloc = n /\ r.b = TRUE /\ r.size = n /\ r.text = q.len
        /\ r.end = (IF q.end < n THEN q.end ELSE Nowhere)
        /\ r.heap = (IF q.b THEN q.heap ELSE q.heap + 1)
        /\ r.ok = q.ok /\ r.safe = q.safe
    BY <2>1, <2>2 DEF Good, Buffer
  <2>4. r \in Buffer
    <3>1. /\ (IF q.end < n THEN q.end ELSE Nowhere) \in SizeT \cup {Nowhere}
          /\ (IF q.b THEN q.heap ELSE q.heap + 1) \in Nat
          /\ q \in Buffer /\ q.len \in SizeT
      BY DEF Good, Buffer
    <3> QED
      BY <2>1, <2>2, <3>1 DEF Buffer
  <2>5. Good(r)
    BY <2>3, <2>4 DEF Good, Buffer, SizeT, Nowhere
  <2>6. r.heap - Owned(r) = q.heap - Owned(q)
    BY <2>3 DEF Owned, Good, Buffer
  <2> QED
    BY <2>3, <2>4, <2>5, <2>6 DEF Resized
<1> QED
  BY <1>1, <1>2

LEMMA ErrorResizes ==
  ASSUME NEW q \in Buffer
  PROVE  Resized(q, alloc_error(q)) /\ ~ alloc_error(q).ok
BY DEF alloc_error, Buffer, Resized

LEMMA SameResizes ==
  ASSUME NEW q, Good(q)
  PROVE  Resized(q, q)
BY DEF Good, Resized

(* _strbuf_shrink() cuts behind the text and "extra" more bytes.           *)
LEMMA ShrinkResizes ==
  ASSUME NEW q, Good(q), NEW extra \in SizeT, NEW got \in BOOLEAN
  PROVE  LET r == _strbuf_shrink(q, extra, got)
         IN /\ Resized(q, r)
            /\ r.ok /\ q.b /\ q.end # Nowhere /\ q.end < q.len + extra
                 => r.b /\ r.end = q.end
<1> DEFINE n == q.len + extra
           r == _strbuf_shrink(q, extra, got)
<1>1. CASE q.len > SizeMax - extra
  BY <1>1, ErrorResizes DEF _strbuf_shrink, Good
<1>2. CASE ~ (q.len > SizeMax - extra)
  <2>1. n \in SizeT /\ q.len <= n /\ wrap(n) = n
    BY <1>2, WrapFits, SizeAssumption DEF Good, Buffer, SizeT
  <2>2. r = IF q.alloc > n THEN Xrealloc([q EXCEPT !.alloc = n], n, got) ELSE q
    BY <1>2, <2>1 DEF _strbuf_shrink
  <2>3. CASE q.alloc > n
    BY <2>1, <2>2, <2>3, ReallocResizes
  <2>4. CASE ~ (q.alloc > n)
    BY <2>2, <2>4, SameResizes
  <2> QED
    BY <2>3, <2>4
<1> QED
  BY <1>1, <1>2

(* strbuf_allocate() either stops the program or makes room for l bytes.   *)
LEMMA AllocateResizes ==
  ASSUME NEW q, Good(q), NEW l \in SizeT, NEW got \in BOOLEAN
  PROVE  LET r == strbuf_allocate(q, l, got)
         IN /\ Resized(q, r)
            /\ r.ok => /\ q.len + l \in SizeT
                       /\ q.len + l <= r.size
                       /\ q.len + l <= r.alloc
                       /\ l > 0 => r.b
<1> DEFINE extra == (l * 3) \div 2 + 8
           n     == q.len + extra
           r     == strbuf_allocate(q, l, got)
<1>0. q \in Buffer /\ q.len \in SizeT /\ q.alloc \in SizeT /\ q.size \in SizeT
  BY DEF Good, Buffer
<1>1. CASE l > SizeMax \div 3 \/ q.len > SizeMax - l
  BY <1>0, <1>1, ErrorResizes DEF strbuf_allocate
<1>2. CASE ~ (l > SizeMax \div 3 \/ q.len > SizeMax - l)
  <2>1. l <= SizeMax \div 3
    BY <1>2, SizeAssumption DEF SizeT
  <2>2. /\ wrap(wrap(l * 3) \div 2 + 8) = extra /\ extra \in SizeT /\ extra > l
    BY <2>1, ExtraFits
  <2>3. q.len + l \in SizeT /\ wrap(q.len + l) = q.len + l
    BY <1>0, <1>2, WrapFits, SizeAssumption DEF SizeT
  <2> HIDE DEF extra
  <2>4. CASE q.len + l <= q.alloc
    <3>1. r = q
      BY <1>2, <2>3, <2>4 DEF strbuf_allocate
    <3>2. q.len + l <= q.size
      BY <1>0, <2>3, <2>4 DEF Good, SizeT
    <3>3. l > 0 => q.b
      BY <1>0, <2>3, <3>2 DEF Good, SizeT
    <3> QED
      BY <2>3, <2>4, <3>1, <3>2, <3>3, SameResizes
  <2>5. CASE ~ (q.len + l <= q.alloc) /\ q.len > SizeMax - extra
    <3>1. r = alloc_error(q)
      BY <1>2, <2>2, <2>3, <2>5 DEF strbuf_allocate
    <3> QED
      BY <1>0, <3>1, ErrorResizes
  <2>6. CASE ~ (q.len + l <= q.alloc) /\ ~ (q.len > SizeMax - extra)
    <3>1. n \in SizeT /\ wrap(n) = n /\ q.len <= n /\ q.len + l <= n
      BY <1>0, <2>2, <2>6, WrapFits, SizeAssumption DEF SizeT
    <3>2. r = Xrealloc([q EXCEPT !.alloc = n], n, got)
      BY <1>2, <2>2, <2>3, <2>6, <3>1 DEF strbuf_allocate
    <3>3. Resized(q, r) /\ (r.ok => r.b /\ r.alloc = n)
      BY <3>1, <3>2, ReallocResizes
    <3>4. r.ok => r.alloc <= r.size /\ r.size \in SizeT
      BY <3>3 DEF Resized, Good, Buffer
    <3> QED
      BY <1>0, <2>3, <3>1, <3>3, <3>4 DEF SizeT
  <2> QED
    BY <2>4, <2>5, <2>6
<1> QED
  BY <1>1, <1>2

(* Writing text, or a NUL byte, where strbuf_allocate() made room.         *)
LEMMA PutTextGood ==
  ASSUME NEW q, Good(q), q.ok, NEW l \in SizeT, l > 0 \/ q.b,
         q.len + l \in SizeT, q.len + l <= q.alloc
  PROVE  LET r == PutText(q, l)
         IN /\ Good(r) /\ r.ok /\ r.safe = q.safe
            /\ r.len = q.len + l
            /\ r.heap = q.heap /\ r.b = q.b
<1> DEFINE r == PutText(q, l)
<1>1. /\ q.len \in SizeT /\ q.alloc \in SizeT /\ q.size \in SizeT /\ q.safe \in BOOLEAN
      /\ q.len <= q.alloc /\ q.alloc <= q.size /\ q.text = q.len /\ q \in Buffer
      /\ q.b \in BOOLEAN /\ (~ q.b => q.size = 0) /\ q.end \in SizeT \cup {Nowhere}
      /\ (q.end # Nowhere => q.len <= q.end /\ q.end < q.size)
  BY DEF Good, Buffer
<1>2. q.b /\ q.len + l <= q.size
  BY <1>1, SizeAssumption DEF SizeT
<1>3. wrap(q.len + l) = q.len + l
  BY WrapFits
<1>4. r = [q EXCEPT !.safe = q.safe, !.text = q.len + l, !.len = q.len + l,
                    !.end = IF q.len <= @ /\ @ < q.len + l THEN Nowhere ELSE @]
  BY <1>1, <1>2, <1>3 DEF PutText, Buffer
<1>5. (IF q.len <= q.end /\ q.end < q.len + l THEN Nowhere ELSE q.end) \in SizeT \cup {Nowhere}
  BY <1>1
<1>6. r \in Buffer
  BY <1>1, <1>4, <1>5 DEF Buffer
<1>7. /\ r.len = q.len + l /\ r.text = q.len + l /\ r.alloc = q.alloc /\ r.size = q.size
      /\ r.b = q.b /\ r.ok = q.ok /\ r.safe = q.safe /\ r.heap = q.heap
      /\ r.end = (IF q.len <= q.end /\ q.end < q.len + l THEN Nowhere ELSE q.end)
  BY <1>1, <1>4 DEF Buffer
<1>8. r.end # Nowhere => r.len <= r.end /\ r.end < r.size
  BY <1>1, <1>7, SizeAssumption DEF SizeT, Nowhere
<1> QED
  BY <1>1, <1>6, <1>7, <1>8 DEF Good

LEMMA PutEndGood ==
  ASSUME NEW q, Good(q), q.ok, q.len + 1 \in SizeT, q.len + 1 <= q.alloc
  PROVE  LET r == PutEnd(q)
         IN /\ Good(r) /\ r.ok /\ r.safe = q.safe
            /\ r.len = q.len /\ r.end = q.len /\ r.b
            /\ r.heap = q.heap /\ r.b = q.b
<1> DEFINE r == PutEnd(q)
<1>1. /\ q.len \in SizeT /\ q.alloc \in SizeT /\ q.size \in SizeT /\ q.safe \in BOOLEAN
      /\ q.alloc <= q.size /\ q.text = q.len /\ q \in Buffer
      /\ q.b \in BOOLEAN /\ (~ q.b => q.size = 0)
  BY DEF Good, Buffer
<1>2. q.b /\ q.len < q.size
  BY <1>1, SizeAssumption DEF SizeT
<1>3. r = [q EXCEPT !.safe = q.safe, !.text = q.len, !.end = q.len]
  BY <1>1, <1>2, SizeAssumption DEF PutEnd, Buffer, Smaller, SizeT
<1>4. r \in Buffer
  BY <1>1, <1>3 DEF Buffer
<1>5. /\ r.len = q.len /\ r.text = q.len /\ r.alloc = q.alloc /\ r.size = q.size
      /\ r.b = q.b /\ r.ok = q.ok /\ r.safe = q.safe /\ r.heap = q.heap /\ r.end = q.len
  BY <1>1, <1>3 DEF Buffer
<1>6. r.len <= r.end /\ r.end < r.size
  BY <1>1, <1>2, <1>5 DEF SizeT
<1> QED
  BY <1>1, <1>2, <1>4, <1>5, <1>6 DEF Good

LEMMA AppendGood ==
  ASSUME NEW q, Good(q), NEW l \in SizeT, NEW got \in BOOLEAN
  PROVE  LET r == strbuf_append_buf(q, l, got)
         IN /\ r \in Buffer /\ r.safe = q.safe
            /\ r.ok => /\ Good(r) /\ r.len = q.len + l
                       /\ r.heap - Owned(r) = q.heap - Owned(q)
<1> DEFINE grown == strbuf_allocate(q, l, got)
           r     == strbuf_append_buf(q, l, got)
<1>1. /\ Resized(q, grown)
      /\ grown.ok => q.len + l \in SizeT /\ q.len + l <= grown.alloc
  BY AllocateResizes
<1> HIDE DEF grown
<1>2. r = IF grown.ok /\ l > 0 THEN PutText(grown, l) ELSE grown
  BY DEF strbuf_append_buf, grown
<1>3. CASE grown.ok /\ l > 0
  <2>1. Good(grown) /\ grown.len = q.len
    BY <1>1, <1>3 DEF Resized
  <2>2. /\ Good(r) /\ r.ok /\ r.safe = grown.safe /\ r.len = q.len + l
        /\ r.heap = grown.heap /\ r.b = grown.b
    BY <1>1, <1>2, <1>3, <2>1, PutTextGood
  <2> HIDE DEF r
  <2>3. r.heap - Owned(r) = q.heap - Owned(q)
    BY <1>1, <1>3, <2>2 DEF Owned, Resized
  <2> QED
    BY <1>1, <2>2, <2>3 DEF Resized, Good, r
<1>4. CASE grown.ok /\ ~ (l > 0)
  <2>1. r = grown /\ grown.len = q.len /\ l = 0
    BY <1>1, <1>2, <1>4 DEF Resized, SizeT
  <2>2. q.len \in Int
    BY DEF Good, Buffer, SizeT
  <2> QED
    BY <1>1, <1>4, <2>1, <2>2 DEF Resized
<1>5. CASE ~ grown.ok
  BY <1>1, <1>2, <1>5 DEF Resized
<1> QED
  BY <1>3, <1>4, <1>5

LEMMA ToStrGood ==
  ASSUME NEW q, Good(q), NEW optimize \in BOOLEAN, NEW got \in BOOLEAN, NEW got2 \in BOOLEAN
  PROVE  LET r == strbuf_to_str(q, optimize, got, got2)
         IN /\ r \in Buffer /\ r.safe = q.safe
            /\ r.ok => /\ Good(r) /\ r.len = q.len /\ StrLen(r) = q.len
                       /\ r.heap - Owned(r) = q.heap - Owned(q)
<1> DEFINE grown == strbuf_allocate(q, 1, got)
           ended == PutEnd(grown)
           r     == strbuf_to_str(q, optimize, got, got2)
<1>1. 1 \in SizeT
  BY SizeAssumption DEF SizeT
<1>2. /\ Resized(q, grown)
      /\ grown.ok => q.len + 1 \in SizeT /\ q.len + 1 <= grown.alloc
  BY <1>1, AllocateResizes
<1> HIDE DEF grown
<1>3. CASE ~ grown.ok
  BY <1>2, <1>3 DEF strbuf_to_str, grown, Resized
<1>4. CASE grown.ok
  <2>1. Good(grown) /\ grown.len = q.len /\ grown.safe = q.safe
    BY <1>2, <1>4 DEF Resized
  <2>2. /\ Good(ended) /\ ended.ok /\ ended.safe = q.safe /\ ended.len = q.len
        /\ ended.end = q.len /\ ended.b /\ ended.heap = grown.heap /\ ended.b = grown.b
    BY <1>2, <1>4, <2>1, PutEndGood
  <2>3. r = IF optimize THEN _strbuf_shrink(ended, 1, got2) ELSE ended
    BY <1>4 DEF strbuf_to_str, grown
  <2> HIDE DEF ended
  <2>4. ended.heap - Owned(ended) = q.heap - Owned(q)
    BY <1>2, <1>4, <2>2 DEF Owned, Resized
  <2>5. q.len \in SizeT /\ q.len # Nowhere /\ q.len < q.len + 1
    BY DEF Good, Buffer, SizeT, Nowhere
  <2>6. CASE optimize
    <3>1. /\ Resized(ended, r)
          /\ r.ok => r.b /\ r.end = ended.end
      BY <1>1, <2>2, <2>3, <2>5, <2>6, ShrinkResizes
    <3> HIDE DEF r
    <3>2. r.ok => Good(r) /\ r.len = q.len /\ r.end = q.len /\ r.b /\ r.text = q.len
      BY <2>2, <3>1 DEF Resized, Good
    <3>3. r.ok => StrLen(r) = q.len
      BY <2>5, <3>2 DEF StrLen, Smaller
    <3> QED
      BY <2>2, <2>4, <3>1, <3>2, <3>3 DEF Resized, r
  <2>7. CASE ~ optimize
    <3>1. r = ended
      BY <2>3, <2>7
    <3>2. StrLen(ended) = q.len
      BY <2>2, <2>5 DEF StrLen, Smaller, Good
    <3> QED
      BY <2>2, <2>4, <3>1, <3>2 DEF Good
  <2> QED
    BY <2>6, <2>7
<1> QED
  BY <1>3, <1>4

LEMMA NullGood ==
  ASSUME NEW q \in Buffer
  PROVE  LET r == NullBuf(q)
         IN /\ q.safe => Good(r)
            /\ r \in Buffer /\ r.safe = q.safe /\ r.ok = q.ok
            /\ r.len = 0 /\ r.text = 0 /\ r.b = FALSE /\ r.heap = q.heap
<1> DEFINE r == NullBuf(q)
<1>1. 0 \in SizeT
  BY SizeAssumption DEF SizeT
<1>2. r \in Buffer
  BY <1>1 DEF NullBuf, Buffer
<1>3. /\ r.safe = q.safe /\ r.ok = q.ok /\ r.len = 0 /\ r.text = 0 /\ r.b = FALSE
      /\ r.heap = q.heap /\ r.alloc = 0 /\ r.size = 0 /\ r.end = Nowhere
  BY DEF NullBuf, Buffer
<1> QED
  BY <1>2, <1>3 DEF Good

LEMMA InitGood ==
  ASSUME NEW q \in Buffer, q.safe, NEW hint \in SizeT, NEW got \in BOOLEAN
  PROVE  LET r == strbuf_init(q, hint, got)
         IN /\ r \in Buffer /\ r.safe
            /\ r.ok => Good(r) /\ r.len = 0 /\ r.heap = q.heap + Owned(r)
<1> DEFINE null == NullBuf(q)
           r    == strbuf_init(q, hint, got)
<1>1. /\ Good(null) /\ null \in Buffer /\ null.safe /\ null.len = 0 /\ null.b = FALSE
      /\ null.heap = q.heap /\ q.heap \in Nat
  BY NullGood DEF Buffer
<1> HIDE DEF null
<1>2. CASE hint = 0
  <2>1. r = null
    BY <1>2 DEF strbuf_init, null
  <2> QED
    BY <1>1, <2>1 DEF Owned
<1>3. CASE hint # 0
  <2>1. r = Xrealloc([null EXCEPT !.alloc = hint], hint, got)
    BY <1>3 DEF strbuf_init, null
  <2>2. null.len <= hint
    BY <1>1 DEF SizeT
  <2>3. Resized(null, r)
    BY <1>1, <2>1, <2>2, ReallocResizes
  <2> HIDE DEF r
  <2>4. r.ok => r.heap = q.heap + Owned(r)
    BY <1>1, <2>3 DEF Resized, Owned, Good, Buffer
  <2> QED
    BY <1>1, <2>3, <2>4 DEF Resized, r
<1> QED
  BY <1>2, <1>3

LEMMA AssignBufGood ==
  ASSUME NEW q \in Buffer, q.safe, NEW size \in SizeT, NEW len \in SizeT, len <= size
  PROVE  LET r == [strbuf_assign_buf(q, size, len)
                     EXCEPT !.heap = IF size > 0 THEN @ + 1 ELSE @]
         IN Good(r) /\ r.ok = q.ok /\ r.safe /\ r.len = len /\ r.heap = q.heap + Owned(r)
<1> DEFINE r == [strbuf_assign_buf(q, size, len)
                   EXCEPT !.heap = IF size > 0 THEN @ + 1 ELSE @]
           heap == IF size > 0 THEN q.heap + 1 ELSE q.heap
<1>1. r = [q EXCEPT !.len = len, !.alloc = len, !.b = (size > 0), !.size = size, !.text = len,
                    !.end = Nowhere, !.heap = heap]
  BY DEF strbuf_assign_buf, NullBuf, Buffer
<1>2. heap \in Nat /\ heap = q.heap + (IF size > 0 THEN 1 ELSE 0) /\ q.safe = TRUE
  BY DEF Buffer
<1>3. (size > 0) \in BOOLEAN /\ (~ (size > 0) => size = 0)
  BY SizeAssumption DEF SizeT
<1> HIDE DEF r, heap
<1>4. r \in Buffer
  BY <1>1, <1>2, <1>3 DEF Buffer
<1>5. /\ r.len = len /\ r.alloc = len /\ r.b = (size > 0) /\ r.size = size /\ r.text = len
      /\ r.end = Nowhere /\ r.heap = heap /\ r.ok = q.ok /\ r.safe = q.safe
  BY <1>1 DEF Buffer
<1>6. len <= len
  BY DEF SizeT
<1>7. Good(r)
  BY <1>3, <1>4, <1>5, <1>6 DEF Good
<1>8. r.heap = q.heap + Owned(r)
  BY <1>2, <1>5 DEF Owned
<1> QED
  BY <1>2, <1>5, <1>7, <1>8 DEF r

LEMMA AssignStrGood ==
  ASSUME NEW q \in Buffer, q.safe, NEW size \in SizeT, NEW len \in SizeT, len < size
  PROVE  LET r == [strbuf_assign_str(q, size, len) EXCEPT !.heap = @ + 1]
         IN Good(r) /\ r.ok = q.ok /\ r.safe /\ r.len = len /\ r.heap = q.heap + Owned(r)
<1> DEFINE r == [strbuf_assign_str(q, size, len) EXCEPT !.heap = @ + 1]
<1>1. len + 1 \in SizeT /\ wrap(len + 1) = len + 1 /\ size > 0
  BY WrapFits, SizeAssumption DEF SizeT
<1>2. r = [q EXCEPT !.len = len, !.alloc = len + 1, !.b = TRUE, !.size = size, !.text = len,
                    !.end = len, !.heap = q.heap + 1]
  BY <1>1 DEF strbuf_assign_str, strbuf_assign_buf, NullBuf, Buffer
<1>3. q.heap + 1 \in Nat
  BY DEF Buffer
<1>4. r \in Buffer
  BY <1>1, <1>2, <1>3 DEF Buffer
<1>5. /\ r.len = len /\ r.alloc = len + 1 /\ r.b = TRUE /\ r.size = size /\ r.text = len
      /\ r.end = len /\ r.heap = q.heap + 1 /\ r.ok = q.ok /\ r.safe = q.safe
  BY <1>2 DEF Buffer
<1> HIDE DEF r
<1>6. len <= len + 1 /\ len + 1 <= size /\ len <= len
  BY DEF SizeT
<1>7. len \in SizeT /\ len # Nowhere
  BY DEF SizeT, Nowhere
<1>8. Good(r)
  BY <1>4, <1>5, <1>6, <1>7 DEF Good
<1> QED
  BY <1>5, <1>8 DEF Owned, r

-----------------------------------------------------------------------------
(* The invariant, preserved by every call.                                 *)

IInv ==
  /\ TypeOK
  /\ MemorySafe
  /\ Live => Good(s)
  /\ NoLeak

LEMMA InitIInv == Init => IInv
<1> SUFFICES ASSUME Init
             PROVE  IInv
  OBVIOUS
<1>1. 0 \in SizeT
  BY SizeAssumption DEF SizeT
<1>2. s \in Buffer
  BY <1>1 DEF Init, Buffer
<1> QED
  BY <1>2, CallerAssumption DEF Init, IInv, TypeOK, MemorySafe, Live, NoLeak

(* A buffer that was good and was resized, appended to or terminated: the  *)
(* caller's share of the blocks did not change.                            *)
LEMMA KeepsIInv ==
  ASSUME IInv, Live, s' \in Buffer, s'.safe = s.safe,
         s'.ok => Good(s') /\ s'.heap - Owned(s') = s.heap - Owned(s),
         UNCHANGED <<life, given>>
  PROVE  IInv'
<1>1. s.heap \in Int /\ given \in Int /\ s'.heap \in Int
  BY DEF IInv, TypeOK, Buffer
<1>2. s.heap = given + Owned(s)
  BY DEF IInv, NoLeak, Live, Owned
<1>3. s'.ok => s'.heap = given + Owned(s')
  BY <1>1, <1>2 DEF Owned
<1>4. NoLeak'
  BY <1>3 DEF NoLeak, Live, Owned
<1> QED
  BY <1>4 DEF IInv, TypeOK, MemorySafe, Live

(* A buffer that owned nothing and was set up anew.                        *)
LEMMA SetsIInv ==
  ASSUME IInv, Bare, s' \in Buffer, s'.safe,
         s'.ok => Good(s') /\ s'.heap = s.heap + Owned(s'),
         life' = "live", UNCHANGED given
  PROVE  IInv'
<1>1. s.heap = given /\ given \in Int
  BY DEF IInv, NoLeak, Bare, TypeOK
<1>2. NoLeak'
  BY <1>1 DEF NoLeak, Owned
<1> QED
  BY <1>2 DEF IInv, TypeOK, MemorySafe, Live

LEMMA NextIInv ==
  ASSUME IInv, [Next]_vars
  PROVE  IInv'
<1>0. /\ s \in Buffer /\ s.safe /\ (Live => Good(s)) /\ given \in 0 .. MaxGiven
      /\ Lengths \subseteq SizeT /\ 0 \in SizeT
  BY CallerAssumption, SizeAssumption DEF IInv, TypeOK, MemorySafe, SizeT
<1>1. ASSUME NEW got \in BOOLEAN, NEW l \in Lengths, InitBuf(l, got)
      PROVE  IInv'
  BY <1>0, <1>1, InitGood, SetsIInv DEF InitBuf
<1>2. ASSUME NEW got \in BOOLEAN, NEW l \in Lengths, Allocate(l, got)
      PROVE  IInv'
  <2>1. Resized(s, s')
    BY <1>0, <1>2, AllocateResizes DEF Allocate
  <2> QED
    BY <1>2, <2>1, KeepsIInv DEF Allocate, Resized
<1>3. ASSUME NEW got \in BOOLEAN, NEW l \in Lengths, AppendBuf(l, got)
      PROVE  IInv'
  BY <1>0, <1>3, AppendGood, KeepsIInv DEF AppendBuf
<1>4. ASSUME NEW got \in BOOLEAN, NEW got2 \in BOOLEAN, NEW optimize \in BOOLEAN,
             ToStr(optimize, got, got2)
      PROVE  IInv'
  BY <1>0, <1>4, ToStrGood, KeepsIInv, ZenonT(60) DEF ToStr
<1>5. ASSUME NEW got \in BOOLEAN, Shrink(got)
      PROVE  IInv'
  <2>1. Resized(s, s')
    BY <1>0, <1>5, ShrinkResizes DEF Shrink, strbuf_shrink
  <2> QED
    BY <1>5, <2>1, KeepsIInv DEF Shrink, Resized
<1>6. ASSUME NEW got \in BOOLEAN, Xfer(got)
      PROVE  IInv'
  <2> DEFINE null == NullBuf(s)
  <2>1. /\ Good(null) /\ null.safe /\ null.ok /\ null.b = FALSE /\ null.heap = s.heap
        /\ s.heap = given + Owned(s) /\ s.heap \in Nat /\ given + 1 \in 0 .. MaxGiven
    <3>1. s.ok = TRUE /\ life = "live" /\ given < MaxGiven /\ s.b \in BOOLEAN
      BY <1>0, <1>6 DEF Xfer, Live, Buffer
    <3>2. Good(null) /\ null.safe /\ null.ok /\ null.b = FALSE /\ null.heap = s.heap
      BY <1>0, <3>1, NullGood
    <3>3. s.heap = given + Owned(s) /\ s.heap \in Nat
      BY <1>0, <3>1 DEF IInv, NoLeak, Owned, Buffer
    <3>4. given + 1 \in 0 .. MaxGiven
      BY <1>0, <3>1, CallerAssumption
    <3> QED
      BY <3>2, <3>3, <3>4
  <2> HIDE DEF null
  <2>2. CASE s.b
    <3>1. s' = null /\ given' = given + 1 /\ life' = life
      BY <1>6, <2>1, <2>2 DEF Xfer, strbuf_xfer, null
    <3>2. s'.heap = given'
      BY <2>1, <2>2, <3>1 DEF Owned
    <3> QED
      BY <1>0, <2>1, <3>1, <3>2 DEF IInv, TypeOK, MemorySafe, NoLeak, Live, Good
  <2>3. CASE ~ s.b /\ got
    <3>1. s' = [null EXCEPT !.heap = @ + 1]
      BY <1>6, <2>3 DEF Xfer, strbuf_xfer, null
    <3>2. Good(s') /\ s'.ok /\ s'.safe /\ s'.b = FALSE /\ s'.heap = s.heap + 1
      BY <2>1, <3>1 DEF Good, Buffer
    <3>3. given' = given + 1 /\ life' = life
      BY <1>6, <3>2 DEF Xfer
    <3>4. s'.heap = given'
      <4>1. Owned(s) = 0 /\ given \in Int
        BY <1>0, <2>3 DEF Owned
      <4> QED
        BY <2>1, <3>2, <3>3, <4>1
    <3> QED
      BY <1>0, <2>1, <3>2, <3>3, <3>4 DEF IInv, TypeOK, MemorySafe, NoLeak, Live, Good
  <2>4. CASE ~ s.b /\ ~ got
    <3>1. s' = [null EXCEPT !.ok = FALSE]
      BY <1>6, <2>4 DEF Xfer, strbuf_xfer, alloc_error, null
    <3>2. s' \in Buffer /\ ~ s'.ok /\ s'.safe
      BY <2>1, <3>1 DEF Good, Buffer
    <3>3. given' = given /\ life' = life
      BY <1>6, <3>2 DEF Xfer
    <3> QED
      BY <1>0, <3>2, <3>3 DEF IInv, TypeOK, MemorySafe, NoLeak, Live
  <2> QED
    BY <2>2, <2>3, <2>4
<1>7. ASSUME NEW size \in Lengths, NEW len \in Lengths, AssignBuf(size, len)
      PROVE  IInv'
  BY <1>0, <1>7, AssignBufGood, SetsIInv DEF AssignBuf, Good
<1>8. ASSUME NEW size \in Lengths, NEW len \in Lengths, AssignStr(size, len)
      PROVE  IInv'
  BY <1>0, <1>8, AssignStrGood, SetsIInv DEF AssignStr, Good
<1>9. CASE AssignNull
  BY <1>0, <1>9, InitGood, SetsIInv DEF AssignNull
<1>10. CASE Clear
  <2>1. s' = [s EXCEPT !.len = 0, !.text = 0]
    BY <1>10 DEF Clear, strbuf_clear
  <2>2. Good(s) /\ s.len >= 0
    BY <1>0, <1>10 DEF Clear, Good, Buffer, SizeT
  <2>3. s' \in Buffer /\ s'.safe = s.safe /\ s'.heap = s.heap /\ s'.b = s.b
    BY <1>0, <2>1 DEF Buffer
  <2>4. /\ s'.len = 0 /\ s'.text = 0 /\ s'.alloc = s.alloc /\ s'.size = s.size /\ s'.end = s.end
        /\ 0 <= s.alloc /\ (s.end # Nowhere => 0 <= s.end)
    BY <1>0, <2>1 DEF Buffer, SizeT
  <2>5. Good(s')
    BY <2>2, <2>3, <2>4 DEF Good
  <2> QED
    BY <1>10, <2>3, <2>5, KeepsIInv DEF Clear, Owned
<1>11. CASE Destroy
  <2>1. s' = [s EXCEPT !.heap = IF s.b THEN @ - 1 ELSE @] /\ life' = "gone" /\ given' = given
    BY <1>11 DEF Destroy, strbuf_destroy
  <2>2. s.heap = given + Owned(s) /\ s.heap \in Nat /\ given \in Nat
    BY <1>0, <1>11 DEF Destroy, Live, IInv, NoLeak, Owned, Buffer
  <2>3. (IF s.b THEN s.heap - 1 ELSE s.heap) = given
    BY <2>2 DEF Owned
  <2>4. s' = [s EXCEPT !.heap = given]
    BY <1>0, <2>1, <2>3 DEF Buffer
  <2>5. s' \in Buffer /\ s'.safe /\ s'.heap = given
    BY <1>0, <2>2, <2>4 DEF Buffer
  <2> QED
    BY <1>0, <2>1, <2>2, <2>5 DEF IInv, TypeOK, MemorySafe, NoLeak, Live
<1>12. CASE FreeGiven
  <2>1. s.ok /\ given > 0 /\ s' = [s EXCEPT !.heap = @ - 1] /\ given' = given - 1 /\ life' = life
    BY <1>12 DEF FreeGiven
  <2>2. s.heap = given + (IF life = "live" /\ s.b THEN 1 ELSE 0) /\ s.heap \in Nat /\ given \in Nat
    BY <1>0, <2>1 DEF IInv, NoLeak, Buffer
  <2>3. s.heap - 1 \in Nat /\ given - 1 \in 0 .. MaxGiven
    BY <1>0, <2>1, <2>2, CallerAssumption
  <2>4. s' \in Buffer /\ s'.safe /\ s'.heap = s.heap - 1 /\ s'.b = s.b
    BY <1>0, <2>1, <2>3 DEF Buffer
  <2>5. NoLeak'
    BY <2>1, <2>2, <2>4 DEF NoLeak
  <2>6. Good(s) => Good(s')
    BY <2>1, <2>4 DEF Good, Buffer
  <2>7. Live' => Live
    BY <2>1 DEF Live
  <2> QED
    BY <1>0, <2>1, <2>3, <2>4, <2>5, <2>6, <2>7 DEF IInv, TypeOK, MemorySafe
<1>13. CASE UNCHANGED vars
  BY <1>13 DEF vars, IInv, TypeOK, MemorySafe, NoLeak, Live
<1> QED
  BY <1>1, <1>2, <1>3, <1>4, <1>5, <1>6, <1>7, <1>8, <1>9, <1>10, <1>11, <1>12, <1>13
  DEF Next

LEMMA Invariance == Spec => []IInv
BY InitIInv, NextIInv, PTL DEF Spec

(* Type correctness, for every size_t.                                     *)
THEOREM TypeCorrect == Spec => []TypeOK
BY Invariance, PTL DEF IInv

(* No sequence of calls, whatever the lengths, writes outside of a block:  *)
(* the three overflow checks of strbuf_allocate() are enough.              *)
THEOREM NeverOutOfBounds == Spec => []MemorySafe
BY Invariance, PTL DEF IInv

(* len, alloc and the size of the block always agree, and no byte of the   *)
(* text is lost.                                                           *)
THEOREM KeepsText == Spec => []TextIntact
<1>1. IInv => TextIntact
  BY DEF IInv, TextIntact, Good
<1> QED
  BY <1>1, Invariance, PTL

(* Every block has exactly one owner as long as the program runs.          *)
THEOREM BlocksHaveOneOwner == Spec => []NoLeak
BY Invariance, PTL DEF IInv

-----------------------------------------------------------------------------
(* The refinement of StrBufSpec.                                           *)

LEMMA InitRefines == Init => Abstract!Init
BY DEF Init, Abstract!Init

LEMMA StepRefines ==
  ASSUME IInv, [Next]_vars
  PROVE  [Abstract!Next]_(Abstract!vars)
<1>0. /\ s \in Buffer /\ s.safe /\ s.ok \in BOOLEAN /\ s'.ok \in BOOLEAN
      /\ (Live => Good(s)) /\ Lengths \subseteq SizeT /\ 0 \in SizeT
  <2>1. IInv'
    BY NextIInv
  <2> QED
    BY <2>1, CallerAssumption, SizeAssumption DEF IInv, TypeOK, MemorySafe, SizeT, Buffer
<1> USE DEF Abstract!Next, Abstract!vars, Calls
<1>1. ASSUME NEW got \in BOOLEAN, NEW l \in Lengths, InitBuf(l, got)
      PROVE  Abstract!Next
  <2>1. s.ok /\ (s'.ok => Good(s') /\ s'.len = 0)
    BY <1>0, <1>1, InitGood DEF InitBuf, Bare
  <2> QED
    BY <1>0, <1>1, <2>1 DEF InitBuf, Good, Abstract!Assign, Abstract!Stop
<1>2. ASSUME NEW got \in BOOLEAN, NEW l \in Lengths, Allocate(l, got)
      PROVE  Abstract!Next
  <2>1. s.ok /\ Good(s) /\ Resized(s, s')
    BY <1>0, <1>2, AllocateResizes DEF Allocate, Live
  <2> QED
    BY <1>0, <1>2, <2>1 DEF Allocate, Resized, Good, Abstract!Resize, Abstract!Stop
<1>3. ASSUME NEW got \in BOOLEAN, NEW l \in Lengths, AppendBuf(l, got)
      PROVE  Abstract!Next
  <2>1. s.ok /\ Good(s) /\ (s'.ok => Good(s') /\ s'.len = s.len + l)
    BY <1>0, <1>3, AppendGood DEF AppendBuf, Live
  <2> QED
    BY <1>0, <1>3, <2>1 DEF AppendBuf, Good, Abstract!Append, Abstract!Stop
<1>4. ASSUME NEW got \in BOOLEAN, NEW got2 \in BOOLEAN, NEW optimize \in BOOLEAN,
             ToStr(optimize, got, got2)
      PROVE  Abstract!Next
  <2>1. s.ok /\ Good(s) /\ (s'.ok => Good(s') /\ s'.len = s.len /\ StrLen(s') = s.len)
    BY <1>0, <1>4, ToStrGood DEF ToStr, Live
  <2> QED
    BY <1>0, <1>4, <2>1 DEF ToStr, Good, Abstract!ToStr, Abstract!Stop
<1>5. ASSUME NEW got \in BOOLEAN, Shrink(got)
      PROVE  Abstract!Next
  <2>1. s.ok /\ Good(s) /\ Resized(s, s')
    BY <1>0, <1>5, ShrinkResizes DEF Shrink, Live, strbuf_shrink
  <2> QED
    BY <1>0, <1>5, <2>1 DEF Shrink, Resized, Good, Abstract!Resize, Abstract!Stop
<1>6. ASSUME NEW got \in BOOLEAN, Xfer(got)
      PROVE  Abstract!Next
  <2>1. s.ok /\ Good(s) /\ NullBuf(s).text = 0 /\ NullBuf(s).ok
    BY <1>0, <1>6, NullGood DEF Xfer, Live
  <2>2. s'.ok => s'.text = 0
    BY <1>0, <1>6, <2>1 DEF Xfer, strbuf_xfer, alloc_error, NullBuf, Buffer
  <2> QED
    BY <1>0, <1>6, <2>1, <2>2 DEF Xfer, Good, Abstract!Xfer, Abstract!Stop
<1>7. ASSUME NEW size \in Lengths, NEW len \in Lengths, AssignBuf(size, len)
      PROVE  Abstract!Next
  <2>1. s.ok /\ Good(s') /\ s'.len = len /\ s'.ok
    BY <1>0, <1>7, AssignBufGood DEF AssignBuf, Bare
  <2> QED
    BY <1>0, <1>7, <2>1 DEF AssignBuf, Good, Abstract!Assign
<1>8. ASSUME NEW size \in Lengths, NEW len \in Lengths, AssignStr(size, len)
      PROVE  Abstract!Next
  <2>1. s.ok /\ Good(s') /\ s'.len = len /\ s'.ok
    BY <1>0, <1>8, AssignStrGood DEF AssignStr, Bare
  <2> QED
    BY <1>0, <1>8, <2>1 DEF AssignStr, Good, Abstract!Assign
<1>9. CASE AssignNull
  <2>1. s.ok /\ (s'.ok => Good(s') /\ s'.len = 0)
    BY <1>0, <1>9, InitGood DEF AssignNull, Bare
  <2> QED
    BY <1>0, <1>9, <2>1 DEF AssignNull, Good, Abstract!Assign, Abstract!Stop
<1>10. CASE Clear
  <2>1. s.ok /\ s'.ok = s.ok /\ s'.text = 0
    BY <1>0, <1>10 DEF Clear, Live, strbuf_clear, Buffer
  <2> QED
    BY <1>0, <1>10, <2>1 DEF Clear, Abstract!Assign
<1>11. CASE Destroy
  <2>1. s.ok /\ s'.ok = s.ok /\ s'.text = s.text
    BY <1>0, <1>11 DEF Destroy, Live, strbuf_destroy, Buffer
  <2> QED
    BY <1>0, <1>11, <2>1 DEF Destroy, Abstract!Free
<1>12. CASE FreeGiven
  <2>1. s.ok /\ s'.ok = s.ok /\ s'.text = s.text
    BY <1>0, <1>12 DEF FreeGiven, Buffer
  <2> QED
    BY <1>0, <1>12, <2>1 DEF FreeGiven, Abstract!Free
<1>13. CASE UNCHANGED vars
  BY <1>13 DEF vars
<1> QED
  BY <1>1, <1>2, <1>3, <1>4, <1>5, <1>6, <1>7, <1>8, <1>9, <1>10, <1>11, <1>12, <1>13
  DEF Next

(* StrBuf implements StrBufSpec: the text changes as the calls say, and    *)
(* every string handed out has the length of the text.                     *)
THEOREM Implements == Spec => Refinement
BY Invariance, InitRefines, StepRefines, PTL DEF Spec, Refinement, Abstract!Spec

============================================================================
