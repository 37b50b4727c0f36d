-------------------------- MODULE UnserializeProofs --------------------------
(***************************************************************************)
(* Proofs about Serialize and Unserialize, for values and strings of any   *)
(* length, for every size_t that holds them, for any lengths found astray, *)
(* and for every way in which a descriptor delivers the parts.             *)
(***************************************************************************)
EXTENDS Unserialize, StrBufProofs

Kinds == {"u32", "u64", "buf"}
Names == {"none", "u16", "u32", "u64"} \cup Buffers
Sizes == Strings \cup {0}
Item  == {i \in [at : Nat, kind : Kinds, len : Sizes] : i.kind # "buf" => i.len = 0}

CallType ==
  [name : Names, at : {"idle", "head", "body", "done", "failed", "stopped"},
   left : Nat, start : Nat, dst : Nat, right : BOOLEAN, from : Nat, len : 0 .. U32Max,
   room : Nat, optimize : BOOLEAN, cnt : Nat]

Types ==
  /\ d \in Buffer /\ items \in Seq(Item) /\ stage \in {"writing", "reading", "destroyed"}
  /\ DOMAIN src = {"type", "pos", "cnt"} /\ src.type \in {"none", "mem", "fd", "generic"}
  /\ src.pos \in Nat /\ src.cnt \in Nat /\ arrived \in Nat
  /\ call \in CallType /\ results \in Seq(Nat) /\ astray \in BOOLEAN

(* Where the next value starts.                                            *)
Behind(item) == item.at + HeaderSize(item.kind) + item.len

(* The values follow each other.  The strings that were written bound what *)
(* the stream holds.                                                       *)
Chained ==
  /\ items # <<>> => items[1].at = 0
  /\ \A j \in 1 .. Len(items) - 1 : items[j + 1].at = Behind(items[j])
  /\ \A j, k \in 1 .. Len(items) : j < k => Behind(items[j]) <= items[k].at
  /\ \A k \in 1 .. Len(items) : Behind(items[k]) <= d.len

Complete ==
  /\ d.len = IF items = <<>> THEN 0 ELSE Behind(items[Len(items)])
  /\ \E len \in Sizes : d.len <= Len(items) * (U64 + U32 + len)

WriterInv ==
  /\ d.safe /\ Len(items) <= MaxItems /\ Chained
  /\ d.ok => Complete
  /\ d.ok /\ stage # "destroyed" => Good(d) /\ d.heap = Owned(d)

(* A reader is within what was written.                                    *)
SourceInv ==
  /\ src.type = "none" => src.pos = 0 /\ arrived = 0 /\ lost = 0 /\ call = NoCall
  /\ src.type = "mem" => src.pos + src.cnt <= d.len /\ call.from + call.cnt <= d.len
  /\ src.type \in {"mem", "generic"} => stage # "writing"
  /\ src.type = "fd" => src.pos <= arrived /\ arrived <= d.len

(* A length is that of the string which starts where the call began.       *)
LengthIs(from, len) ==
  \A k \in 1 .. Len(items) : items[k].at = from /\ items[k].kind = "buf" => items[k].len = len

(* The buffer has room for n bytes, dst of which are there already.        *)
Ready(q, n, dst) ==
  Good(q) /\ q.len = 0 /\ n <= q.alloc /\ (q.end # Nowhere => dst <= q.end)

(* A part is stored where it belongs, and the rest is still to come.       *)
CallInv ==
  /\ Copying => /\ call.name # "none" /\ call.right /\ s.ok /\ src.type # "none"
                /\ src.pos = call.start + call.dst
                /\ call.name \in Filling => life = "live"
                /\ src.type = "mem" => src.pos + src.cnt = call.from + call.cnt /\ call.dst = 0
  /\ call.at = "head" => /\ call.start = call.from
                         /\ call.dst + call.left = PieceSize(call.name)
                         /\ call.name = "stra" => ~ s.b
  /\ call.at = "body" => /\ call.name \in Buffers /\ call.start = call.from + U32
                         /\ call.dst + call.left = call.len /\ fits(call, call.len)
                         /\ LengthIs(call.from, call.len)
                         /\ call.name \in Filling => Ready(s, call.len, call.dst)
                         /\ call.name \in Filling /\ src.type = "mem" => call.left <= src.cnt

(* The caller's buffer, and the owners of all blocks.                      *)
BufInv ==
  /\ s \in Buffer /\ s.safe /\ given \in Nat /\ lost \in Nat
  /\ life \in {"raw", "live", "gone"}
  /\ Live => Good(s)
  /\ NothingLost

(* Why a call from memory refuses the value that starts where it began.    *)
Just(c) ==
  src.type = "mem" => \A k \in 1 .. Len(items) :
    items[k].at = c.from /\ Matches(c.name, items[k].kind) =>
      \/ c.cnt < HeaderSize(items[k].kind) + items[k].len
      \/ c.name = "buf" /\ c.room < items[k].len
      \/ c.name = "str" /\ c.room <= items[k].len

RefusalInv == call.at = "failed" => Just(call)

(* The reader is at the next value, or the call that runs began there.     *)
AtNext ==
  /\ call.at \in {"idle", "done"} => src.pos = NextAt
  /\ call.at \in {"head", "body", "failed"} => call.from = NextAt

OrderInv ==
  ~ astray =>
    /\ Len(results) <= Len(items)
    /\ \A i \in 1 .. Len(results) : results[i] = i
    /\ Len(results) < Len(items) \/ d.ok => AtNext

StreamIInv ==
  Types /\ WriterInv /\ SourceInv /\ CallInv /\ BufInv /\ RefusalInv /\ OrderInv

-----------------------------------------------------------------------------
(* The writer                                                              *)

LEMMA Products ==
  ASSUME NEW a \in Nat, NEW b \in Nat, NEW x \in Nat, NEW y \in Nat, a <= b, x <= y
  PROVE  a * x <= b * y
<1>1. a * x <= a * y
  OBVIOUS
<1>2. a * y <= b * y
  OBVIOUS
<1>3. a * x \in Nat /\ a * y \in Nat /\ b * y \in Nat
  OBVIOUS
<1> QED
  BY <1>1, <1>2, <1>3

LEMMA SizesFacts ==
  /\ Sizes \subseteq Nat /\ Sizes \subseteq 0 .. U32Max /\ 0 \in Sizes
  /\ U16 \in Nat \ {0} /\ U32 \in Nat \ {0} /\ U64 \in Nat \ {0} /\ MaxItems \in Nat
  /\ U32Max \in SizeT /\ 0 .. U32Max \subseteq SizeT
BY StreamAssumption, ReaderAssumption, SizeAssumption DEF Sizes, SizeT

(* One more value keeps within size_t.                                     *)
LEMMA OneMoreFits ==
  ASSUME NEW n \in Nat, n < MaxItems, NEW l \in Nat, NEW max \in Sizes,
         l <= n * (U64 + U32 + max), NEW len \in Sizes
  PROVE  /\ l + (U64 + U32 + len) <= SizeMax
         /\ \E m \in Sizes : l + (U64 + U32 + len) <= (n + 1) * (U64 + U32 + m)
<1> DEFINE M == IF max < len THEN len ELSE max
           k == U64 + U32 + M
<1>1. M \in Sizes /\ max <= M /\ len <= M /\ M \in Nat /\ k \in Nat /\ max \in Nat /\ len \in Nat
      /\ U64 + U32 + max \in Nat /\ U64 + U32 + max <= k /\ U64 + U32 + len <= k
      /\ U64 \in Nat /\ U32 \in Nat /\ MaxItems \in Nat
  BY SizesFacts
<1>2. MaxItems * k <= SizeMax
  BY <1>1, StreamAssumption DEF Sizes
<1> HIDE DEF M, k
<1>3. n * (U64 + U32 + max) <= n * k
  BY <1>1, Products
<1>4. (n + 1) * k <= MaxItems * k
  BY <1>1, Products
<1>5. (n + 1) * k = n * k + k
  BY <1>1
<1>6. n * k \in Nat /\ n * (U64 + U32 + max) \in Nat /\ MaxItems * k \in Nat /\ SizeMax \in Nat
  BY <1>1, SizeAssumption
<1>7. l + (U64 + U32 + len) <= (n + 1) * k /\ (n + 1) * k <= SizeMax
  BY <1>1, <1>2, <1>3, <1>4, <1>5, <1>6
<1> QED
  BY <1>1, <1>6, <1>7 DEF k

(* serialize_allocate() keeps what is there and makes room behind it.      *)
LEMMA SerializeResizes ==
  ASSUME NEW q, Good(q), NEW len \in SizeT, NEW got \in BOOLEAN
  PROVE  LET r == serialize_allocate(q, len, got)
         IN /\ Resized(q, r) /\ r.len = q.len
            /\ r.ok /\ q.len + len \in SizeT => q.len + len <= r.alloc
            /\ r.ok /\ q.b => r.b
<1> DEFINE l == wrap(q.len + len)
           x == Xrealloc([q EXCEPT !.alloc = l], l, got)
           r == serialize_allocate(q, len, got)
<1>1. q \in Buffer /\ q.len \in SizeT /\ q.alloc \in SizeT /\ q.len <= q.alloc
  BY DEF Good, Buffer
<1>2. l \in SizeT
  BY <1>1, SizeAssumption DEF wrap, SizeT
<1>3. q.len + len \in SizeT => l = q.len + len
  BY WrapFits
<1>4. CASE ~ (l > q.alloc)
  <2>1. r = q
    BY <1>4 DEF serialize_allocate
  <2> QED
    BY <1>1, <1>2, <1>3, <1>4, <2>1, SameResizes DEF SizeT
<1>5. CASE l > q.alloc
  <2>1. r = [Xrealloc(q, l, got) EXCEPT !.alloc = l]
    BY <1>5 DEF serialize_allocate
  <2>2. r = x /\ x.len = q.len
    <3>1. CASE got
      BY <1>1, <2>1, <3>1, ZenonT(60) DEF Xrealloc, Buffer
    <3>2. CASE ~ got
      BY <1>1, <2>1, <3>2 DEF Xrealloc, alloc_error, Buffer
    <3> QED
      BY <3>1, <3>2
  <2>3. q.len <= l
    BY <1>1, <1>2, <1>5 DEF SizeT
  <2>4. Resized(q, x) /\ (x.ok => x.b /\ x.alloc = l)
    BY <1>2, <2>3, ReallocResizes
  <2> HIDE DEF x, r
  <2>5. l <= l
    BY <1>2 DEF SizeT
  <2> QED
    BY <1>3, <2>2, <2>4, <2>5 DEF r
<1> QED
  BY <1>4, <1>5

(* A value, or a part of one, is put behind the others.                    *)
LEMMA CopyGood ==
  ASSUME NEW q, Good(q), q.ok, q.heap = Owned(q), NEW len \in SizeT, NEW got \in BOOLEAN,
         q.len + len \in SizeT, len > 0 \/ q.b
  PROVE  LET r == _serialize_cpy(q, len, got)
         IN /\ r \in Buffer /\ r.safe = q.safe /\ r.len >= q.len
            /\ r.ok => /\ Good(r) /\ r.heap = Owned(r) /\ r.len = q.len + len
                       /\ len > 0 => r.b
<1> DEFINE grown == serialize_allocate(q, len, got)
           r     == _serialize_cpy(q, len, got)
<1>1. /\ Resized(q, grown) /\ grown.len = q.len
      /\ grown.ok => q.len + len <= grown.alloc
      /\ grown.ok /\ q.b => grown.b
  BY SerializeResizes
<1>2. r = IF grown.ok THEN PutText(grown, len) ELSE grown
  BY DEF _serialize_cpy
<1>3. q.len \in Nat /\ q.heap \in Nat
  BY DEF Good, Buffer, SizeT
<1> HIDE DEF grown, r
<1>4. CASE ~ grown.ok
  <2>1. r = grown /\ r.len >= q.len
    BY <1>1, <1>2, <1>3, <1>4
  <2> QED
    BY <1>1, <1>4, <2>1 DEF Resized, r
<1>5. CASE grown.ok
  <2>1. Good(grown) /\ grown.safe = q.safe /\ grown.heap - Owned(grown) = q.heap - Owned(q)
    BY <1>1, <1>5 DEF Resized
  <2>2. /\ Good(r) /\ r.ok /\ r.safe = q.safe /\ r.len = q.len + len
        /\ r.heap = grown.heap /\ r.b = grown.b
    BY <1>1, <1>2, <1>5, <2>1, PutTextGood
  <2>3. grown.heap = Owned(grown)
    BY <2>1 DEF Owned, Good, Buffer
  <2>4. len > 0 => r.b
    BY <2>2 DEF Good, Buffer, SizeT
  <2>5. r.len >= q.len
    BY <1>3, <2>2 DEF SizeT
  <2> QED
    BY <2>2, <2>3, <2>4, <2>5 DEF Good, Owned, r
<1> QED
  BY <1>4, <1>5

(* What the writer does for the reader: values may be added behind the     *)
(* others.                                                                 *)
Adds ==
  /\ d' \in Buffer /\ d'.len >= d.len /\ (d'.ok => d.ok)
  /\ stage' = stage \/ stage' = "destroyed"
  /\ \/ items' = items /\ (d'.ok => d'.len = d.len)
     \/ /\ stage = "writing" /\ d.ok
        /\ \E new \in Item : new.at = d.len /\ items' = Append(items, new)

LEMMA ItemFacts ==
  ASSUME NEW i \in Item
  PROVE  /\ i.at \in Nat /\ i.kind \in Kinds /\ i.len \in Sizes /\ i.len \in Nat
         /\ HeaderSize(i.kind) \in Nat \ {0} /\ HeaderSize(i.kind) <= U64 + U32
         /\ Behind(i) \in Nat /\ i.at < Behind(i)
<1>1. i.at \in Nat /\ i.kind \in Kinds /\ i.len \in Sizes
  BY DEF Item
<1>2. i.len \in Nat /\ HeaderSize(i.kind) \in Nat \ {0} /\ HeaderSize(i.kind) <= U64 + U32
  <2>1. U32 \in Nat \ {0} /\ U64 \in Nat \ {0} /\ U32 <= U64 + U32 /\ U64 <= U64 + U32
    BY SizesFacts
  <2>2. i.len \in Nat
    BY <1>1, SizesFacts
  <2>3. HeaderSize(i.kind) = U64 \/ HeaderSize(i.kind) = U32
    BY DEF HeaderSize
  <2> QED
    BY <2>1, <2>2, <2>3
<1> QED
  BY <1>1, <1>2 DEF Behind

LEMMA ItemsFacts ==
  ASSUME items \in Seq(Item)
  PROVE  Len(items) \in Nat /\ \A k \in 1 .. Len(items) : items[k] \in Item
OBVIOUS

LEMMA AppendFacts ==
  ASSUME NEW new \in Item, items \in Seq(Item), items' = Append(items, new)
  PROVE  /\ items' \in Seq(Item) /\ Len(items') = Len(items) + 1 /\ Len(items) \in Nat
         /\ \A k \in 1 .. Len(items) : items'[k] = items[k]
         /\ items'[Len(items) + 1] = new /\ items' # <<>>
OBVIOUS

(* Where the reader goes on does not change when values are added.         *)
LEMMA AddsNext ==
  ASSUME Types, Adds, UNCHANGED results, Len(results) <= Len(items),
         Len(results) < Len(items') \/ d'.ok
  PROVE  /\ Len(results) < Len(items) \/ d.ok
         /\ NextAt' = NextAt
<1>1. Len(results) \in Nat /\ Len(items) \in Nat
  BY DEF Types
<1>2. CASE items' = items /\ (d'.ok => d'.len = d.len)
  BY <1>2 DEF Adds, NextAt
<1>3. ASSUME d.ok, NEW new \in Item, new.at = d.len, items' = Append(items, new)
      PROVE  NextAt' = NextAt
  <2>1. /\ Len(items') = Len(items) + 1 /\ items'[Len(items) + 1] = new
        /\ \A k \in 1 .. Len(items) : items'[k] = items[k]
    BY <1>3, AppendFacts DEF Types
  <2>2. Len(results) < Len(items')
    BY <1>1, <2>1
  <2>3. CASE Len(results) < Len(items)
    <3>1. items'[Len(results) + 1] = items[Len(results) + 1]
      BY <1>1, <2>1, <2>3
    <3> QED
      BY <2>2, <2>3, <3>1 DEF NextAt
  <2>4. CASE Len(results) = Len(items)
    BY <1>1, <1>3, <2>1, <2>2, <2>4 DEF NextAt
  <2> QED
    BY <1>1, <2>3, <2>4
<1> QED
  BY <1>2, <1>3 DEF Adds

(* The reader's part of the invariant stays when values are added.         *)
LEMMA AddsKeeps ==
  ASSUME StreamIInv, Adds, WriterInv', UNCHANGED <<readerVars, src, arrived, closed>>
  PROVE  StreamIInv'
<1> USE DEF StreamIInv
<1>1. Types'
  <2>1. items' \in Seq(Item)
    BY AppendFacts DEF Types, Adds
  <2> QED
    BY <2>1 DEF Types, Adds, readerVars
<1>2. d.len \in Nat /\ d'.len \in Nat
  BY <1>1 DEF Types, Buffer, SizeT
<1>3. SourceInv'
  <2>1. /\ UNCHANGED <<src, call, arrived, lost>> /\ d.len <= d'.len
        /\ stage' # "writing" \/ stage' = stage
    BY <1>2 DEF Adds, readerVars
  <2>2. /\ src.pos + src.cnt \in Nat /\ call.from + call.cnt \in Nat /\ arrived \in Nat
    BY DEF Types, CallType
  <2>3. \A n \in Nat : n <= d.len => n <= d'.len
    BY <1>2, <2>1
  <2> QED
    BY <2>1, <2>2, <2>3 DEF SourceInv
<1>4. ASSUME call.at = "body"
      PROVE  LengthIs(call.from, call.len)'
  <2>1. LengthIs(call.from, call.len)
    BY <1>4 DEF CallInv
  <2>2. CASE items' = items
    BY <2>1, <2>2 DEF LengthIs, readerVars
  <2>3. ASSUME stage = "writing", NEW new \in Item, new.at = d.len, items' = Append(items, new)
        PROVE  LengthIs(call.from, call.len)'
    <3>1. /\ Len(items') = Len(items) + 1 /\ items'[Len(items) + 1] = new /\ Len(items) \in Nat
          /\ \A k \in 1 .. Len(items) : items'[k] = items[k]
      BY <2>3, AppendFacts DEF Types
    <3>2. call.from < d.len
      <4>1. src.type = "fd" /\ src.pos <= d.len
        <5>1. src.type \notin {"none", "mem", "generic"}
          BY <1>4, <2>3 DEF SourceInv, CallInv, Copying
        <5> QED
          BY <1>2, <5>1 DEF Types, SourceInv
      <4>2. src.pos = call.from + U32 + call.dst /\ call.from \in Nat /\ call.dst \in Nat
        BY <1>4 DEF CallInv, Copying, Types, CallType
      <4> QED
        BY <1>2, <4>1, <4>2, SizesFacts DEF Types
    <3>3. call.from # d.len
      BY <1>2, <3>2 DEF Types
    <3>4. call' = call
      BY DEF readerVars
    <3> QED
      BY <2>1, <2>3, <3>1, <3>3, <3>4 DEF LengthIs
  <2> QED
    BY <2>2, <2>3 DEF Adds
<1>5. CallInv'
  BY <1>4 DEF CallInv, Copying, readerVars, Ready, fits
<1>6. BufInv'
  BY DEF BufInv, Live, NothingLost, readerVars
<1>7. RefusalInv'
  <2>1. src.type = "mem" => items' = items
    BY DEF SourceInv, Adds
  <2> QED
    BY <2>1 DEF RefusalInv, Just, readerVars
<1>8. OrderInv'
  <2> SUFFICES ASSUME ~ astray
               PROVE  /\ (Len(results) <= Len(items))'
                      /\ (\A i \in 1 .. Len(results) : results[i] = i)'
                      /\ (Len(results) < Len(items))' \/ d'.ok => AtNext'
    BY DEF OrderInv, readerVars
  <2>1. /\ UNCHANGED <<results, call, src>> /\ Len(results) <= Len(items)
        /\ \A i \in 1 .. Len(results) : results[i] = i
        /\ Len(results) < Len(items) \/ d.ok => AtNext
    BY DEF OrderInv, readerVars
  <2>2. Len(results) \in Nat /\ Len(items) \in Nat /\ Len(items) <= Len(items')
    BY AppendFacts DEF Types, Adds
  <2>3. ASSUME (Len(results) < Len(items))' \/ d'.ok
        PROVE  AtNext'
    <3>1. AtNext /\ NextAt' = NextAt
      BY <2>1, <2>3, AddsNext
    <3> QED
      BY <2>1, <3>1 DEF AtNext
  <2> QED
    BY <1>1, <2>1, <2>2, <2>3 DEF Types
<1> QED
  BY <1>1, <1>3, <1>5, <1>6, <1>7, <1>8

(* A value is written behind the last one, or the memory for it is short.  *)
LEMMA WrittenKeeps ==
  ASSUME StreamIInv, MaySerialize, NEW kind \in Kinds, NEW len \in Sizes,
         kind # "buf" => len = 0, d' \in Buffer, d'.safe, d'.len >= d.len,
         d'.ok => Good(d') /\ d'.heap = Owned(d') /\ d'.len = d.len + HeaderSize(kind) + len,
         Written(kind, len), UNCHANGED <<readerVars, src, arrived, closed>>
  PROVE  StreamIInv'
<1> DEFINE new == [at |-> d.len, kind |-> kind, len |-> len]
           n == Len(items)
<1>1. /\ d.ok /\ stage = "writing" /\ n \in Nat /\ n < MaxItems /\ stage' = stage
      /\ d.len \in Nat /\ d'.len \in Nat /\ Chained /\ Complete /\ MaxItems \in Nat
      /\ items \in Seq(Item)
  BY SizesFacts DEF MaySerialize, StreamIInv, Types, WriterInv, Written, Buffer, SizeT
<1>2. new \in Item /\ new.at = d.len /\ Behind(new) = d.len + HeaderSize(kind) + len
  BY <1>1 DEF Item, Behind
<1> HIDE DEF new
<1>3. \A k \in 1 .. n : items[k] \in Item /\ Behind(items[k]) \in Nat /\ items[k].at \in Nat
  BY <1>1, ItemsFacts, ItemFacts
<1>4. CASE ~ d'.ok
  <2>1. items' = items
    BY <1>4 DEF Written
  <2>2. Adds
    BY <1>1, <1>4, <2>1 DEF Adds
  <2>3. \A k \in 1 .. n : Behind(items[k]) <= d'.len
    BY <1>1, <1>3 DEF Chained
  <2>4. Chained'
    BY <1>1, <2>1, <2>3 DEF Chained
  <2>5. WriterInv'
    BY <1>4, <2>1, <2>4 DEF WriterInv, StreamIInv
  <2> QED
    BY <2>2, <2>5, AddsKeeps
<1>5. CASE d'.ok
  <2>1. items' = Append(items, new)
    BY <1>5 DEF Written, new
  <2>2. /\ Len(items') = n + 1 /\ items'[n + 1] = new /\ items' # <<>>
        /\ \A k \in 1 .. n : items'[k] = items[k]
    BY <1>1, <1>2, <2>1, AppendFacts
  <2>3. Adds
    BY <1>1, <1>2, <2>1 DEF Adds
  <2>4. d'.len = Behind(new)
    BY <1>2, <1>5
  <2>5. d.len = IF items = <<>> THEN 0 ELSE Behind(items[n])
    BY <1>1 DEF Complete
  <2>6. Chained'
    <3>1. items'[1].at = 0
      <4>1. CASE items = <<>>
        BY <1>1, <1>2, <2>2, <2>5, <4>1
      <4>2. CASE items # <<>>
        <5>1. 1 \in 1 .. n
          BY <1>1, <4>2
        <5> QED
          BY <1>1, <2>2, <4>2, <5>1 DEF Chained
      <4> QED
        BY <4>1, <4>2
    <3>2. ASSUME NEW j \in 1 .. n
          PROVE  items'[j + 1].at = Behind(items'[j])
      <4>1. CASE j = n
        <5>1. items # <<>>
          BY <1>1, <4>1
        <5> QED
          BY <1>2, <2>2, <2>5, <4>1, <5>1
      <4>2. CASE j # n
        <5>1. j \in 1 .. n - 1 /\ j + 1 \in 1 .. n
          BY <1>1, <4>2
        <5> QED
          BY <1>1, <2>2, <5>1 DEF Chained
      <4> QED
        BY <4>1, <4>2
    <3>3. ASSUME NEW j \in 1 .. n + 1, NEW k \in 1 .. n + 1, j < k
          PROVE  Behind(items'[j]) <= items'[k].at
      <4>1. j \in 1 .. n
        BY <1>1, <3>3
      <4>2. CASE k = n + 1
        BY <1>1, <1>2, <2>2, <4>1, <4>2 DEF Chained
      <4>3. CASE k # n + 1
        <5>1. k \in 1 .. n
          BY <1>1, <4>3
        <5> QED
          BY <1>1, <2>2, <3>3, <4>1, <5>1 DEF Chained
      <4> QED
        BY <4>2, <4>3
    <3>4. ASSUME NEW k \in 1 .. n + 1
          PROVE  Behind(items'[k]) <= d'.len
      <4>1. CASE k = n + 1
        BY <1>1, <2>2, <2>4, <4>1
      <4>2. CASE k # n + 1
        <5>1. k \in 1 .. n
          BY <1>1, <4>2
        <5>2. Behind(items[k]) <= d.len /\ Behind(items[k]) \in Nat
          BY <1>1, <1>3, <5>1 DEF Chained
        <5> QED
          BY <1>1, <2>2, <5>1, <5>2
      <4> QED
        BY <4>1, <4>2
    <3>5. n + 1 - 1 = n
      BY <1>1
    <3> QED
      BY <2>2, <3>1, <3>2, <3>3, <3>4, <3>5 DEF Chained
  <2>7. Complete'
    <3>1. PICK max \in Sizes : d.len <= n * (U64 + U32 + max)
      BY <1>1 DEF Complete
    <3>2. PICK m \in Sizes : d.len + (U64 + U32 + len) <= (n + 1) * (U64 + U32 + m)
      BY <1>1, <3>1, OneMoreFits
    <3>3. d'.len <= d.len + (U64 + U32 + len)
      <4>1. HeaderSize(kind) \in Nat /\ HeaderSize(kind) <= U64 + U32 /\ len \in Nat
        BY <1>2, ItemFacts, SizesFacts DEF new
      <4> QED
        BY <1>1, <1>5, <4>1, SizesFacts
    <3>4. d'.len <= (n + 1) * (U64 + U32 + m)
      <4> DEFINE k == U64 + U32 + m   x == U64 + U32 + len
      <4>1. k \in Nat /\ x \in Nat
        BY SizesFacts
      <4> HIDE DEF k, x
      <4>2. (n + 1) * k \in Nat
        BY <1>1, <4>1
      <4>3. d'.len <= d.len + x /\ d.len + x <= (n + 1) * k
        BY <3>2, <3>3 DEF k, x
      <4>4. d'.len <= (n + 1) * k
        BY <1>1, <4>1, <4>2, <4>3
      <4> QED
        BY <4>4 DEF k
    <3> QED
      BY <2>2, <2>4, <3>4 DEF Complete
  <2>8. n + 1 <= MaxItems
    BY <1>1
  <2>9. WriterInv'
    BY <1>5, <2>2, <2>6, <2>7, <2>8 DEF WriterInv
  <2> QED
    BY <2>3, <2>9, AddsKeeps
<1> QED
  BY <1>4, <1>5

LEMMA OutcomesFacts ==
  ASSUME NEW n \in Nat
  PROVE  Outcomes(n) \subseteq BOOLEAN
<1>1. (n > 0) \in BOOLEAN
  OBVIOUS
<1>2. {n > 0} \subseteq BOOLEAN
  BY <1>1, Zenon
<1> QED
  BY <1>2, Zenon DEF Outcomes

LEMMA WriterStep ==
  ASSUME StreamIInv, Writer
  PROVE  StreamIInv'
<1> DEFINE n == Len(items)
<1>1. /\ d \in Buffer /\ d.safe /\ d.len \in Nat /\ Len(items) \in Nat /\ UNCHANGED <<readerVars, src, arrived, closed>>
      /\ d.ok /\ stage # "destroyed" => Good(d) /\ d.heap = Owned(d)
      /\ Outcomes(1) \subseteq BOOLEAN
  <2>1. Outcomes(1) \subseteq BOOLEAN
    BY OutcomesFacts
  <2> QED
    BY <2>1 DEF StreamIInv, Types, WriterInv, Writer, Buffer, SizeT
<1>2. ASSUME MaySerialize, NEW len \in Sizes
      PROVE  /\ d.len + (U64 + U32 + len) \in SizeT /\ d.len + U64 \in SizeT /\ d.len + U32 \in SizeT
             /\ d.len + U32 + len \in SizeT /\ {U32, U64, len} \subseteq SizeT
             /\ Good(d) /\ d.ok /\ d.heap = Owned(d)
  <2>1. n < MaxItems /\ d.ok /\ stage # "destroyed" /\ Complete
    BY <1>2 DEF MaySerialize, StreamIInv, WriterInv
  <2>2. PICK max \in Sizes : d.len <= n * (U64 + U32 + max)
    BY <2>1 DEF Complete
  <2>3. d.len + (U64 + U32 + len) <= SizeMax
    BY <1>1, <2>1, <2>2, OneMoreFits
  <2>4. U32 \in Nat /\ U64 \in Nat /\ len \in Nat /\ d.len \in Nat /\ SizeMax \in Nat
    BY <1>1, SizesFacts, SizeAssumption
  <2>5. /\ d.len + (U64 + U32 + len) \in SizeT /\ d.len + U64 \in SizeT /\ d.len + U32 \in SizeT
        /\ d.len + U32 + len \in SizeT /\ U32 \in SizeT /\ U64 \in SizeT /\ len \in SizeT
    BY <2>3, <2>4 DEF SizeT
  <2> QED
    BY <1>1, <2>1, <2>5
<1>3. ASSUME NEW got \in BOOLEAN, SerializeU32(got)
      PROVE  StreamIInv'
  <2>1. MaySerialize /\ d' = _serialize_cpy(d, U32, got) /\ Written("u32", 0) /\ 0 \in Sizes /\ "u32" \in Kinds
    BY <1>3, SizesFacts DEF SerializeU32, Kinds
  <2>2. /\ d' \in Buffer /\ d'.safe = d.safe /\ d'.len >= d.len
        /\ d'.ok => Good(d') /\ d'.heap = Owned(d') /\ d'.len = d.len + U32
    BY <1>2, <2>1, SizesFacts, CopyGood
  <2>3. HeaderSize("u32") = U32 /\ d.len + U32 + 0 = d.len + U32
    BY <1>1, SizesFacts DEF HeaderSize
  <2> QED
    BY <1>1, <2>1, <2>2, <2>3, WrittenKeeps
<1>4. ASSUME NEW got \in BOOLEAN, SerializeU64(got)
      PROVE  StreamIInv'
  <2>1. MaySerialize /\ d' = _serialize_cpy(d, U64, got) /\ Written("u64", 0) /\ 0 \in Sizes /\ "u64" \in Kinds
    BY <1>4, SizesFacts DEF SerializeU64, Kinds
  <2>2. /\ d' \in Buffer /\ d'.safe = d.safe /\ d'.len >= d.len
        /\ d'.ok => Good(d') /\ d'.heap = Owned(d') /\ d'.len = d.len + U64
    BY <1>2, <2>1, SizesFacts, CopyGood
  <2>3. HeaderSize("u64") = U64 /\ d.len + U64 + 0 = d.len + U64
    BY <1>1, SizesFacts DEF HeaderSize
  <2> QED
    BY <1>1, <2>1, <2>2, <2>3, WrittenKeeps
<1>5. ASSUME NEW got \in BOOLEAN, NEW got2 \in BOOLEAN, NEW len \in Strings, SerializeBuf(len, got, got2)
      PROVE  StreamIInv'
  <2> DEFINE head == _serialize_cpy(d, U32, got)
  <2>1. MaySerialize /\ d' = serialize_buf(d, len, got, got2) /\ Written("buf", len) /\ len \in Sizes /\ "buf" \in Kinds
    BY <1>5 DEF SerializeBuf, Kinds, Sizes
  <2>2. /\ head \in Buffer /\ head.safe = d.safe /\ head.len >= d.len
        /\ head.ok => Good(head) /\ head.heap = Owned(head) /\ head.len = d.len + U32 /\ head.b
    BY <1>2, <2>1, SizesFacts, CopyGood
  <2>3. d' = IF head.ok THEN _serialize_cpy(head, len, got2) ELSE head
    BY <2>1 DEF serialize_buf
  <2> HIDE DEF head
  <2>4. CASE ~ head.ok
    BY <1>1, <2>1, <2>2, <2>3, <2>4, WrittenKeeps
  <2>5. CASE head.ok
    <3>1. head.len + len \in SizeT /\ len \in SizeT
      BY <1>2, <2>1, <2>2, <2>5
    <3>2. /\ d' \in Buffer /\ d'.safe = head.safe /\ d'.len >= head.len
          /\ d'.ok => Good(d') /\ d'.heap = Owned(d') /\ d'.len = head.len + len
      BY <2>2, <2>3, <2>5, <3>1, CopyGood
    <3>3. d'.len >= d.len /\ HeaderSize("buf") = U32
      BY <1>1, <2>2, <3>2, SMTT(60) DEF Buffer, SizeT, HeaderSize
    <3> QED
      BY <1>1, <2>1, <2>2, <2>5, <3>2, <3>3, WrittenKeeps
  <2> QED
    BY <2>4, <2>5
<1>6. ASSUME NEW got \in BOOLEAN, NEW len \in Lengths, SerializeAllocate(len, got)
      PROVE  StreamIInv'
  <2>1. /\ d' = serialize_allocate(d, len, got) /\ d.ok /\ Good(d) /\ d.heap = Owned(d)
        /\ UNCHANGED <<items, stage>> /\ len \in SizeT /\ stage # "destroyed"
    BY <1>1, <1>6, CallerAssumption DEF SerializeAllocate, MaySerialize, SizeT
  <2>2. Resized(d, d') /\ d'.len = d.len
    BY <2>1, SerializeResizes
  <2>3. d' \in Buffer /\ d'.safe = d.safe /\ (d'.ok => Good(d') /\ d'.heap = Owned(d'))
    BY <2>1, <2>2 DEF Resized, Owned, Good, Buffer
  <2>4. Adds
    BY <1>1, <2>1, <2>2, <2>3 DEF Adds
  <2>5. Chained' /\ (d.ok => Complete')
    BY <2>1, <2>2 DEF Chained, Complete, StreamIInv, WriterInv
  <2>6. WriterInv'
    BY <2>1, <2>3, <2>5 DEF WriterInv, StreamIInv
  <2> QED
    BY <1>1, <2>4, <2>6, AddsKeeps
<1>7. ASSUME NEW invalidate \in BOOLEAN, SerializeDestroy(invalidate)
      PROVE  StreamIInv'
  <2> DEFINE text == IF invalidate /\ d.b THEN 0 ELSE d.text
  <2>1. /\ d.ok /\ Good(d) /\ d.heap = Owned(d) /\ UNCHANGED items /\ stage' = "destroyed"
        /\ d' = [d EXCEPT !.heap = IF d.b THEN @ - 1 ELSE @, !.text = text]
    BY <1>1, <1>7 DEF SerializeDestroy
  <2>2. (IF d.b THEN d.heap - 1 ELSE d.heap) = 0 /\ text \in SizeT
    BY <1>1, <2>1, SizeAssumption DEF Owned, Buffer, SizeT
  <2>3. d' = [d EXCEPT !.heap = 0, !.text = text]
    BY <1>1, <2>1, <2>2 DEF Buffer
  <2> HIDE DEF text
  <2>4. d' \in Buffer /\ d'.safe = d.safe /\ d'.len = d.len /\ d'.ok = d.ok
    BY <1>1, <2>2, <2>3 DEF Buffer
  <2>5. Adds
    BY <1>1, <2>1, <2>4 DEF Adds
  <2>6. Chained' /\ (d.ok => Complete')
    BY <2>1, <2>4 DEF Chained, Complete, StreamIInv, WriterInv
  <2>7. WriterInv'
    BY <2>1, <2>4, <2>6 DEF WriterInv, StreamIInv
  <2> QED
    BY <1>1, <2>5, <2>7, AddsKeeps
<1> QED
  BY <1>1, <1>3, <1>4, <1>5, <1>6, <1>7 DEF Writer

-----------------------------------------------------------------------------
(* The ends of a call                                                      *)

(* The stream is where it was, or further on.                              *)
Moves ==
  /\ DOMAIN src' = {"type", "pos", "cnt"} /\ src'.type = src.type
  /\ src'.pos \in Nat /\ src'.cnt \in Nat
  /\ src.type = "mem" => src'.pos + src'.cnt = src.pos + src.cnt
  /\ src.type = "fd" => src'.pos <= arrived
  /\ UNCHANGED <<serVars, arrived, closed>>

(* It is still the same call.                                              *)
Same(c) ==
  c \in CallType /\ c.name = call.name /\ c.from = call.from /\ c.cnt = call.cnt

(* The value was copied as it was written, and all of it.                  *)
Whole(c) ==
  /\ Same(c) /\ c.right
  /\ src'.pos = c.from + PieceSize(c.name) + (IF c.name \in Buffers THEN c.len ELSE 0)
  /\ c.name \in Buffers => LengthIs(c.from, c.len)

LEMMA NoCallFacts ==
  /\ NoCall \in CallType /\ NoCall.from = 0 /\ NoCall.cnt = 0 /\ NoCall.name = "none" /\ NoCall.at = "idle"
  /\ [NoCall EXCEPT !.at = "done"] \in CallType /\ [NoCall EXCEPT !.at = "done"].at = "done"
  /\ [NoCall EXCEPT !.at = "done"].from = 0 /\ [NoCall EXCEPT !.at = "done"].cnt = 0
  /\ [NoCall EXCEPT !.at = "stopped"] \in CallType /\ [NoCall EXCEPT !.at = "stopped"].at = "stopped"
  /\ [NoCall EXCEPT !.at = "stopped"].from = 0 /\ [NoCall EXCEPT !.at = "stopped"].cnt = 0
<1>1. 0 \in 0 .. U32Max
  BY ReaderAssumption DEF SizeT
<1> QED
  BY <1>1 DEF NoCall, CallType, Names

(* The stream and the call when the call has ended.                        *)
LEMMA SourceKeeps ==
  ASSUME StreamIInv, Copying, Moves, call' \in CallType,
         (call'.from = call.from /\ call'.cnt = call.cnt) \/ (call'.from = 0 /\ call'.cnt = 0)
  PROVE  SourceInv'
<1>1. /\ d.len \in Nat /\ d' = d /\ arrived' = arrived /\ stage' = stage /\ src'.type = src.type
      /\ src.type \in {"mem", "fd", "generic"}
  BY DEF StreamIInv, Types, Buffer, SizeT, Moves, serVars, CallInv
<1>2. src.type = "mem" => src'.pos + src'.cnt <= d.len /\ call'.from + call'.cnt <= d.len
  BY <1>1 DEF StreamIInv, SourceInv, Moves
<1> QED
  BY <1>1, <1>2 DEF StreamIInv, SourceInv, Moves

LEMMA EndKeeps ==
  ASSUME StreamIInv, Copying, Moves, BufInv', call' \in CallType,
         (call'.from = call.from /\ call'.cnt = call.cnt) \/ (call'.from = 0 /\ call'.cnt = 0),
         call'.at \in {"done", "failed", "stopped"},
         results' \in Seq(Nat), astray' \in BOOLEAN, RefusalInv', OrderInv'
  PROVE  StreamIInv'
<1>1. SourceInv'
  BY SourceKeeps
<1>2. Types'
  BY DEF StreamIInv, Types, Moves, serVars
<1>3. WriterInv'
  BY DEF StreamIInv, WriterInv, Chained, Complete, Moves, serVars
<1>4. CallInv'
  BY DEF CallInv, Copying
<1> QED
  BY <1>1, <1>2, <1>3, <1>4 DEF StreamIInv

LEMMA RefusesKeeps ==
  ASSUME StreamIInv, Copying, Moves, BufInv', NEW c, Same(c), Just(c), Refuses(c)
  PROVE  StreamIInv'
<1>1. /\ call' \in CallType /\ call'.from = call.from /\ call'.cnt = call.cnt
      /\ call'.at = "failed" /\ call'.name = c.name /\ call'.room = c.room
      /\ c.from = call.from /\ c.cnt = call.cnt
  BY DEF Refuses, Same, CallType
<1>2. UNCHANGED <<results, astray, items, d>> /\ src'.type = src.type
  BY DEF Refuses, Moves, serVars
<1>3. RefusalInv'
  BY <1>1, <1>2 DEF RefusalInv, Just
<1>4. OrderInv'
  BY <1>1, <1>2 DEF StreamIInv, OrderInv, AtNext, NextAt, Copying
<1>5. results' \in Seq(Nat) /\ astray' \in BOOLEAN
  BY <1>2 DEF StreamIInv, Types
<1>6. /\ call' \in CallType /\ call'.from = call.from /\ call'.cnt = call.cnt
      /\ call'.at \in {"done", "failed", "stopped"}
  BY <1>1
<1> QED
  BY <1>3, <1>4, <1>5, <1>6, EndKeeps

LEMMA StopsKeeps ==
  ASSUME StreamIInv, Copying, Moves, BufInv', Stops
  PROVE  StreamIInv'
<1>1. /\ call' \in CallType /\ call'.from = 0 /\ call'.cnt = 0 /\ call'.at = "stopped"
  BY NoCallFacts DEF Stops
<1>2. UNCHANGED <<results, items>> /\ astray' = ~ InOrder
  BY DEF Stops, Moves, serVars
<1>3. astray' \in BOOLEAN /\ (~ astray' => ~ astray)
  BY <1>2 DEF InOrder
<1>4. RefusalInv' /\ OrderInv'
  BY <1>1, <1>2, <1>3 DEF StreamIInv, RefusalInv, OrderInv, AtNext
<1> QED
  BY <1>1, <1>2, <1>3, <1>4, EndKeeps DEF StreamIInv, Types

(* What starts where the reader is, is the next value.                     *)
LEMMA OneStartsThere ==
  ASSUME StreamIInv, NEW j \in 1 .. Len(items), NEW k \in 1 .. Len(items), items[j].at = items[k].at
  PROVE  j = k
<1>1. \A i \in 1 .. Len(items) : items[i].at \in Nat /\ Behind(items[i]) \in Nat /\ items[i].at < Behind(items[i])
  BY ItemsFacts, ItemFacts DEF StreamIInv, Types
<1>2. \A a, b \in 1 .. Len(items) : a < b => items[a].at < items[b].at
  <2> SUFFICES ASSUME NEW a \in 1 .. Len(items), NEW b \in 1 .. Len(items), a < b
               PROVE  items[a].at < items[b].at
    OBVIOUS
  <2>1. Behind(items[a]) <= items[b].at
    BY DEF StreamIInv, WriterInv, Chained
  <2>2. /\ items[a].at \in Nat /\ items[b].at \in Nat /\ Behind(items[a]) \in Nat
        /\ items[a].at < Behind(items[a])
    BY <1>1
  <2> QED
    BY <2>1, <2>2, SMTT(60)
<1>3. Len(items) \in Nat
  BY DEF StreamIInv, Types
<1> QED
  BY <1>1, <1>2, <1>3

(* A call for the next value that ends has read it, and the reader is      *)
(* behind it.                                                              *)
LEMMA SucceedsKeeps ==
  ASSUME StreamIInv, Copying, Moves, BufInv', NEW c, Whole(c), Succeeds(c)
  PROVE  StreamIInv'
<1> DEFINE n == Len(results)
<1>1. /\ call' \in CallType /\ call'.from = 0 /\ call'.cnt = 0 /\ call'.at = "done"
      /\ UNCHANGED <<items, d>> /\ astray' = ~ InOrder /\ c.name = call.name /\ c.from = call.from
      /\ results' = IF InOrder THEN Append(results, ValueOf(c)) ELSE results
      /\ results \in Seq(Nat) /\ n \in Nat /\ Len(items) \in Nat /\ items \in Seq(Item)
  BY NoCallFacts DEF Succeeds, Moves, serVars, Whole, Same, StreamIInv, Types
<1>2. RefusalInv'
  BY <1>1 DEF RefusalInv
<1>3. CASE ~ InOrder
  <2>1. results' = results /\ astray' = TRUE /\ OrderInv'
    BY <1>1, <1>3 DEF OrderInv
  <2> QED
    BY <1>1, <1>2, <2>1, EndKeeps
<1>4. CASE InOrder
  <2> DEFINE item == items[n + 1]
             is   == {k \in 1 .. Len(items) :
                        /\ c.right /\ items[k].at = c.from
                        /\ Matches(c.name, items[k].kind)
                        /\ c.name \in Buffers => items[k].len = c.len}
  <2>1. /\ ~ astray /\ n < Len(items) /\ n + 1 \in 1 .. Len(items) /\ Matches(c.name, item.kind)
    BY <1>1, <1>4 DEF InOrder
  <2>2. /\ \A i \in 1 .. n : results[i] = i
        /\ c.from = item.at
    BY <1>1, <2>1 DEF StreamIInv, OrderInv, AtNext, NextAt, Copying
  <2>3. c.right /\ (c.name \in Buffers => item.len = c.len)
    <3>1. c.name \in Buffers => item.kind = "buf"
      BY <2>1 DEF Matches
    <3> QED
      BY <2>1, <2>2, <3>1 DEF Whole, LengthIs
  <2>4. ValueOf(c) = n + 1
    <3>1. n + 1 \in is
      BY <2>1, <2>2, <2>3
    <3>2. \A k \in is : k = n + 1
      BY <2>1, <2>2, OneStartsThere
    <3>3. ValueOf(c) = IF is = {} THEN 0 ELSE CHOOSE k \in is : TRUE
      BY DEF ValueOf
    <3> HIDE DEF is
    <3>4. (CHOOSE k \in is : TRUE) \in is
      BY <3>1
    <3> QED
      BY <3>1, <3>2, <3>3, <3>4
  <2>5. results' = Append(results, n + 1) /\ astray' = FALSE
    BY <1>1, <1>4, <2>4
  <2>6. /\ results' \in Seq(Nat) /\ Len(results') = n + 1 /\ Len(results') <= Len(items')
        /\ \A i \in 1 .. Len(results') : results'[i] = i
    BY <1>1, <2>1, <2>2, <2>5
  <2>7. src'.pos = Behind(item)
    <3>1. item \in Item /\ item.len \in Nat /\ item.kind \in Kinds
      BY <1>1, <2>1, ItemsFacts, ItemFacts
    <3>2. CASE c.name \in Buffers
      <4>1. item.kind = "buf" /\ PieceSize(c.name) = U32 /\ HeaderSize("buf") = U32
        BY <2>1, <3>2 DEF Matches, Buffers, PieceSize, HeaderSize
      <4> QED
        BY <2>2, <2>3, <3>2, <4>1 DEF Whole, Behind
    <3>3. CASE c.name \notin Buffers
      <4>1. item.kind = c.name /\ item.kind # "buf" /\ item.len = 0
        BY <2>1, <3>1, <3>3 DEF Matches, Buffers, Item
      <4>2. PieceSize(c.name) = HeaderSize(item.kind)
        BY <3>1, <4>1 DEF PieceSize, HeaderSize, Kinds
      <4> QED
        BY <2>2, <3>1, <3>3, <4>1, <4>2 DEF Whole, Behind
    <3> QED
      BY <3>2, <3>3
  <2>8. ASSUME n + 1 < Len(items) \/ d.ok
        PROVE  src'.pos = NextAt'
    <3>1. CASE n + 1 < Len(items)
      <4>1. n + 1 \in 1 .. Len(items) - 1 /\ items[n + 1 + 1].at = Behind(item)
        BY <1>1, <2>1, <3>1 DEF StreamIInv, WriterInv, Chained
      <4> QED
        BY <1>1, <2>6, <2>7, <3>1, <4>1 DEF NextAt
    <3>2. CASE n + 1 = Len(items)
      <4>1. items # <<>> /\ d.ok
        BY <1>1, <2>8, <3>2
      <4>2. d.len = Behind(items[Len(items)])
        BY <4>1 DEF StreamIInv, WriterInv, Complete
      <4>3. ~ (Len(results') < Len(items'))
        BY <1>1, <2>6, <3>2
      <4>4. NextAt' = d'.len
        BY <4>3 DEF NextAt
      <4> QED
        BY <1>1, <2>7, <3>2, <4>2, <4>4
    <3> QED
      BY <1>1, <2>1, <3>1, <3>2
  <2>9. OrderInv'
    BY <1>1, <2>5, <2>6, <2>8 DEF OrderInv, AtNext
  <2> QED
    BY <1>1, <1>2, <2>5, <2>6, <2>9, EndKeeps
<1> QED
  BY <1>3, <1>4

-----------------------------------------------------------------------------
(* The buffers that are filled                                             *)

LEMMA BufFacts ==
  ASSUME StreamIInv
  PROVE  /\ s \in Buffer /\ s.safe /\ given \in Nat /\ lost \in Nat
         /\ s.heap \in Nat /\ Owned(s) \in Nat
         /\ life \in {"raw", "live", "gone"} /\ (src.type = "mem" /\ s.ok => lost = 0)
BY DEF StreamIInv, BufInv, NothingLost, Buffer, Owned

(* The blocks of a program that has a live buffer, or none.                *)
LEMMA LiveBuf ==
  ASSUME StreamIInv, src'.type = src.type, s' \in Buffer, s'.safe, life' = "live", lost' = lost,
         given' = given, s.ok, s'.ok => Good(s') /\ s'.heap = given + lost + Owned(s')
  PROVE  BufInv'
BY BufFacts DEF BufInv, Live, NothingLost, Owned

LEMMA GoneBuf ==
  ASSUME StreamIInv, src'.type = src.type, s' \in Buffer, s'.safe, life' = "gone",
         lost' \in Nat, given' \in Nat, src.type = "mem" /\ s'.ok => lost' = 0,
         s'.ok => s'.heap = given' + lost'
  PROVE  BufInv'
<1>1. (IF life' = "live" /\ s'.b THEN 1 ELSE 0) = 0 /\ given' + lost' + 0 = given' + lost'
  OBVIOUS
<1> QED
  BY <1>1 DEF BufInv, Live, NothingLost

(* A part is copied behind the one before.                                 *)
LEMMA OverwriteReady ==
  ASSUME NEW q, NEW len \in SizeT, NEW dst \in Nat, NEW n \in Nat, n > 0, dst + n <= len,
         Ready(q, len, dst), q.safe
  PROVE  LET r == Overwrite(q, dst, n)
         IN Ready(r, len, dst + n) /\ r.safe /\ r.ok = q.ok /\ r.heap = q.heap /\ r.b = q.b
<1> DEFINE end == IF dst <= q.end /\ q.end < dst + n THEN Nowhere ELSE q.end
           r == Overwrite(q, dst, n)
<1>1. /\ q \in Buffer /\ q.alloc \in SizeT /\ q.size \in SizeT /\ q.len = 0 /\ q.text = 0 /\ q.b \in BOOLEAN
      /\ len <= q.alloc /\ q.alloc <= q.size /\ (q.b = FALSE => q.size = 0) /\ q.end \in SizeT \cup {Nowhere}
      /\ (q.end # Nowhere => dst <= q.end /\ q.end < q.size)
  BY DEF Ready, Good, Buffer
<1>2. dst + n <= q.size /\ q.b
  BY <1>1 DEF SizeT
<1>3. r = [q EXCEPT !.safe = q.safe, !.end = end]
  BY <1>1, <1>2 DEF Overwrite, Buffer
<1>4. /\ end \in SizeT \cup {Nowhere} /\ 0 <= q.alloc
      /\ end # Nowhere => dst + n <= end /\ end < q.size /\ 0 <= end
  BY <1>1 DEF SizeT, Nowhere
<1> HIDE DEF end
<1>5. /\ r \in Buffer /\ r.safe = q.safe /\ r.ok = q.ok /\ r.heap = q.heap /\ r.b = q.b /\ r.end = end
      /\ r.len = 0 /\ r.text = 0 /\ r.alloc = q.alloc /\ r.size = q.size
  BY <1>1, <1>3, <1>4 DEF Buffer
<1> HIDE DEF r
<1>6. Good(r)
  BY <1>1, <1>4, <1>5 DEF Good
<1> QED
  BY <1>1, <1>4, <1>5, <1>6 DEF Ready, r

(* The text is what was copied.                                            *)
LEMMA LengthGood ==
  ASSUME NEW q, NEW c, c.len \in SizeT, c.right, Ready(q, c.len, c.len)
  PROVE  LET r == SetLength(q, c)
         IN Good(r) /\ r.len = c.len /\ r.safe = q.safe /\ r.ok = q.ok /\ r.heap = q.heap /\ r.b = q.b
<1> DEFINE r == SetLength(q, c)
<1>1. /\ q \in Buffer /\ c.len <= q.alloc /\ q.alloc <= q.size /\ (~ q.b => q.size = 0)
      /\ (q.end # Nowhere => c.len <= q.end /\ q.end < q.size)
  BY DEF Ready, Good
<1>2. r = [q EXCEPT !.len = c.len, !.text = c.len]
  BY DEF SetLength
<1>3. /\ r \in Buffer /\ r.len = c.len /\ r.text = c.len /\ r.safe = q.safe /\ r.ok = q.ok
      /\ r.heap = q.heap /\ r.b = q.b /\ r.alloc = q.alloc /\ r.size = q.size /\ r.end = q.end
  BY <1>1, <1>2 DEF Buffer
<1> HIDE DEF r
<1>4. Good(r)
  BY <1>1, <1>3 DEF Good
<1> QED
  BY <1>3, <1>4 DEF r

(* What a call of strbuf leaves of the caller's share of the heap.         *)
LEMMA SameShare ==
  ASSUME NEW q \in Buffer, NEW r \in Buffer, NEW n \in Nat,
         q.heap = n + Owned(q), r.heap - Owned(r) = q.heap - Owned(q)
  PROVE  r.heap = n + Owned(r)
BY DEF Buffer, Owned

(* The buffer is cut to size, or the program stops.                        *)
LEMMA FinishBufaKeeps ==
  ASSUME StreamIInv, src'.type = src.type, lost' = lost, life = "live", s.ok,
         NEW c, c \in CallType, c.right, NEW q, Ready(q, c.len, c.len), q.safe,
         q.heap = given + lost + Owned(q), FinishBufa(q, c)
  PROVE  BufInv' /\ (Succeeds(c) \/ Stops)
<1> DEFINE x == SetLength(q, c)
<1>1. c.len \in SizeT /\ c.len \in Nat /\ c.optimize \in BOOLEAN
  BY SizesFacts DEF CallType, SizeT
<1>2. Good(x) /\ x.safe = q.safe /\ x.heap = q.heap /\ x.b = q.b
  BY <1>1, LengthGood
<1>3. PICK got \in Outcomes(c.len) :
        /\ s' = IF c.optimize THEN strbuf_shrink(x, got) ELSE x
        /\ IF s'.ok THEN Succeeds(c) ELSE Stops
        /\ UNCHANGED <<life, given>>
  BY DEF FinishBufa
<1>4. got \in BOOLEAN /\ 0 \in SizeT
  BY <1>1, OutcomesFacts, SizeAssumption DEF SizeT
<1> HIDE DEF x
<1>5. Resized(x, s')
  BY <1>2, <1>3, <1>4, ShrinkResizes, SameResizes DEF strbuf_shrink
<1>6. s' \in Buffer /\ s'.safe
  BY <1>2, <1>5 DEF Resized
<1>7. x \in Buffer /\ given + lost \in Nat /\ x.heap = given + lost + Owned(x)
  BY <1>2, BufFacts DEF Good, Owned
<1>8. s'.ok => Good(s') /\ s'.heap = given + lost + Owned(s')
  BY <1>5, <1>6, <1>7, SameShare DEF Resized
<1>9. BufInv'
  BY <1>3, <1>6, <1>8, LiveBuf
<1> QED
  BY <1>3, <1>9

(* The string is handed over, or the program stops.                        *)
LEMMA FinishStraKeeps ==
  ASSUME StreamIInv, src'.type = src.type, lost' = lost, life = "live", s.ok,
         NEW c, c \in CallType, c.right, NEW q, Ready(q, c.len, c.len), q.safe,
         q.heap = given + lost + Owned(q), FinishStra(q, c)
  PROVE  BufInv' /\ (Succeeds(c) \/ Stops)
<1> DEFINE x == SetLength(q, c)
<1>1. c.len \in SizeT /\ c.len \in Nat
  BY SizesFacts DEF CallType, SizeT
<1>2. Good(x) /\ x.safe = q.safe /\ x.heap = q.heap /\ x.b = q.b /\ x.len = c.len
  BY <1>1, LengthGood
<1>3. x \in Buffer /\ given + lost \in Nat /\ x.heap = given + lost + Owned(x)
  BY <1>2, BufFacts DEF Good, Owned
<1>4. Outcomes(1) \subseteq BOOLEAN
  BY OutcomesFacts
<1>5. PICK got \in BOOLEAN, got2 \in BOOLEAN :
        LET str == strbuf_to_str(x, TRUE, got, got2) IN
        IF str.ok
        THEN s' = strbuf_xfer(str, TRUE) /\ given' = given + 1 /\ life' = "gone" /\ Succeeds(c)
        ELSE s' = str /\ UNCHANGED <<given, life>> /\ Stops
  BY <1>4 DEF FinishStra
<1> DEFINE str == strbuf_to_str(x, TRUE, got, got2)
<1> HIDE DEF x
<1>6. /\ str \in Buffer /\ str.safe = x.safe
      /\ str.ok => Good(str) /\ StrLen(str) = x.len /\ str.heap - Owned(str) = x.heap - Owned(x)
  BY <1>2, ToStrGood, ZenonT(60)
<1>7. /\ str.ok => s' = strbuf_xfer(str, TRUE) /\ given' = given + 1 /\ life' = "gone" /\ Succeeds(c)
      /\ ~ str.ok => s' = str /\ UNCHANGED <<given, life>> /\ Stops
  BY <1>5
<1> HIDE DEF str
<1>8. CASE ~ str.ok
  <2>1. BufInv'
    BY <1>2, <1>6, <1>7, <1>8, LiveBuf
  <2> QED
    BY <1>7, <1>8, <2>1
<1>9. CASE str.ok
  <2>1. str.b
    <3>1. StrLen(str) # Nowhere
      BY <1>1, <1>2, <1>6, <1>9 DEF Nowhere
    <3> QED
      BY <3>1 DEF StrLen
  <2>2. s' = NullBuf(str)
    BY <1>7, <1>9, <2>1 DEF strbuf_xfer
  <2>3. s' \in Buffer /\ s'.safe /\ s'.heap = str.heap
    BY <1>2, <1>6, <2>2, NullGood
  <2>4. str.heap = given + lost + Owned(str)
    BY <1>3, <1>6, <1>9, SameShare
  <2>5. given' + lost' = given + lost + 1 /\ given' \in Nat /\ Owned(str) = 1
    BY <1>7, <1>9, <2>1, BufFacts DEF Owned
  <2>6. BufInv'
    BY <1>7, <1>9, <2>3, <2>4, <2>5, BufFacts, GoneBuf
  <2> QED
    BY <1>7, <1>9, <2>6
<1> QED
  BY <1>8, <1>9

-----------------------------------------------------------------------------
(* The pieces of a call                                                    *)

LEMMA CopyingFacts ==
  ASSUME StreamIInv, Copying
  PROVE  /\ call.name # "none" /\ call.right /\ s.ok /\ src.type # "none"
         /\ src.pos = call.start + call.dst
         /\ call.name \in Filling => life = "live" /\ Good(s) /\ s.heap = given + lost + Owned(s)
         /\ src.type = "mem" => src.pos + src.cnt = call.from + call.cnt /\ call.dst = 0
         /\ call \in CallType /\ d.len \in Nat
  BY DEF StreamIInv, CallInv, BufInv, NothingLost, Live, Owned, Types, Buffer, SizeT

LEMMA FinishKeeps ==
  ASSUME StreamIInv, Copying, Moves, NEW c, Whole(c), NEW q, Finish(q, c),
         c.name \in Filling => Ready(q, c.len, c.len) /\ q.safe /\ q.heap = given + lost + Owned(q),
         c.name \notin Filling => q = s
  PROVE  StreamIInv'
<1>1. c \in CallType /\ c.right /\ c.name = call.name /\ src'.type = src.type /\ lost' = lost
  BY DEF Whole, Same, Moves, Finish
<1>2. BufInv' /\ (Succeeds(c) \/ Stops)
  <2>1. CASE c.name = "bufa"
    <3>1. FinishBufa(q, c) /\ c.name \in Filling
      BY <2>1 DEF Finish, Filling
    <3> QED
      BY <1>1, <3>1, CopyingFacts, FinishBufaKeeps
  <2>2. CASE c.name = "stra"
    <3>1. FinishStra(q, c) /\ c.name \in Filling
      BY <2>2 DEF Finish, Filling
    <3> QED
      BY <1>1, <3>1, CopyingFacts, FinishStraKeeps
  <2>3. CASE c.name \notin Filling
    <3>1. s' = s /\ UNCHANGED <<life, given>> /\ Succeeds(c)
      BY <2>3 DEF Finish, Filling
    <3>2. BufInv'
      BY <1>1, <3>1 DEF StreamIInv, BufInv, Live, NothingLost
    <3> QED
      BY <3>1, <3>2
  <2> QED
    BY <2>1, <2>2, <2>3 DEF Filling
<1> QED
  BY <1>2, SucceedsKeeps, StopsKeeps

(* A call fails.  Only when it fails inside of a string a block is lost.   *)
LEMMA FailKeeps ==
  ASSUME StreamIInv, Copying, Moves, NEW c, Same(c), Just(c), Fail(c),
         src.type = "mem" /\ call.name = "stra" => ~ s.b
  PROVE  StreamIInv'
<1>1. Refuses(c) /\ given' = given /\ c.name = call.name /\ src'.type = src.type
  BY DEF Fail, Same, Moves
<1>2. CASE call.name = "stra"
  <2>1. life' = "gone" /\ s' = NullBuf(s) /\ lost' = IF s.b THEN lost + 1 ELSE lost
    BY <1>1, <1>2 DEF Fail
  <2>2. s' \in Buffer /\ s'.safe /\ s'.heap = s.heap
    BY <2>1, BufFacts, NullGood
  <2>3. s.heap = given + lost + Owned(s) /\ s.ok
    BY <1>2, CopyingFacts DEF Filling
  <2>4. lost' = lost + Owned(s) /\ lost' \in Nat /\ given' + lost' = given + lost + Owned(s)
    BY <1>1, <2>1, BufFacts DEF Owned
  <2>5. src.type = "mem" => lost' = 0
    BY <1>2, <2>1, <2>3, BufFacts
  <2>6. BufInv'
    BY <1>1, <2>1, <2>2, <2>3, <2>4, <2>5, BufFacts, GoneBuf
  <2> QED
    BY <1>1, <2>6, RefusesKeeps
<1>3. CASE call.name # "stra"
  <2>1. UNCHANGED <<s, life, lost, given>>
    BY <1>1, <1>3 DEF Fail
  <2>2. BufInv'
    BY <1>1, <2>1 DEF StreamIInv, BufInv, Live, NothingLost
  <2> QED
    BY <1>1, <2>2, RefusesKeeps
<1> QED
  BY <1>2, <1>3

(* The call is not at its end.                                             *)
LEMMA GoesOnKeeps ==
  ASSUME StreamIInv, Copying, Moves, BufInv', CallInv', call' \in CallType,
         call'.from = call.from, call'.cnt = call.cnt, call'.at \in {"head", "body"},
         UNCHANGED <<results, astray>>
  PROVE  StreamIInv'
<1>1. SourceInv'
  BY SourceKeeps
<1>2. Types'
  BY DEF StreamIInv, Types, Moves, serVars
<1>3. WriterInv'
  BY DEF StreamIInv, WriterInv, Chained, Complete, Moves, serVars
<1>4. RefusalInv'
  BY DEF RefusalInv
<1>5. OrderInv'
  BY DEF StreamIInv, OrderInv, AtNext, NextAt, Copying, Moves, serVars
<1> QED
  BY <1>1, <1>2, <1>3, <1>4, <1>5 DEF StreamIInv

(* The bytes of a buffer follow, unless there are none.                    *)
LEMMA BodyKeeps ==
  ASSUME StreamIInv, Copying, Moves, NEW c, Same(c), c.right, c.name \in Buffers,
         src'.pos = c.from + U32, NEW l \in 0 .. U32Max, LengthIs(c.from, l), fits(c, l),
         c.name \in Filling /\ src.type = "mem" => l <= src'.cnt, NEW q, Body(q, c, l),
         c.name \in Filling => /\ Ready(q, l, 0) /\ q.safe /\ q.ok
                               /\ q.heap = given + lost + Owned(q),
         c.name \notin Filling => q = s
  PROVE  StreamIInv'
<1> DEFINE body == [c EXCEPT !.at = "body", !.len = l, !.left = l, !.dst = 0, !.start = src'.pos]
<1>1. /\ body \in CallType /\ body.name = c.name /\ body.from = c.from /\ body.cnt = c.cnt
      /\ body.right = c.right /\ body.at = "body" /\ body.len = l /\ body.left = l /\ body.dst = 0
      /\ body.start = src'.pos /\ body.room = c.room
      /\ c \in CallType /\ c.name = call.name /\ c.from = call.from /\ c.cnt = call.cnt /\ c.from \in Nat
  <2>1. l \in Nat /\ 0 \in Nat /\ src'.pos \in Nat /\ c \in CallType
    BY SizesFacts DEF Moves, Same, SizeT
  <2>2. c.name = call.name /\ c.from = call.from /\ c.cnt = call.cnt
    BY DEF Same
  <2> QED
    BY <2>1, <2>2 DEF CallType
<1>2. PieceSize(c.name) = U32 /\ l \in Nat
  BY SizesFacts DEF PieceSize, Buffers, SizeT
<1>3. IF l = 0 /\ (c.name \in Filling \/ src.type # "generic") THEN Finish(q, body)
      ELSE s' = q /\ call' = body /\ UNCHANGED <<life, given, results, astray, lost>>
  BY DEF Body
<1> HIDE DEF body
<1>4. CASE l = 0 /\ (c.name \in Filling \/ src.type # "generic")
  <2>1. Finish(q, body)
    BY <1>3, <1>4
  <2>2. src'.pos = c.from + U32 + 0
    BY <1>1, SizesFacts
  <2>3. Whole(body)
    BY <1>1, <1>2, <1>4, <2>2 DEF Whole, Same
  <2> QED
    BY <1>1, <1>4, <2>1, <2>3, FinishKeeps
<1>5. CASE ~ (l = 0 /\ (c.name \in Filling \/ src.type # "generic"))
  <2>1. s' = q /\ call' = body /\ UNCHANGED <<life, given, results, astray, lost>> /\ src'.type = src.type
        /\ UNCHANGED items
    BY <1>3, <1>5 DEF Moves, serVars
  <2>2. BufInv' /\ s'.ok
    <3>1. CASE c.name \in Filling
      BY <1>1, <2>1, <3>1, CopyingFacts, LiveBuf DEF Ready, Good
    <3>2. CASE c.name \notin Filling
      BY <1>1, <2>1, <3>2, CopyingFacts DEF StreamIInv, BufInv, Live, NothingLost
    <3> QED
      BY <3>1, <3>2
  <2>3. src.type = "mem" => src'.pos + src'.cnt = c.from + c.cnt
    BY <1>1, CopyingFacts DEF Moves
  <2>4. (fits(call, call.len) /\ LengthIs(call.from, call.len))'
    BY <1>1, <2>1 DEF fits, LengthIs
  <2>5. src'.pos + 0 = src'.pos /\ 0 + l = l /\ c.name # "none"
    BY <1>1, <1>2, CopyingFacts DEF Moves
  <2>6. CallInv'
    BY <1>1, <2>1, <2>2, <2>3, <2>4, <2>5, CopyingFacts DEF CallInv, Copying, Ready
  <2> QED
    BY <1>1, <2>1, <2>2, <2>6, GoesOnKeeps
<1> QED
  BY <1>4, <1>5

LEMMA ClearGood ==
  ASSUME NEW q, Good(q)
  PROVE  LET r == strbuf_clear(q)
         IN Good(r) /\ r.len = 0 /\ r.safe = q.safe /\ r.ok = q.ok /\ r.heap = q.heap /\ r.b = q.b
<1> DEFINE r == strbuf_clear(q)
<1>1. /\ q \in Buffer /\ q.alloc \in SizeT /\ q.alloc <= q.size /\ (~ q.b => q.size = 0)
      /\ (q.end # Nowhere => q.len <= q.end /\ q.end < q.size)
      /\ q.len \in SizeT /\ q.end \in SizeT \cup {Nowhere} /\ 0 \in SizeT
  BY SizeAssumption DEF Good, Buffer, SizeT
<1>2. /\ r \in Buffer /\ r.len = 0 /\ r.text = 0 /\ r.safe = q.safe /\ r.ok = q.ok /\ r.heap = q.heap
      /\ r.b = q.b /\ r.alloc = q.alloc /\ r.size = q.size /\ r.end = q.end
  BY <1>1 DEF strbuf_clear, Buffer
<1> HIDE DEF r
<1>3. Good(r)
  BY <1>1, <1>2 DEF Good, SizeT
<1> QED
  BY <1>2, <1>3 DEF r

(* The buffer is cleared and grows to what the length says.                *)
LEMMA RoomReady ==
  ASSUME NEW q, Good(q), q.ok, q.safe, NEW l \in SizeT, NEW got \in BOOLEAN, NEW n \in Nat,
         q.heap = n + Owned(q)
  PROVE  LET r == strbuf_allocate(strbuf_clear(q), l, got)
         IN /\ r \in Buffer /\ r.safe
            /\ r.ok => Ready(r, l, 0) /\ r.heap = n + Owned(r)
<1> DEFINE x == strbuf_clear(q)
           r == strbuf_allocate(x, l, got)
<1>1. /\ Good(x) /\ x.len = 0 /\ x.ok /\ x.heap = q.heap /\ x.b = q.b /\ x.safe = q.safe
  BY ClearGood
<1> HIDE DEF x
<1>2. /\ Resized(x, r) /\ (r.ok => x.len + l <= r.alloc)
  BY <1>1, AllocateResizes
<1>3. x \in Buffer /\ r \in Buffer /\ x.heap = n + Owned(x) /\ q.safe /\ l \in Nat
  BY <1>1, <1>2 DEF Good, Owned, Resized, SizeT
<1> HIDE DEF r
<1>4. r.safe
  BY <1>1, <1>2, <1>3 DEF Resized
<1>5. ASSUME r.ok
      PROVE  Ready(r, l, 0) /\ r.heap = n + Owned(r)
  <2>1. Good(r) /\ r.len = 0 /\ l <= r.alloc /\ r.heap = n + Owned(r)
    BY <1>1, <1>2, <1>3, <1>5, SameShare DEF Resized
  <2>2. r.end # Nowhere => 0 <= r.end
    BY <2>1 DEF Good, Buffer, SizeT
  <2> QED
    BY <2>1, <2>2 DEF Ready
<1> QED
  BY <1>3, <1>4, <1>5 DEF r, x

(* The length was read: the call is refused, or goes on with the bytes.    *)
LEMMA HeaderKeeps ==
  ASSUME StreamIInv, Copying, call.at = "head", Moves, NEW c, Same(c), c.right,
         c.name \in Buffers, src'.pos = c.from + U32, HeaderRead(c)
  PROVE  StreamIInv'
<1>1. /\ c \in CallType /\ c.name = call.name /\ c.from = call.from /\ c.cnt = call.cnt
      /\ c.from \in Nat /\ c.cnt \in Nat /\ c.room \in Nat /\ Len(items) \in Nat
      /\ src'.cnt \in Nat /\ src'.type = src.type /\ U32 \in Nat
  BY SizesFacts DEF Same, CallType, StreamIInv, Types, Moves
<1>2. PICK l \in LengthsAt(c) :
        IF ~ fits(c, l) \/ ~ _unserialize_is_available(c, src'.cnt, l) THEN Fail(c)
        ELSE IF c.name \in Filling
        THEN \E got \in Outcomes(1) :
               LET room == strbuf_allocate(strbuf_clear(s), l, got) IN
               IF room.ok THEN Body(room, c, l)
               ELSE s' = room /\ Stops /\ UNCHANGED <<life, given, lost>>
        ELSE Body(s, c, l)
  BY DEF HeaderRead
<1>3. l \in 0 .. U32Max /\ LengthIs(c.from, l)
  <2> DEFINE is == {k \in 1 .. Len(items) : c.right /\ items[k].at = c.from /\ items[k].kind = "buf"}
  <2>1. LengthsAt(c) = IF is = {} THEN Garbage ELSE {items[k].len : k \in is}
    BY DEF LengthsAt
  <2>2. CASE is = {}
    BY <1>2, <2>1, <2>2, ReaderAssumption DEF LengthIs
  <2>3. CASE is # {}
    <3>1. PICK j \in is : l = items[j].len
      BY <1>2, <2>1, <2>3
    <3>2. items[j].len \in Sizes /\ j \in 1 .. Len(items) /\ items[j].at = c.from
      BY <3>1, ItemsFacts, ItemFacts DEF StreamIInv, Types
    <3>3. \A k \in 1 .. Len(items) : items[k].at = c.from => k = j
      BY <3>2, OneStartsThere
    <3> QED
      BY <3>1, <3>2, <3>3, SizesFacts DEF LengthIs
  <2> QED
    BY <2>2, <2>3
<1>4. l \in Nat /\ l \in SizeT
  BY <1>3, SizesFacts DEF SizeT
<1>5. src.type = "mem" => src'.cnt + U32 = c.cnt
  <2>1. src.type = "mem" => c.from + U32 + src'.cnt = c.from + c.cnt
    BY <1>1, CopyingFacts DEF Moves
  <2> QED
    BY <1>1, <2>1
<1>6. CASE ~ fits(c, l) \/ ~ _unserialize_is_available(c, src'.cnt, l)
  <2>1. Fail(c)
    BY <1>2, <1>6
  <2>2. Just(c)
    <3> SUFFICES ASSUME src.type = "mem", NEW k \in 1 .. Len(items), items[k].at = c.from,
                        Matches(c.name, items[k].kind)
                 PROVE  \/ c.cnt < HeaderSize(items[k].kind) + items[k].len
                        \/ c.name = "buf" /\ c.room < items[k].len
                        \/ c.name = "str" /\ c.room <= items[k].len
      BY DEF Just
    <3>1. items[k].kind = "buf"
      BY DEF Matches
    <3>2. items[k].len = l /\ HeaderSize(items[k].kind) = U32
      BY <1>3, <3>1 DEF LengthIs, HeaderSize
    <3>3. CASE ~ fits(c, l)
      BY <1>1, <1>4, <3>2, <3>3 DEF fits
    <3>4. CASE ~ _unserialize_is_available(c, src'.cnt, l)
      <4>1. src'.cnt < l
        BY <1>1, <1>4, <3>4 DEF _unserialize_is_available
      <4> QED
        BY <1>1, <1>4, <1>5, <3>2, <4>1
    <3> QED
      BY <1>6, <3>3, <3>4
  <2>3. call.name = "stra" => ~ s.b
    BY DEF StreamIInv, CallInv
  <2> QED
    BY <2>1, <2>2, <2>3, FailKeeps
<1>7. CASE fits(c, l) /\ _unserialize_is_available(c, src'.cnt, l)
  <2>1. c.name \in Filling /\ src.type = "mem" => l <= src'.cnt
    BY <1>1, <1>4, <1>7 DEF _unserialize_is_available
  <2>2. CASE c.name \notin Filling
    <3>1. Body(s, c, l)
      BY <1>2, <1>7, <2>2
    <3> QED
      BY <1>1, <1>3, <1>7, <2>2, <3>1, BodyKeeps
  <2>3. CASE c.name \in Filling
    <3>1. PICK got \in Outcomes(1) :
            LET room == strbuf_allocate(strbuf_clear(s), l, got) IN
            IF room.ok THEN Body(room, c, l)
            ELSE s' = room /\ Stops /\ UNCHANGED <<life, given, lost>>
      BY <1>2, <1>7, <2>3
    <3> DEFINE room == strbuf_allocate(strbuf_clear(s), l, got)
    <3>2. got \in BOOLEAN /\ given + lost \in Nat /\ s.safe
      BY OutcomesFacts, BufFacts
    <3>3. Good(s) /\ s.ok /\ s.heap = given + lost + Owned(s) /\ life = "live"
      BY <1>1, <2>3, CopyingFacts
    <3>4. room \in Buffer /\ room.safe /\ (room.ok => Ready(room, l, 0) /\ room.heap = given + lost + Owned(room))
      BY <1>4, <3>2, <3>3, RoomReady
    <3>5. /\ room.ok => Body(room, c, l)
          /\ ~ room.ok => s' = room /\ Stops /\ UNCHANGED <<life, given, lost>>
      BY <3>1
    <3> HIDE DEF room
    <3>6. CASE room.ok
      BY <1>1, <1>3, <1>7, <2>1, <2>3, <3>4, <3>5, <3>6, BodyKeeps
    <3>7. CASE ~ room.ok
      <4>1. BufInv'
        BY <1>1, <3>3, <3>4, <3>5, <3>7, LiveBuf
      <4> QED
        BY <3>5, <3>7, <4>1, StopsKeeps
    <3> QED
      BY <3>6, <3>7
  <2> QED
    BY <2>2, <2>3
<1> QED
  BY <1>6, <1>7

(* A part is stored behind the one before.                                 *)
LEMMA StoredFacts ==
  ASSUME StreamIInv, Copying, NEW n \in Nat, n <= call.left
  PROVE  LET c == stored(n)
         IN /\ Same(c) /\ c.right /\ c.left = call.left - n /\ c.dst = call.dst + n
            /\ c.at = call.at /\ c.start = call.start /\ c.len = call.len /\ c.room = call.room
            /\ c.left \in Nat /\ c.dst \in Nat /\ c.start \in Nat /\ c.from \in Nat /\ c.len \in Nat
<1> DEFINE c == stored(n)
<1>1. call \in CallType /\ call.right /\ src.pos = call.start + call.dst
  BY CopyingFacts
<1>2. /\ call.left \in Nat /\ call.dst \in Nat /\ call.start \in Nat /\ call.from \in Nat
      /\ call.len \in 0 .. U32Max /\ call.len \in Nat
  BY <1>1 DEF CallType
<1>3. call.dst = src.pos - call.start /\ call.left - n \in Nat /\ call.dst + n \in Nat
  BY <1>1, <1>2
<1>4. c = [call EXCEPT !.left = call.left - n, !.dst = call.dst + n, !.right = TRUE]
  BY <1>1, <1>3 DEF stored, CallType
<1>5. /\ c \in CallType /\ c.right /\ c.left = call.left - n /\ c.dst = call.dst + n
      /\ c.at = call.at /\ c.start = call.start /\ c.len = call.len /\ c.room = call.room
      /\ c.name = call.name /\ c.from = call.from /\ c.cnt = call.cnt
  BY <1>1, <1>3, <1>4 DEF CallType
<1> QED
  BY <1>2, <1>3, <1>5 DEF Same

(* The buffer that is filled, after that.                                  *)
LEMMA FilledReady ==
  ASSUME StreamIInv, call.at = "body", call.name \in Filling, NEW n \in Nat, n <= call.left
  PROVE  LET q == IF n > 0 THEN Overwrite(s, call.dst, n) ELSE s
         IN /\ Ready(q, call.len, call.dst + n) /\ q.safe /\ q.ok
            /\ q.heap = given + lost + Owned(q)
<1>1. /\ Ready(s, call.len, call.dst) /\ call.dst + call.left = call.len /\ Copying
      /\ s.safe /\ call \in CallType
  BY DEF StreamIInv, CallInv, BufInv, Types, Copying
<1>2. s.ok /\ s.heap = given + lost + Owned(s)
  BY <1>1, CopyingFacts
<1>3. call.len \in SizeT /\ call.dst \in Nat /\ call.left \in Nat /\ call.len \in Nat
  BY <1>1, SizesFacts DEF CallType, SizeT
<1>4. CASE n > 0
  <2>1. call.dst + n <= call.len
    BY <1>1, <1>3
  <2> QED
    BY <1>1, <1>2, <1>3, <1>4, <2>1, OverwriteReady DEF Owned
<1>5. CASE ~ (n > 0)
  <2>1. call.dst + n = call.dst
    BY <1>3, <1>5
  <2> QED
    BY <1>1, <1>2, <1>5, <2>1
<1> QED
  BY <1>4, <1>5

(* The stream delivered n bytes of what is left of the piece: all of it    *)
(* from memory, and no more than there are.                                *)
LEMMA CopiedKeeps ==
  ASSUME StreamIInv, Copying, NEW n \in Nat, n <= call.left, Copied(n),
         src.type = "mem" => n = call.left /\ n <= src.cnt,
         src.type = "fd" => src.pos + n <= arrived
  PROVE  StreamIInv'
<1> DEFINE c == stored(n)
           fill == c.at = "body" /\ c.name \in Filling
           q == IF fill /\ n > 0 THEN Overwrite(s, call.dst, n) ELSE s
<1>1. /\ src' = [src EXCEPT !.pos = @ + n, !.cnt = IF src.type = "mem" THEN @ - n ELSE @]
      /\ IF c.left > 0
         THEN call' = c /\ s' = q /\ UNCHANGED <<life, given, results, astray, lost>>
         ELSE IF c.at = "body" \/ c.name \notin Buffers THEN Finish(q, c)
         ELSE HeaderRead(c)
      /\ UNCHANGED <<op, d, items, stage, arrived, closed>>
  BY DEF Copied
<1>2. /\ Same(c) /\ c.right /\ c.left = call.left - n /\ c.dst = call.dst + n
      /\ c.at = call.at /\ c.start = call.start /\ c.len = call.len /\ c.room = call.room
      /\ c.left \in Nat /\ c.dst \in Nat /\ c.start \in Nat /\ c.from \in Nat /\ c.len \in Nat
  BY StoredFacts
<1> HIDE DEF c
<1>3. c \in CallType /\ c.name = call.name /\ c.from = call.from /\ c.cnt = call.cnt
  BY <1>2 DEF Same
<1>4. /\ DOMAIN src = {"type", "pos", "cnt"} /\ src.pos \in Nat /\ src.cnt \in Nat
      /\ src.pos = call.start + call.dst /\ call.start \in Nat /\ call.dst \in Nat /\ call.left \in Nat
  BY CopyingFacts DEF StreamIInv, Types, CallType
<1>5. Moves /\ src'.pos = c.start + c.dst
  <2>1. /\ DOMAIN src' = {"type", "pos", "cnt"} /\ src'.type = src.type /\ src'.pos = src.pos + n
        /\ src'.cnt = IF src.type = "mem" THEN src.cnt - n ELSE src.cnt
    BY <1>1, <1>4
  <2>2. src'.pos \in Nat /\ src'.cnt \in Nat /\ src'.pos = c.start + c.dst
    BY <1>2, <1>4, <2>1
  <2>3. src.type = "mem" => src'.pos + src'.cnt = src.pos + src.cnt
    BY <1>4, <2>1
  <2> QED
    BY <1>1, <2>1, <2>2, <2>3 DEF Moves, serVars
<1>6. /\ fill => Ready(q, c.len, c.dst) /\ q.safe /\ q.ok /\ q.heap = given + lost + Owned(q)
      /\ ~ fill => q = s
  <2>1. CASE fill
    BY <1>2, <1>3, <2>1, FilledReady
  <2> QED
    BY <2>1
<1> HIDE DEF q
<1>7. CASE c.left > 0
  <2>1. /\ call' = c /\ s' = q /\ UNCHANGED <<life, given, results, astray, lost, items>>
        /\ src'.type = src.type /\ src.type # "mem"
    BY <1>1, <1>2, <1>4, <1>5, <1>7 DEF Moves
  <2>2. BufInv' /\ s'.ok
    <3>1. CASE fill
      <4>1. life = "live" /\ s.ok
        BY <1>3, <3>1, CopyingFacts
      <4>2. Good(s') /\ s'.safe /\ s'.ok /\ s'.heap = given + lost + Owned(s') /\ s' \in Buffer
        BY <1>6, <2>1, <3>1 DEF Ready, Good
      <4> QED
        BY <2>1, <4>1, <4>2, LiveBuf
    <3>2. CASE ~ fill
      BY <1>6, <2>1, <3>2, CopyingFacts DEF StreamIInv, BufInv, Live, NothingLost
    <3> QED
      BY <3>1, <3>2
  <2>3. /\ c.right /\ c.name # "none" /\ src.type # "none" /\ (c.name \in Filling => life = "live")
    BY <1>2, <1>3, CopyingFacts
  <2>4. c.at = "head" => /\ c.start = c.from /\ c.dst + c.left = PieceSize(c.name)
                         /\ c.name = "stra" => ~ s'.b
    <3>1. ASSUME c.at = "head"
          PROVE  /\ call.start = call.from /\ call.dst + call.left = PieceSize(call.name)
                 /\ call.name = "stra" => ~ s.b
      BY <1>2, <3>1 DEF StreamIInv, CallInv
    <3> QED
      BY <1>2, <1>3, <1>4, <1>6, <2>1, <3>1
  <2>5. c.at = "body" => /\ c.name \in Buffers /\ c.start = c.from + U32
                         /\ c.dst + c.left = c.len /\ fits(c, c.len)
                         /\ LengthIs(c.from, c.len) /\ (c.name \in Filling => Ready(s', c.len, c.dst))
    <3> SUFFICES ASSUME c.at = "body"
                 PROVE  /\ c.name \in Buffers /\ c.start = c.from + U32
                        /\ c.dst + c.left = c.len /\ fits(c, c.len)
                        /\ LengthIs(c.from, c.len) /\ (c.name \in Filling => Ready(s', c.len, c.dst))
      OBVIOUS
    <3>1. /\ call.name \in Buffers /\ call.start = call.from + U32
          /\ call.dst + call.left = call.len /\ fits(call, call.len)
          /\ LengthIs(call.from, call.len)
      BY <1>2 DEF StreamIInv, CallInv
    <3>2. fits(c, c.len) /\ LengthIs(c.from, c.len)
      BY <1>2, <1>3, <3>1 DEF fits
    <3> QED
      BY <1>2, <1>3, <1>4, <1>6, <2>1, <3>1, <3>2
  <2>6. CallInv'
    <3>1. c.at = "body" => (fits(call, call.len) /\ LengthIs(call.from, call.len))'
      BY <2>1, <2>5 DEF fits, LengthIs
    <3> QED
      BY <1>5, <2>1, <2>2, <2>3, <2>4, <2>5, <3>1 DEF CallInv, Copying
  <2>7. call' \in CallType /\ call'.from = call.from /\ call'.cnt = call.cnt /\ call'.at \in {"head", "body"}
    BY <1>2, <1>3, <2>1 DEF Copying
  <2> QED
    BY <1>5, <2>1, <2>2, <2>6, <2>7, GoesOnKeeps
<1>8. CASE ~ (c.left > 0) /\ (c.at = "body" \/ c.name \notin Buffers)
  <2>1. Finish(q, c) /\ c.left = 0
    BY <1>1, <1>2, <1>8
  <2>2. CASE c.at = "body"
    <3>1. /\ call.name \in Buffers /\ call.start = call.from + U32
          /\ call.dst + call.left = call.len /\ LengthIs(call.from, call.len)
      BY <1>2, <2>2 DEF StreamIInv, CallInv
    <3>2. c.name \in Buffers /\ c.dst = c.len /\ c.start = c.from + U32 /\ PieceSize(c.name) = U32
      BY <1>2, <1>3, <1>4, <2>1, <3>1 DEF PieceSize, Buffers
    <3>3. src'.pos = c.from + PieceSize(c.name) + c.len
      BY <1>5, <3>2
    <3>4. Whole(c)
      BY <1>2, <1>3, <3>1, <3>2, <3>3 DEF Whole
    <3> QED
      BY <1>5, <1>6, <2>1, <2>2, <3>2, <3>4, FinishKeeps
  <2>3. CASE c.at # "body"
    <3>1. call.at = "head" /\ call.start = call.from /\ call.dst + call.left = PieceSize(call.name)
      BY <1>2, <2>3 DEF StreamIInv, CallInv, Copying
    <3>2. c.name \notin Buffers /\ c.name \notin Filling
      BY <1>8, <2>3 DEF Buffers, Filling
    <3>3. src'.pos = c.from + PieceSize(c.name) + 0
      BY <1>2, <1>3, <1>4, <1>5, <2>1, <3>1
    <3>4. Whole(c)
      BY <1>2, <3>2, <3>3 DEF Whole
    <3> QED
      BY <1>5, <1>6, <2>1, <3>2, <3>4, FinishKeeps
  <2> QED
    BY <2>2, <2>3
<1>9. CASE ~ (c.left > 0) /\ ~ (c.at = "body" \/ c.name \notin Buffers)
  <2>1. HeaderRead(c) /\ c.name \in Buffers
    BY <1>1, <1>9
  <2>2. call.at = "head" /\ call.start = call.from /\ call.dst + call.left = PieceSize(call.name)
    BY <1>2, <1>9 DEF StreamIInv, CallInv, Copying
  <2>3. PieceSize(c.name) = U32
    BY <2>1 DEF PieceSize, Buffers
  <2>4. src'.pos = c.from + U32
    BY <1>2, <1>3, <1>4, <1>5, <1>9, <2>2, <2>3
  <2> QED
    BY <1>2, <1>5, <2>1, <2>2, <2>4, HeaderKeeps
<1> QED
  BY <1>7, <1>8, <1>9

-----------------------------------------------------------------------------
(* The steps of the reader                                                 *)

LEMMA StaysMoves ==
  ASSUME StreamIInv, UNCHANGED <<serVars, src, arrived, closed>>
  PROVE  Moves
BY DEF StreamIInv, Types, SourceInv, Moves

(* A call that gives up in the middle of a piece.  From memory it does so  *)
(* only for a piece that is not all there.                                 *)
LEMMA GivesUpKeeps ==
  ASSUME StreamIInv, Copying, Fail(call), UNCHANGED <<serVars, src, arrived, closed>>,
         src.type = "mem" => ~ (call.left <= src.cnt)
  PROVE  StreamIInv'
<1>1. call \in CallType /\ Same(call) /\ Moves
  BY CopyingFacts, StaysMoves DEF Same
<1>2. ASSUME src.type = "mem"
      PROVE  Just(call) /\ (call.name = "stra" => ~ s.b)
  <2>1. /\ src.pos = call.start /\ src.pos + src.cnt = call.from + call.cnt /\ call.dst = 0
        /\ call.start \in Nat /\ call.left \in Nat /\ call.from \in Nat /\ call.cnt \in Nat
        /\ src.cnt \in Nat /\ call.left > src.cnt /\ U32 \in Nat
    BY <1>1, <1>2, CopyingFacts, SizesFacts DEF CallType, StreamIInv, Types
  <2>2. \A k \in 1 .. Len(items) : /\ items[k].kind \in Kinds /\ items[k].len \in Nat
                                   /\ HeaderSize(items[k].kind) \in Nat
    BY ItemsFacts, ItemFacts DEF StreamIInv, Types
  <2>3. CASE call.at = "head"
    <3>1. /\ call.start = call.from /\ call.dst + call.left = PieceSize(call.name)
          /\ call.name = "stra" => ~ s.b
      BY <2>3 DEF StreamIInv, CallInv
    <3>2. call.cnt < PieceSize(call.name)
      BY <2>1, <3>1
    <3>3. ASSUME NEW k \in 1 .. Len(items), Matches(call.name, items[k].kind)
          PROVE  HeaderSize(items[k].kind) = PieceSize(call.name)
      BY <2>2, <3>3 DEF Matches, Buffers, PieceSize, HeaderSize, Kinds
    <3>4. ASSUME NEW k \in 1 .. Len(items), Matches(call.name, items[k].kind)
          PROVE  call.cnt < HeaderSize(items[k].kind) + items[k].len
      BY <2>1, <2>2, <3>2, <3>3, <3>4
    <3> QED
      BY <3>1, <3>4 DEF Just
  <2>4. CASE call.at = "body"
    <3>1. /\ call.name \in Buffers /\ call.start = call.from + U32 /\ call.dst + call.left = call.len
          /\ LengthIs(call.from, call.len) /\ ~ (call.name \in Filling)
      BY <1>2, <2>4 DEF StreamIInv, CallInv
    <3>2. call.cnt < U32 + call.len
      BY <2>1, <3>1
    <3>3. ASSUME NEW k \in 1 .. Len(items), items[k].at = call.from, Matches(call.name, items[k].kind)
          PROVE  call.cnt < HeaderSize(items[k].kind) + items[k].len
      BY <3>1, <3>2, <3>3 DEF Matches, HeaderSize, LengthIs
    <3> QED
      BY <3>1, <3>3 DEF Just, Filling
  <2> QED
    BY <2>3, <2>4 DEF Copying
<1>3. Just(call)
  BY <1>2 DEF Just
<1> QED
  BY <1>1, <1>2, <1>3, FailKeeps

LEMMA GoesOnStep ==
  ASSUME StreamIInv, ReaderGoesOn \/ ErrorFd
  PROVE  StreamIInv'
<1>1. Copying
  BY DEF ReaderGoesOn, CopyMem, EndFd, CopyGeneric, CopyFd, ErrorFd
<1>2. call.left \in Nat /\ src.pos \in Nat /\ arrived \in Nat /\ d.len \in Nat
  BY <1>1, CopyingFacts DEF CallType, StreamIInv, Types
<1>3. CASE CopyMem
  <2>1. src.type = "mem" /\ IF call.left <= src.cnt THEN Copied(call.left)
                            ELSE Fail(call) /\ UNCHANGED <<op, serVars, src, arrived, closed>>
    BY <1>3 DEF CopyMem
  <2>2. CASE call.left <= src.cnt
    <3>1. call.left <= call.left
      BY <1>2
    <3> QED
      BY <1>1, <1>2, <2>1, <2>2, <3>1, CopiedKeeps
  <2>3. CASE ~ (call.left <= src.cnt)
    BY <1>1, <2>1, <2>3, GivesUpKeeps
  <2> QED
    BY <2>2, <2>3
<1>4. ASSUME NEW n \in 1 .. d.len, CopyFd(n)
      PROVE  StreamIInv'
  <2>1. src.type = "fd" /\ n \in 1 .. Smaller(call.left, arrived - src.pos) /\ Copied(n)
    BY <1>4 DEF CopyFd
  <2>2. n \in Nat /\ n <= call.left /\ src.pos + n <= arrived
    BY <1>2, <2>1 DEF Smaller
  <2> QED
    BY <1>1, <2>1, <2>2, CopiedKeeps
<1>5. CASE EndFd \/ ErrorFd
  BY <1>1, <1>5, GivesUpKeeps DEF EndFd, ErrorFd
<1>6. CASE CopyGeneric
  <2>1. /\ src.type = "generic"
        /\ \/ Copied(call.left)
           \/ Fail(call) /\ UNCHANGED <<op, serVars, src, arrived, closed>>
    BY <1>6 DEF CopyGeneric
  <2>2. call.left <= call.left
    BY <1>2
  <2> QED
    BY <1>1, <1>2, <2>1, <2>2, CopiedKeeps, GivesUpKeeps
<1> QED
  BY <1>3, <1>4, <1>5, <1>6 DEF ReaderGoesOn

(* A call starts where the reader is.                                      *)
LEMMA BeginKeeps ==
  ASSUME StreamIInv, MayCall, NEW name \in Names, name # "none", NEW room \in Nat,
         NEW optimize \in BOOLEAN, Begin(name, room, optimize), s' \in Buffer, s'.ok, BufInv',
         name \in Filling => life' = "live", name = "stra" => ~ s'.b
  PROVE  StreamIInv'
<1>1. /\ src.type # "none" /\ call.at \in {"idle", "done", "failed"}
      /\ src.pos \in Nat /\ src.cnt \in Nat /\ d.len \in Nat /\ arrived \in Nat
  BY DEF MayCall, StreamIInv, Types, Buffer, SizeT
<1>2. /\ call' = [NoCall EXCEPT !.name = name, !.at = "head", !.left = PieceSize(name),
                                !.start = src.pos, !.from = src.pos, !.room = room,
                                !.optimize = optimize, !.cnt = src.cnt]
      /\ astray' = (astray \/ call.at = "failed")
      /\ UNCHANGED <<given, d, items, stage, src, arrived, closed, results, lost>>
  BY DEF Begin, serVars
<1>3. PieceSize(name) \in Nat
  BY SizesFacts DEF PieceSize
<1>4. /\ call' \in CallType /\ call'.name = name /\ call'.at = "head" /\ call'.left = PieceSize(name)
      /\ call'.start = src.pos /\ call'.from = src.pos /\ call'.dst = 0 /\ call'.right
      /\ call'.cnt = src.cnt
  BY <1>1, <1>2, <1>3, NoCallFacts, ZenonT(60) DEF CallType, NoCall
<1>5. Types' /\ WriterInv'
  BY <1>2, <1>4 DEF StreamIInv, Types, WriterInv, Chained, Complete
<1>6. SourceInv'
  BY <1>1, <1>2, <1>4 DEF StreamIInv, SourceInv
<1>7. CallInv'
  BY <1>1, <1>2, <1>3, <1>4 DEF CallInv, Copying
<1>8. RefusalInv' /\ OrderInv'
  BY <1>1, <1>2, <1>4 DEF StreamIInv, RefusalInv, OrderInv, AtNext, NextAt
<1> QED
  BY <1>5, <1>6, <1>7, <1>8 DEF StreamIInv

LEMMA RefusedKeeps ==
  ASSUME StreamIInv, MayCall, RefusedAtOnce, UNCHANGED <<s, life>>
  PROVE  StreamIInv'
<1>1. /\ src.type # "none" /\ call.at \in {"idle", "done", "failed"} /\ s.ok
      /\ src.pos \in Nat /\ src.cnt \in Nat /\ d.len \in Nat /\ arrived \in Nat
  BY DEF MayCall, StreamIInv, Types, Buffer, SizeT
<1>2. /\ call' = [NoCall EXCEPT !.name = "str", !.at = "failed", !.from = src.pos, !.cnt = src.cnt]
      /\ astray' = (astray \/ call.at = "failed")
      /\ UNCHANGED <<given, d, items, stage, src, arrived, closed, results, lost>>
  BY DEF RefusedAtOnce, serVars
<1>3. "str" \in Names
  BY DEF Names, Buffers
<1>4. /\ call' \in CallType /\ call'.name = "str" /\ call'.at = "failed" /\ call'.room = 0
      /\ call'.from = src.pos /\ call'.cnt = src.cnt
  BY <1>1, <1>2, <1>3, NoCallFacts, ZenonT(60) DEF CallType, NoCall
<1>5. Types' /\ WriterInv'
  BY <1>2, <1>4 DEF StreamIInv, Types, WriterInv, Chained, Complete
<1>6. SourceInv'
  BY <1>1, <1>2, <1>4 DEF StreamIInv, SourceInv
<1>7. CallInv'
  BY <1>4 DEF CallInv, Copying
<1>8. BufInv'
  BY <1>1, <1>2 DEF StreamIInv, BufInv, Live, NothingLost
<1>9. RefusalInv'
  <2>1. ASSUME NEW k \in 1 .. Len(items)
        PROVE  0 <= items[k].len
    <3>1. items[k] \in Item
      BY DEF StreamIInv, Types
    <3>2. items[k].len \in Nat
      BY <3>1, ItemFacts
    <3> QED
      BY <3>2
  <2> QED
    BY <1>2, <1>4, <2>1 DEF RefusalInv, Just
<1>10. OrderInv'
  BY <1>1, <1>2, <1>4 DEF StreamIInv, OrderInv, AtNext, NextAt
<1> QED
  BY <1>5, <1>6, <1>7, <1>8, <1>9, <1>10 DEF StreamIInv

LEMMA CallsStep ==
  ASSUME StreamIInv, ReaderCalls
  PROVE  StreamIInv'
<1>1. s \in Buffer /\ s.safe /\ 0 \in Nat /\ Rooms \subseteq Nat
  BY BufFacts, ReaderAssumption
<1>2. ASSUME MayCall, UNCHANGED <<s, life>>, NEW name, NEW room, NEW optimize, Begin(name, room, optimize)
      PROVE  s' \in Buffer /\ s'.ok /\ BufInv'
  BY <1>1, <1>2 DEF MayCall, Begin, StreamIInv, BufInv, Live, NothingLost
<1>3. ASSUME NEW name \in {"u16", "u32", "u64"}, UnserializeScalar(name)
      PROVE  StreamIInv'
  <2>1. MayCall /\ Begin(name, 0, FALSE) /\ UNCHANGED <<s, life>>
    BY <1>3 DEF UnserializeScalar
  <2>2. name \in Names /\ name # "none" /\ name \notin Filling /\ name # "stra"
    BY DEF Names, Filling
  <2> QED
    BY <1>1, <1>2, <2>1, <2>2, BeginKeeps
<1>4. ASSUME NEW room \in Rooms, NEW name \in {"buf", "str"}, MayCall, Begin(name, room, FALSE),
             UNCHANGED <<s, life>>
      PROVE  StreamIInv'
  <2>1. name \in Names /\ name # "none" /\ name \notin Filling /\ name # "stra"
    BY DEF Names, Filling, Buffers
  <2>2. room \in Nat
    BY <1>1
  <2> QED
    BY <1>2, <1>4, <2>1, <2>2, BeginKeeps
<1>5. ASSUME NEW optimize \in BOOLEAN, UnserializeBufa(optimize)
      PROVE  StreamIInv'
  <2>1. MayCall /\ life = "live" /\ Begin("bufa", 0, optimize) /\ UNCHANGED <<s, life>>
    BY <1>5 DEF UnserializeBufa
  <2>2. "bufa" \in Names
    BY DEF Names, Buffers
  <2> QED
    BY <1>1, <1>2, <2>1, <2>2, BeginKeeps
<1>6. CASE UnserializeStra
  <2>1. /\ MayCall /\ life # "live" /\ Begin("stra", 0, FALSE) /\ s' = NullBuf(s) /\ life' = "live"
        /\ s.ok /\ "stra" \in Names /\ UNCHANGED <<given, lost, src>>
    BY <1>6 DEF UnserializeStra, MayCall, strbuf_init, Names, Buffers, Begin
  <2>2. Good(s') /\ s' \in Buffer /\ s'.safe /\ s'.ok /\ s'.b = FALSE /\ s'.heap = s.heap
    BY <1>1, <2>1, NullGood
  <2>3. s.heap = given + lost + 0 /\ Owned(s') = 0
    BY <2>1, <2>2 DEF StreamIInv, BufInv, NothingLost, Owned
  <2>4. BufInv'
    BY <2>1, <2>2, <2>3, LiveBuf
  <2> QED
    BY <1>1, <2>1, <2>2, <2>4, BeginKeeps
<1>7. CASE MayCall /\ RefusedAtOnce /\ UNCHANGED <<s, life>>
  BY <1>7, RefusedKeeps
<1> QED
  BY <1>3, <1>4, <1>5, <1>6, <1>7 DEF ReaderCalls, UnserializeBuf, UnserializeStr

(* What the caller does with his strbuf, and the writer's descriptor.      *)
LEMMA CallerStep ==
  ASSUME StreamIInv, Caller
  PROVE  StreamIInv'
<1>1. /\ ~ Copying /\ UNCHANGED <<serVars, src, arrived, closed, call, results, astray, lost>>
      /\ InitBuf(0, TRUE) \/ Destroy \/ FreeGiven
  BY DEF Caller
<1>2. /\ s \in Buffer /\ s.safe /\ (Live => Good(s)) /\ given \in Nat /\ lost \in Nat /\ s.heap \in Nat
      /\ s.ok => s.heap = given + lost + (IF life = "live" /\ s.b THEN 1 ELSE 0)
  BY BufFacts DEF StreamIInv, BufInv, NothingLost
<1>3. BufInv'
  <2>1. CASE InitBuf(0, TRUE)
    <3>1. /\ s' = NullBuf(s) /\ life' = "live" /\ s.ok /\ (life # "live" \/ ~ s.b) /\ UNCHANGED given
      BY <2>1 DEF InitBuf, Bare, strbuf_init
    <3>2. Good(s') /\ s' \in Buffer /\ s'.safe /\ s'.ok /\ s'.b = FALSE /\ s'.heap = s.heap
      BY <1>2, <3>1, NullGood
    <3>3. s.heap = given + lost + 0 /\ Owned(s') = 0
      BY <1>2, <3>1, <3>2 DEF Owned
    <3> QED
      BY <1>1, <3>1, <3>2, <3>3, LiveBuf
  <2>2. CASE Destroy
    <3> DEFINE heap == IF s.b THEN s.heap - 1 ELSE s.heap
    <3>1. /\ s.ok /\ life = "live" /\ s' = [s EXCEPT !.heap = heap] /\ life' = "gone" /\ UNCHANGED given
      BY <2>2 DEF Destroy, Live, strbuf_destroy
    <3>2. heap \in Nat /\ heap = given + lost
      BY <1>2, <3>1
    <3> HIDE DEF heap
    <3>3. s' \in Buffer /\ s'.safe /\ s'.heap = given + lost
      BY <1>2, <3>1, <3>2 DEF Buffer
    <3> QED
      BY <1>1, <1>2, <3>1, <3>3, BufFacts, GoneBuf
  <2>3. CASE FreeGiven
    <3>1. /\ s.ok /\ given > 0 /\ s' = [s EXCEPT !.heap = s.heap - 1] /\ given' = given - 1
          /\ UNCHANGED life
      BY <2>3 DEF FreeGiven
    <3>2. s.heap - 1 \in Nat /\ given - 1 \in Nat
      BY <1>2, <3>1
    <3>3. /\ s' \in Buffer /\ s'.heap = s.heap - 1 /\ s'.safe /\ s'.ok /\ s'.b = s.b
          /\ Live => Good(s')
      <4>1. /\ s' \in Buffer /\ s'.heap = s.heap - 1 /\ s'.safe = s.safe /\ s'.ok = s.ok /\ s'.b = s.b
            /\ s'.len = s.len /\ s'.alloc = s.alloc /\ s'.size = s.size /\ s'.text = s.text
            /\ s'.end = s.end
        BY <1>2, <3>1, <3>2 DEF Buffer
      <4> QED
        BY <1>2, <3>1, <4>1 DEF Good
    <3>4. s'.heap = given' + lost' + (IF life' = "live" /\ s'.b THEN 1 ELSE 0)
      BY <1>1, <1>2, <3>1, <3>2, <3>3
    <3>5. src.type = "mem" => lost = 0
      BY <3>1, BufFacts
    <3> QED
      BY <1>1, <1>2, <3>1, <3>2, <3>3, <3>4, <3>5, BufFacts DEF BufInv, Live, NothingLost
  <2> QED
    BY <1>1, <2>1, <2>2, <2>3
<1> QED
  BY <1>1, <1>3, ZenonT(60)
     DEF StreamIInv, Types, WriterInv, Chained, Complete, SourceInv, CallInv, Copying, RefusalInv, Just,
         OrderInv, AtNext, NextAt, serVars

(* The stream is opened, delivers a byte, is closed, or is gone back to.   *)
LEMMA OpenStep ==
  ASSUME StreamIInv, NEW type \in Sources,
         NEW cnt \in (IF type = "mem" THEN 0 .. d.len ELSE {0}), Open(type, cnt)
  PROVE  StreamIInv'
<1>1. /\ src.type = "none" /\ stage = "writing" /\ d.ok /\ src' = [type |-> type, pos |-> 0, cnt |-> cnt]
      /\ stage' = IF type = "fd" THEN stage ELSE "reading"
      /\ UNCHANGED <<s, life, given, call, results, astray, lost, d, items, arrived, closed>>
  BY DEF Open, readerVars
<1>2. /\ type \in {"mem", "fd", "generic"} /\ d.len \in Nat /\ cnt \in Nat /\ cnt <= d.len
  BY ReaderAssumption DEF StreamIInv, Types, Buffer, SizeT
<1>3. /\ src.pos = 0 /\ arrived = 0 /\ lost = 0 /\ call = NoCall /\ 0 + cnt = cnt
      /\ call.from = 0 /\ call.cnt = 0 /\ call.at = "idle" /\ 0 <= d.len /\ 0 + 0 = 0
  BY <1>1, <1>2, NoCallFacts DEF StreamIInv, SourceInv
<1>4. /\ DOMAIN src' = {"type", "pos", "cnt"} /\ src'.type = type /\ src'.pos = 0 /\ src'.cnt = cnt
  BY <1>1
<1>5. Types' /\ WriterInv'
  BY <1>1, <1>2, <1>4 DEF StreamIInv, Types, WriterInv, Chained, Complete
<1>6. SourceInv'
  <2>1. type # "fd" => stage' = "reading"
    BY <1>1
  <2> QED
    BY <1>1, <1>2, <1>3, <1>4, <2>1 DEF SourceInv
<1>7. CallInv' /\ RefusalInv'
  BY <1>1, <1>3 DEF CallInv, Copying, RefusalInv
<1>8. BufInv' /\ OrderInv'
  BY <1>1, <1>3, <1>4 DEF StreamIInv, BufInv, Live, NothingLost, OrderInv, AtNext, NextAt
<1> QED
  BY <1>5, <1>6, <1>7, <1>8 DEF StreamIInv

LEMMA ArriveStep ==
  ASSUME StreamIInv, Arrive \/ CloseFd
  PROVE  StreamIInv'
<1>1. /\ src.type = "fd" /\ UNCHANGED <<s, life, given, call, results, astray, lost, d, items, stage, src>>
      /\ arrived' = arrived \/ (arrived < d.len /\ arrived' = arrived + 1)
  BY DEF Arrive, CloseFd, readerVars, serVars
<1>2. arrived \in Nat /\ d.len \in Nat /\ src.pos \in Nat
  BY DEF StreamIInv, Types, Buffer, SizeT
<1>3. arrived' \in Nat /\ SourceInv'
  <2>1. src.pos <= arrived /\ arrived <= d.len
    BY <1>1 DEF StreamIInv, SourceInv
  <2>2. arrived' \in Nat /\ src.pos <= arrived' /\ arrived' <= d.len
    BY <1>1, <1>2, <2>1
  <2> QED
    BY <1>1, <2>2 DEF SourceInv
<1> QED
  BY <1>1, <1>3
     DEF StreamIInv, Types, WriterInv, Chained, Complete, CallInv, Copying, Ready, BufInv, Live,
         NothingLost, RefusalInv, Just, OrderInv, AtNext, NextAt, fits, LengthIs

LEMMA RewindStep ==
  ASSUME StreamIInv, Rewind
  PROVE  StreamIInv'
<1>1. /\ call.at = "failed" /\ src.type = "mem" /\ src' = [src EXCEPT !.pos = call.from, !.cnt = call.cnt]
      /\ call' = NoCall
      /\ UNCHANGED <<s, life, given, d, items, stage, arrived, closed, results, astray, lost>>
  BY DEF Rewind, serVars
<1>2. /\ DOMAIN src = {"type", "pos", "cnt"} /\ call \in CallType /\ d.len \in Nat
  BY DEF StreamIInv, Types, Buffer, SizeT
<1>3. /\ DOMAIN src' = {"type", "pos", "cnt"} /\ src'.type = "mem" /\ src'.pos = call.from
      /\ src'.cnt = call.cnt /\ src'.pos \in Nat /\ src'.cnt \in Nat
  BY <1>1, <1>2 DEF CallType
<1>4. /\ call' \in CallType /\ call'.at = "idle" /\ call'.from + call'.cnt = 0
  BY <1>1, NoCallFacts
<1>5. Types' /\ WriterInv'
  BY <1>1, <1>3, <1>4 DEF StreamIInv, Types, WriterInv, Chained, Complete
<1>6. SourceInv'
  BY <1>1, <1>2, <1>3, <1>4 DEF StreamIInv, SourceInv
<1>7. CallInv' /\ RefusalInv'
  BY <1>4 DEF CallInv, Copying, RefusalInv
<1>8. BufInv' /\ OrderInv'
  BY <1>1, <1>3, <1>4 DEF StreamIInv, BufInv, Live, NothingLost, OrderInv, AtNext, NextAt
<1> QED
  BY <1>5, <1>6, <1>7, <1>8 DEF StreamIInv

LEMMA StreamInitIInv == StreamInit => StreamIInv
<1> SUFFICES ASSUME StreamInit
             PROVE  StreamIInv
  OBVIOUS
<1>1. /\ s = [len |-> 0, alloc |-> 0, b |-> FALSE, size |-> 0, text |-> 0, end |-> Nowhere,
              heap |-> 0, ok |-> TRUE, safe |-> TRUE]
      /\ life = "raw" /\ given = 0 /\ d = s /\ items = <<>> /\ stage = "writing"
      /\ src = [type |-> "none", pos |-> 0, cnt |-> 0] /\ arrived = 0 /\ call = NoCall
      /\ results = <<>> /\ astray = FALSE /\ lost = 0
  BY DEF StreamInit, Init
<1>2. /\ s \in Buffer /\ s.safe /\ s.ok /\ s.b = FALSE /\ s.heap = 0 /\ s.len = 0 /\ Good(s)
      /\ s.heap = Owned(s)
  <2>1. 0 \in SizeT /\ 0 <= 0
    BY SizeAssumption DEF SizeT
  <2>2. s \in Buffer
    BY <1>1, <2>1 DEF Buffer
  <2> QED
    BY <1>1, <2>1, <2>2 DEF Good, Owned
<1>3. Types
  <2>1. /\ DOMAIN src = {"type", "pos", "cnt"} /\ src.type = "none" /\ src.pos = 0 /\ src.cnt = 0
    BY <1>1
  <2>2. items \in Seq(Item) /\ results \in Seq(Nat) /\ 0 \in Nat /\ astray \in BOOLEAN
    <3>1. <<>> \in Seq(Item) /\ <<>> \in Seq(Nat)
      OBVIOUS
    <3> QED
      BY <1>1, <3>1
  <2>3. d \in Buffer /\ call \in CallType
    BY <1>1, <1>2, NoCallFacts
  <2> QED
    BY <1>1, <2>1, <2>2, <2>3 DEF Types
<1>4. WriterInv
  <2>1. Len(items) = 0 /\ 1 .. Len(items) = {} /\ 1 .. Len(items) - 1 = {} /\ 0 <= MaxItems
    BY <1>1, SizesFacts
  <2>2. 0 <= 0 * (U64 + U32 + 0) /\ 0 \in Sizes
    BY SizesFacts
  <2>3. Chained /\ Complete
    BY <1>1, <1>2, <2>1, <2>2 DEF Chained, Complete
  <2> QED
    BY <1>1, <1>2, <2>1, <2>3 DEF WriterInv
<1>5. SourceInv
  BY <1>1 DEF SourceInv
<1>6. CallInv /\ RefusalInv
  BY <1>1, NoCallFacts DEF CallInv, Copying, RefusalInv
<1>7. BufInv
  BY <1>1, <1>2 DEF BufInv, Live, NothingLost
<1>8. OrderInv
  <2>1. Len(results) = 0 /\ Len(items) = 0 /\ 1 .. Len(results) = {} /\ src.pos = NextAt
    BY <1>1, <1>2 DEF NextAt
  <2> QED
    BY <1>1, <2>1, NoCallFacts DEF OrderInv, AtNext
<1> QED
  BY <1>3, <1>4, <1>5, <1>6, <1>7, <1>8 DEF StreamIInv

LEMMA StreamNextIInv ==
  ASSUME StreamIInv, [StreamNext]_streamVars
  PROVE  StreamIInv'
<1>1. CASE UNCHANGED streamVars
  BY <1>1 DEF streamVars, StreamIInv, Types, WriterInv, Chained, Complete, SourceInv, CallInv, Copying,
              Ready, BufInv, Live, NothingLost, RefusalInv, Just, OrderInv, AtNext, NextAt, fits, LengthIs
<1>2. CASE StreamNext
  BY <1>2, WriterStep, OpenStep, ArriveStep, CallerStep, CallsStep, GoesOnStep, RewindStep DEF StreamNext
<1> QED
  BY <1>1, <1>2

LEMMA StreamInvariance == StreamSpec => []StreamIInv
BY StreamInitIInv, StreamNextIInv, PTL DEF StreamSpec

(* The lengths that a reader finds are believed, but nothing is copied     *)
(* behind the end of a block, of the memory, or of a caller's buffer.      *)
THEOREM StaysInBlocks == StreamSpec => []BlocksSafe
<1>1. ASSUME StreamIInv
      PROVE  BlocksSafe
  <2>1. s.safe /\ d.safe /\ (src.type = "mem" => src.pos + src.cnt <= d.len)
    BY <1>1 DEF StreamIInv, BufInv, WriterInv, SourceInv
  <2>2. TextIntact
    BY <1>1 DEF StreamIInv, BufInv, TextIntact, Good
  <2>3. ASSUME call.at = "body"
        PROVE  /\ call.name = "buf" => call.dst + call.left <= call.room
               /\ call.name = "str" => call.dst + call.left + 1 <= call.room
    <3>1. call.dst + call.left = call.len /\ fits(call, call.len)
      BY <1>1, <2>3 DEF StreamIInv, CallInv
    <3>2. call.room \in Nat /\ call.len \in Nat
      BY <1>1, SizesFacts DEF StreamIInv, Types, CallType, SizeT
    <3> QED
      BY <3>1, <3>2 DEF fits
  <2> QED
    BY <2>1, <2>2, <2>3 DEF BlocksSafe
<1> QED
  BY <1>1, StreamInvariance, PTL

(* What is read in the order in which it was written is what was written,  *)
(* from memory, through a descriptor in any parts, or through a callback.  *)
THEOREM ReadsBack == StreamSpec => []RoundTrip
<1>1. ASSUME StreamIInv
      PROVE  RoundTrip
  BY <1>1 DEF StreamIInv, OrderInv, AtNext, RoundTrip
<1> QED
  BY <1>1, StreamInvariance, PTL

(* From memory, no call for the next value is refused without a reason.    *)
THEOREM RefusesForAReason == StreamSpec => []RefusalsAreJust
<1>1. ASSUME StreamIInv
      PROVE  RefusalsAreJust
  <2> SUFFICES ASSUME call.at = "failed", src.type = "mem", ~ astray, Len(results) < Len(items)
               PROVE  LET next == items[Len(results) + 1] IN
                      \/ ~ Matches(call.name, next.kind)
                      \/ call.cnt < HeaderSize(next.kind) + next.len
                      \/ call.name = "buf" /\ call.room < next.len
                      \/ call.name = "str" /\ call.room <= next.len
    BY DEF RefusalsAreJust
  <2>1. Len(results) + 1 \in 1 .. Len(items)
    BY <1>1 DEF StreamIInv, Types
  <2>2. items[Len(results) + 1].at = call.from
    BY <1>1 DEF StreamIInv, OrderInv, AtNext, NextAt
  <2>3. Just(call)
    BY <1>1 DEF StreamIInv, RefusalInv
  <2> QED
    BY <2>1, <2>2, <2>3 DEF Just
<1> QED
  BY <1>1, StreamInvariance, PTL

(* No block is lost or freed twice, except for the one that a descriptor   *)
(* or a callback costs when it fails inside of a string.                   *)
THEOREM KeepsBlocks == StreamSpec => []NothingLost
<1>1. StreamIInv => NothingLost
  BY DEF StreamIInv, BufInv
<1> QED
  BY <1>1, StreamInvariance, PTL

=============================================================================
