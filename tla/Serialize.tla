------------------------------ MODULE Serialize ------------------------------
(***************************************************************************)
(* serialize.h: values written one behind the other into memory that       *)
(* grows.                                                                  *)
(*                                                                         *)
(* A serialize_stream has the fields of a strbuf (base, cnt, allocated are *)
(* b, len, alloc), and "d" is one.  The bytes are those of "items": the    *)
(* values in the order of the calls, each with the position of its first   *)
(* byte.  A uint64_t stands for a time_t, too, which is sent as one.       *)
(***************************************************************************)
EXTENDS StrBuf, Sequences

CONSTANTS
  U16, U32, U64,   \* sizeof(uint16_t) and so on
  Strings,         \* the lengths that serialize_buf() and _str() are called with
  MaxItems         \* bound: values that are written

(* The bytes that are written are in memory already, and so are the ones   *)
(* in the stream: no sum of both reaches SIZE_MAX.                         *)
ASSUME StreamAssumption ==
  /\ U16 \in Nat \ {0} /\ U32 \in Nat \ {0} /\ U64 \in Nat \ {0}
  /\ Strings \subseteq Nat /\ MaxItems \in Nat
  /\ \A len \in Strings \cup {0} : MaxItems * (U64 + U32 + len) <= SizeMax

VARIABLES
  d,      \* the stream and its block
  items,  \* the values in it
  stage   \* "writing", then "reading" it as memory, then "destroyed"

serVars == <<d, items, stage>>

HeaderSize(kind) == IF kind = "u64" THEN U64 ELSE U32

-----------------------------------------------------------------------------
(* Seeded fault: the stream grows to the new bytes only.                   *)
allocate_new_only(q, len, got) ==
  IF q.len + len > q.alloc THEN [Xrealloc(q, len, got) EXCEPT !.alloc = len] ELSE q

serialize_allocate(q, len, got) ==
  LET l == wrap(q.len + len) IN
  IF l > q.alloc THEN [Xrealloc(q, l, got) EXCEPT !.alloc = l] ELSE q

_serialize_cpy(q, len, got) ==
  LET grown == serialize_allocate(q, len, got)
  IN IF grown.ok THEN PutText(grown, len) ELSE grown

serialize_buf(q, len, got, got2) ==
  LET head == _serialize_cpy(q, U32, got)
  IN IF head.ok THEN _serialize_cpy(head, len, got2) ELSE head

-----------------------------------------------------------------------------
(* The calls.                                                              *)

MaySerialize == stage = "writing" /\ d.ok /\ Len(items) < MaxItems

Written(kind, len) ==
  /\ items' = IF d'.ok THEN Append(items, [at |-> d.len, kind |-> kind, len |-> len])
              ELSE items
  /\ UNCHANGED stage

SerializeU32(got) ==
  /\ MaySerialize
  /\ d' = _serialize_cpy(d, U32, got)
  /\ Written("u32", 0)

SerializeU64(got) ==
  /\ MaySerialize
  /\ d' = _serialize_cpy(d, U64, got)
  /\ Written("u64", 0)

SerializeBuf(len, got, got2) ==
  /\ MaySerialize
  /\ d' = serialize_buf(d, len, got, got2)
  /\ Written("buf", len)

SerializeAllocate(len, got) ==
  /\ MaySerialize
  /\ d' = serialize_allocate(d, len, got)
  /\ UNCHANGED <<items, stage>>

(* The bytes of the values are zeroed first, if "invalidate" says so.      *)
SerializeDestroy(invalidate) ==
  /\ d.ok /\ stage # "destroyed"
  /\ d' = [d EXCEPT !.heap = IF d.b THEN @ - 1 ELSE @,
                    !.text = IF invalidate /\ d.b THEN 0 ELSE @]
  /\ stage' = "destroyed"
  /\ UNCHANGED items

=============================================================================
