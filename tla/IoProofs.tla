------------------------------ MODULE IoProofs ------------------------------
(***************************************************************************)
(* Proofs about Io for strings, headers, buffers and pipes of any size.    *)
(***************************************************************************)
EXTENDS Io, TLAPS

Pair == Nat \X Nat

-----------------------------------------------------------------------------
(* Streams.  The bytes that are on their way, and behind them the one that *)
(* is written next.                                                        *)
At(s, q, i) == IF i <= Len(s) THEN s[i] ELSE q

End(ls, k) == Header + ls[k]

IsByte(b, ls) == b[1] \in 1 .. Len(ls) /\ b[2] \in 1 .. End(ls, b[1])

(* The byte "by" places behind b, if it belongs to the same string.        *)
Within(b, by, ls) == b[2] + by <= End(ls, b[1])

Ahead(b, by) == <<b[1], b[2] + by>>

Before(b, q) == b[1] < q[1] \/ (b[1] = q[1] /\ b[2] < q[2])

(* They are bytes of strings that were written.                            *)
Written(s, q, ls) == \A i \in 1 .. Len(s) : IsByte(s[i], ls) /\ Before(s[i], q)

(* A string goes on where it was left, however far ahead one looks: there  *)
(* is no induction here to walk from byte to byte.                         *)
Connected(s, q, ls) ==
  \A i \in 1 .. Len(s) : \A j \in i .. Len(s) + 1 :
    Within(s[i], j - i, ls) => At(s, q, j) = Ahead(s[i], j - i)

(* Behind the last byte of a string the next one begins.                   *)
Joined(s, q, ls) ==
  \A i \in 1 .. Len(s) : ~ Within(s[i], 1, ls) => At(s, q, i + 1) = <<s[i][1] + 1, 1>>

Ordered(s, q, ls) == Written(s, q, ls) /\ Connected(s, q, ls) /\ Joined(s, q, ls)

Length == 0 .. U32Max

(* What is left when the first m bytes are gone is in order.               *)
LEMMA DropOrdered ==
  ASSUME NEW s \in Seq(Pair), NEW t \in Seq(Pair), NEW q \in Pair, NEW ls \in Seq(Length),
         NEW m \in 0 .. Len(s), Len(t) = Len(s) - m, \A i \in 1 .. Len(t) : t[i] = s[i + m],
         Ordered(s, q, ls)
  PROVE  Ordered(t, q, ls) /\ At(t, q, 1) = At(s, q, m + 1)
<1>1. ASSUME NEW i \in 1 .. Len(t)
      PROVE  i + m \in 1 .. Len(s) /\ t[i] = s[i + m]
  OBVIOUS
<1>2. ASSUME NEW j \in 1 .. Len(t) + 1
      PROVE  At(t, q, j) = At(s, q, j + m)
  BY DEF At
<1>3. Written(t, q, ls)
  BY <1>1 DEF Ordered, Written
<1>4. ASSUME NEW i \in 1 .. Len(t), NEW j \in i .. Len(t) + 1, Within(t[i], j - i, ls)
      PROVE  At(t, q, j) = Ahead(t[i], j - i)
  <2>1. /\ i + m \in 1 .. Len(s) /\ j + m \in i + m .. Len(s) + 1 /\ (j + m) - (i + m) = j - i
        /\ t[i] = s[i + m] /\ j \in 1 .. Len(t) + 1
    BY <1>1
  <2>2. At(s, q, j + m) = Ahead(t[i], j - i)
    BY <1>4, <2>1 DEF Ordered, Connected
  <2> QED
    BY <1>2, <2>1, <2>2
<1>5. ASSUME NEW i \in 1 .. Len(t), ~ Within(t[i], 1, ls)
      PROVE  At(t, q, i + 1) = <<t[i][1] + 1, 1>>
  <2>1. /\ i + m \in 1 .. Len(s) /\ t[i] = s[i + m] /\ (i + m) + 1 = (i + 1) + m
        /\ i + 1 \in 1 .. Len(t) + 1
    BY <1>1
  <2>2. At(s, q, (i + m) + 1) = <<t[i][1] + 1, 1>>
    BY <1>5, <2>1 DEF Ordered, Joined
  <2> QED
    BY <1>2, <2>1, <2>2
<1>6. At(t, q, 1) = At(s, q, m + 1)
  BY <1>2
<1> QED
  BY <1>3, <1>4, <1>5, <1>6 DEF Ordered, Connected, Joined

(* A call of write_str() is begun.                                         *)
LEMMA GrowOrdered ==
  ASSUME NEW s \in Seq(Pair), NEW q \in Pair, NEW ls \in Seq(Length), NEW len \in Length,
         Ordered(s, q, ls)
  PROVE  Ordered(s, q, Append(ls, len))
<1> DEFINE ls2 == Append(ls, len)
<1>1. Len(ls2) = Len(ls) + 1 /\ \A k \in 1 .. Len(ls) : ls2[k] = ls[k]
  OBVIOUS
<1> HIDE DEF ls2
<1>2. ASSUME NEW i \in 1 .. Len(s)
      PROVE  /\ s[i][1] \in 1 .. Len(ls2) /\ End(ls2, s[i][1]) = End(ls, s[i][1])
             /\ s[i][2] \in 1 .. End(ls, s[i][1]) /\ Before(s[i], q)
  <2>1. IsByte(s[i], ls) /\ Before(s[i], q)
    BY DEF Ordered, Written
  <2> QED
    BY <1>1, <2>1 DEF IsByte, End
<1>3. Written(s, q, ls2)
  BY <1>2 DEF Written, IsByte
<1>4. ASSUME NEW i \in 1 .. Len(s), NEW by
      PROVE  Within(s[i], by, ls2) <=> Within(s[i], by, ls)
  BY <1>2 DEF Within
<1>5. ASSUME NEW i \in 1 .. Len(s), NEW j \in i .. Len(s) + 1, Within(s[i], j - i, ls2)
      PROVE  At(s, q, j) = Ahead(s[i], j - i)
  BY <1>4, <1>5 DEF Ordered, Connected
<1>6. ASSUME NEW i \in 1 .. Len(s), ~ Within(s[i], 1, ls2)
      PROVE  At(s, q, i + 1) = <<s[i][1] + 1, 1>>
  BY <1>4, <1>6 DEF Ordered, Joined
<1> QED
  BY <1>3, <1>5, <1>6 DEF Ordered, Connected, Joined, ls2

(* t is s with n bytes of string k behind it, from its byte x on, and p is *)
(* the one behind them.                                                    *)
Streams == Seq(Pair)
Lists == Seq(Length)

Extends(s, t, k, x, n) ==
  /\ Len(t) = Len(s) + n
  /\ \A i \in 1 .. Len(s) : t[i] = s[i]
  /\ \A i \in 1 .. n : t[Len(s) + i] = <<k, x + (i - 1)>>

Behind(p, k, x, n, ls) ==
  \/ x + n <= End(ls, k) /\ p = <<k, x + n>>
  \/ x + n = End(ls, k) + 1 /\ p = <<k + 1, 1>>

LEMMA ExtendOrdered ==
  ASSUME NEW s \in Streams, NEW t \in Streams, NEW ls \in Lists, NEW n \in Nat \ {0},
         NEW k \in 1 .. Len(ls), NEW x \in Nat \ {0}, NEW q, q = <<k, x>>, NEW p \in Pair,
         Behind(p, k, x, n, ls), Extends(s, t, k, x, n), Ordered(s, q, ls)
  PROVE  Ordered(t, p, ls) /\ At(t, p, 1) = At(s, q, 1)
<1> DEFINE m == Len(s)
<1>0. \A i \in 1 .. m : s[i][1] \in Nat /\ s[i][2] \in Nat
  BY SMTT(60) DEF Pair, Streams
<1>1. m \in Nat /\ k \in Nat /\ Len(t) = m + n
  BY DEF Streams, Lists, Extends
<1>2. \A i \in 1 .. Len(ls) : End(ls, i) \in Nat
  BY LengthAssumption DEF End, Length, Lists
<1>3. ASSUME NEW i \in 1 .. m
      PROVE  t[i] = s[i] /\ IsByte(s[i], ls) /\ Before(s[i], q)
  BY DEF Ordered, Written, Extends
<1>4. ASSUME NEW j \in m + 1 .. m + n
      PROVE  t[j] = <<k, x + (j - m - 1)>>
  <2>1. j - m \in 1 .. n /\ m + (j - m) = j /\ (j - m) - 1 = j - m - 1
    BY <1>1
  <2> QED
    BY <2>1 DEF Extends
<1>5. At(t, p, m + n + 1) = p /\ \A j \in 1 .. m + n : At(t, p, j) = t[j]
  BY <1>1 DEF At
<1>6. At(s, q, m + 1) = q /\ \A j \in 1 .. m : At(s, q, j) = s[j]
  BY <1>1 DEF At
<1>7. ASSUME NEW i \in 1 .. m, NEW j \in i .. m + 1, Within(s[i], j - i, ls)
      PROVE  At(s, q, j) = Ahead(s[i], j - i)
  BY <1>7 DEF Ordered, Connected
<1>8. ASSUME NEW i \in 1 .. m, ~ Within(s[i], 1, ls)
      PROVE  At(s, q, i + 1) = <<s[i][1] + 1, 1>>
  BY <1>8 DEF Ordered, Joined
<1> HIDE DEF m
(* From q on, p included, the bytes are those of string k.                 *)
<1>9. ASSUME NEW j \in m + 1 .. m + n + 1, x + (j - m - 1) <= End(ls, k)
      PROVE  At(t, p, j) = <<k, x + (j - m - 1)>>
  <2>1. CASE j <= m + n
    BY <1>1, <1>4, <1>5, <2>1
  <2>2. CASE j = m + n + 1
    <3>1. x + n <= End(ls, k)
      BY <1>1, <1>9, <2>2
    <3>2. End(ls, k) \in Nat
      BY <1>2
    <3>3. p = <<k, x + n>>
      BY <3>1, <3>2 DEF Behind
    <3>4. x + (j - m - 1) = x + n
      BY <1>1, <2>2
    <3> QED
      BY <1>5, <2>2, <3>3, <3>4
  <2> QED
    BY <1>1, <2>1, <2>2
<1>10. Written(t, p, ls)
  <2>1. ASSUME NEW i \in 1 .. m
        PROVE  IsByte(t[i], ls) /\ Before(t[i], p)
    <3>1. t[i] = s[i] /\ IsByte(s[i], ls) /\ Before(s[i], q)
      BY <1>3
    <3>2. s[i][1] \in Nat /\ s[i][2] \in Nat /\ End(ls, k) \in Nat
      BY <1>0, <1>2
    <3> QED
      BY <1>1, <3>1, <3>2, SMTT(60) DEF Before, Behind
  <2>2. ASSUME NEW i \in m + 1 .. m + n
        PROVE  IsByte(t[i], ls) /\ Before(t[i], p)
    <3>1. t[i] = <<k, x + (i - m - 1)>> /\ End(ls, k) \in Nat
      BY <1>2, <1>4
    <3> QED
      BY <1>1, <3>1 DEF IsByte, Before, Behind
  <2> QED
    BY <1>1, <2>1, <2>2 DEF Written
<1>11. ASSUME NEW i \in 1 .. m + n, NEW j \in i .. m + n + 1, Within(t[i], j - i, ls)
       PROVE  At(t, p, j) = Ahead(t[i], j - i)
  <2>1. CASE i <= m /\ j <= m
    <3>1. i \in 1 .. m /\ j \in i .. m + 1 /\ j \in 1 .. m /\ j \in 1 .. m + n
      BY <1>1, <2>1
    <3> QED
      BY <1>3, <1>5, <1>6, <1>7, <1>11, <3>1
  <2>2. CASE i <= m /\ j > m
    <3>1. /\ i \in 1 .. m /\ m + 1 \in i .. m + 1 /\ j \in m + 1 .. m + n + 1
          /\ i \in Nat /\ j \in Nat
      BY <1>1, <2>2
    <3>2. t[i] = s[i] /\ s[i][1] \in Nat /\ s[i][2] \in Nat /\ End(ls, s[i][1]) \in Nat
      BY <1>0, <1>2, <1>3, <3>1 DEF IsByte
    <3>3. Within(s[i], (m + 1) - i, ls)
      BY <1>1, <1>11, <3>1, <3>2 DEF Within
    <3>4. q = Ahead(s[i], (m + 1) - i)
      BY <1>6, <1>7, <3>1, <3>3
    <3>5. k = s[i][1] /\ x = s[i][2] + ((m + 1) - i)
      BY <3>4 DEF Ahead
    <3>6. x + (j - m - 1) = s[i][2] + (j - i)
      <4>1. \A y \in Nat : x = y + ((m + 1) - i) => x + (j - m - 1) = y + (j - i)
        BY <1>1, <3>1
      <4> QED
        BY <3>2, <3>5, <4>1
    <3>7. x + (j - m - 1) <= End(ls, k)
      BY <1>11, <3>2, <3>5, <3>6 DEF Within
    <3> QED
      BY <1>9, <3>1, <3>2, <3>5, <3>6, <3>7 DEF Ahead
  <2>3. CASE i > m
    <3>1. /\ i \in m + 1 .. m + n /\ j \in m + 1 .. m + n + 1
          /\ i \in Nat /\ j \in Nat
      BY <1>1, <2>3
    <3>2. t[i] = <<k, x + (i - m - 1)>>
      BY <1>4, <3>1
    <3>3. x + (i - m - 1) + (j - i) = x + (j - m - 1)
      BY <1>1, <3>1
    <3>4. x + (j - m - 1) <= End(ls, k)
      BY <1>11, <3>2, <3>3 DEF Within
    <3> QED
      BY <1>9, <3>1, <3>2, <3>3, <3>4 DEF Ahead
  <2> QED
    BY <1>1, <2>1, <2>2, <2>3
<1>12. ASSUME NEW i \in 1 .. m + n, ~ Within(t[i], 1, ls)
       PROVE  At(t, p, i + 1) = <<t[i][1] + 1, 1>>
  <2>1. CASE i < m
    <3>1. i \in 1 .. m /\ i + 1 \in 1 .. m /\ i + 1 \in 1 .. m + n
      BY <1>1, <2>1
    <3> QED
      BY <1>3, <1>5, <1>6, <1>8, <1>12, <3>1
  <2>2. CASE i = m
    <3>1. i \in 1 .. m /\ m + 1 \in 1 .. m + n /\ m + 1 \in m + 1 .. m + n
      BY <1>1, <2>2
    <3>2. q = <<t[i][1] + 1, 1>>
      BY <1>3, <1>6, <1>8, <1>12, <2>2, <3>1
    <3>3. t[m + 1] = q
      <4>1. \A j \in Int : j = m + 1 => x + (j - m - 1) = x
        BY <1>1
      <4>2. \A j \in m + 1 .. m + n : j = m + 1 => t[j] = <<k, x>>
        BY <1>1, <1>4, <4>1
      <4> QED
        BY <3>1, <4>2
    <3> QED
      BY <1>5, <2>2, <3>1, <3>2, <3>3
  <2>3. CASE i > m
    <3>1. i \in m + 1 .. m + n
      BY <1>1, <2>3
    <3>2. t[i] = <<k, x + (i - m - 1)>> /\ End(ls, k) \in Nat
      BY <1>2, <1>4, <3>1
    <3>3. ~ (x + (i - m - 1) + 1 <= End(ls, k))
      BY <1>12, <3>2 DEF Within
    <3>4. i = m + n /\ p = <<k + 1, 1>> /\ x + (i - m - 1) + 1 = End(ls, k) + 1
      BY <1>1, <3>1, <3>2, <3>3 DEF Behind
    <3> QED
      BY <1>5, <3>2, <3>4
  <2> QED
    BY <1>1, <2>1, <2>2, <2>3
<1>13. At(t, p, 1) = At(s, q, 1)
  <2>1. CASE m > 0
    <3>1. 1 \in 1 .. m /\ 1 \in 1 .. m + n
      BY <1>1, <2>1
    <3> QED
      BY <1>3, <1>5, <1>6, <3>1
  <2>2. CASE m = 0
    <3>1. 1 \in m + 1 .. m + n /\ 1 \in 1 .. m + n /\ m + 1 = 1 /\ x + (1 - m - 1) = x
      BY <1>1, <2>2
    <3> QED
      BY <1>4, <1>5, <1>6, <3>1
  <2> QED
    BY <1>1, <2>1, <2>2
<1> QED
  BY <1>1, <1>10, <1>11, <1>12, <1>13 DEF Ordered, Connected, Joined

-----------------------------------------------------------------------------
(* The inductive invariant                                                 *)

Stream == r.buf \o pipe

Types == pipe \in Streams /\ lens \in Lists /\ acked \in Nat /\ delivered \in Seq(Nat)

(* All but the string that is being written are acknowledged.              *)
WriterInv ==
  /\ DOMAIN w = {"at", "len", "left", "ok"} /\ w.at \in {"idle", "head", "body"}
  /\ w.at = "idle" => acked = Len(lens)
  /\ w.at # "idle" => /\ Len(lens) = acked + 1 /\ w.len = lens[Len(lens)]
                      /\ w.left \in 1 .. (IF w.at = "head" THEN Header ELSE w.len)

(* What is in the buffer and what is missing are a header or a string.     *)
ReaderInv ==
  /\ DOMAIN r = {"call", "at", "room", "left", "buf"}
  /\ r.at \in {"idle", "head", "body", "rest", "complete", "stopped", "overrun"}
  /\ r.left \in Nat /\ r.room \in Nat /\ r.buf \in Streams
  /\ r.at = "idle" => r.buf = <<>>
  /\ r.at = "head" => Len(r.buf) + r.left = Header
  /\ r.at = "body" => /\ Len(delivered) + 1 <= Len(lens)
                      /\ Len(r.buf) + r.left = lens[Len(delivered) + 1]
                      /\ Len(r.buf) + r.left + 1 <= r.room
  /\ r.at = "rest" => Len(r.buf) + r.left <= r.room
  /\ r.at = "overrun" => /\ r.call = "read_stra" /\ Len(delivered) + 1 <= Len(lens)
                         /\ lens[Len(delivered) + 1] = U32Max

(* A reader that is gone has lost its place in the stream.                 *)
Gone == {"stopped", "overrun"}

StreamInv ==
  r.at \notin Gone =>
    Ordered(Stream, NextToWrite, lens) /\ At(Stream, NextToWrite, 1) = NextToRead

IInv == Types /\ WriterInv /\ ReaderInv /\ StreamInv

(* A step hands over nothing, or the next string, which is acknowledged.   *)
HandsOver ==
  \/ delivered' = delivered
  \/ Len(delivered) < acked /\ delivered' = Append(delivered, Len(delivered) + 1)

LEMMA LensFacts ==
  ASSUME lens \in Lists
  PROVE  /\ Len(lens) \in Nat
         /\ \A k \in 1 .. Len(lens) : lens[k] \in Nat /\ lens[k] <= U32Max /\ End(lens, k) = Header + lens[k]
BY LengthAssumption DEF Lists, Length, End

LEMMA NextToWriteFacts ==
  ASSUME Types, WriterInv
  PROVE  /\ NextToWrite \in Pair /\ NextToWrite[2] >= 1
         /\ w.at = "idle" => NextToWrite = <<Len(lens) + 1, 1>>
         /\ w.at = "head" => NextToWrite = <<Len(lens), Header - w.left + 1>>
         /\ w.at = "body" => NextToWrite = <<Len(lens), Header + w.len - w.left + 1>>
         /\ w.at # "idle" => /\ NextToWrite[1] = Len(lens) /\ Len(lens) \in 1 .. Len(lens)
                             /\ NextToWrite[2] <= End(lens, Len(lens)) /\ w.len \in Nat
<1>1. Len(lens) \in Nat /\ Header \in Nat \ {0} /\ acked \in Nat
  BY LensFacts, LengthAssumption DEF Types
<1>2. CASE w.at = "idle"
  BY <1>1, <1>2 DEF NextToWrite, Pair
<1>3. CASE w.at # "idle"
  <2>1. /\ Len(lens) \in 1 .. Len(lens) /\ w.len = lens[Len(lens)] /\ w.left \in Nat
        /\ w.left \in 1 .. (IF w.at = "head" THEN Header ELSE w.len)
    BY <1>1, <1>3 DEF WriterInv
  <2>2. w.len \in Nat /\ End(lens, Len(lens)) = Header + w.len
    BY <2>1, LensFacts DEF Types
  <2>3. CASE w.at = "head"
    <3>1. NextToWrite = <<Len(lens), Header - w.left + 1>>
      BY <2>3 DEF NextToWrite
    <3> QED
      BY <1>1, <2>1, <2>2, <2>3, <3>1 DEF Pair
  <2>4. CASE w.at = "body"
    <3>1. NextToWrite = <<Len(lens), Header + w.len - w.left + 1>>
      BY <2>4 DEF NextToWrite
    <3> QED
      BY <1>1, <2>1, <2>2, <2>4, <3>1 DEF Pair
  <2> QED
    BY <1>3, <2>3, <2>4 DEF WriterInv
<1> QED
  BY <1>2, <1>3

LEMMA InitIInv == Init => IInv
<1> SUFFICES ASSUME Init PROVE IInv
  OBVIOUS
<1>1. Types /\ WriterInv /\ ReaderInv
  BY LengthAssumption DEF Init, Types, WriterInv, ReaderInv, Streams, Lists
<1>2. Stream = <<>> /\ Len(Stream) = 0
  BY DEF Init, Stream
<1>3. NextToWrite = <<1, 1>> /\ NextToRead = <<1, 1>>
  BY DEF Init, NextToWrite, NextToRead
<1>4. Ordered(Stream, NextToWrite, lens)
  BY <1>2 DEF Ordered, Written, Connected, Joined
<1> QED
  BY <1>1, <1>2, <1>3, <1>4 DEF IInv, StreamInv, At

-----------------------------------------------------------------------------
(* The writer                                                              *)

LEMMA ConcatFacts ==
  ASSUME NEW S, NEW a \in Seq(S), NEW b \in Seq(S)
  PROVE  /\ a \o b \in Seq(S) /\ Len(a) \in Nat /\ Len(b) \in Nat /\ Len(a \o b) = Len(a) + Len(b)
         /\ \A i \in 1 .. Len(a) : (a \o b)[i] = a[i]
         /\ \A i \in 1 .. Len(b) : (a \o b)[Len(a) + i] = b[i]
OBVIOUS

LEMMA StreamType ==
  ASSUME Types, ReaderInv
  PROVE  /\ Stream \in Streams /\ Len(Stream) = Len(r.buf) + Len(pipe)
         /\ Len(r.buf) \in Nat /\ Len(pipe) \in Nat
         /\ \A i \in 1 .. Len(r.buf) : Stream[i] = r.buf[i]
         /\ \A i \in 1 .. Len(pipe) : Stream[Len(r.buf) + i] = pipe[i]
<1>1. r.buf \in Seq(Pair) /\ pipe \in Seq(Pair)
  BY DEF Types, ReaderInv, Streams
<1> QED
  BY <1>1 DEF Stream, Streams

(* A step that leaves the reader, the pipe and what is written next alone. *)
LEMMA StreamStays ==
  ASSUME IInv, UNCHANGED <<r, pipe, delivered>>, NextToWrite' = NextToWrite, lens' = lens
  PROVE  StreamInv'
<1>1. Stream' = Stream /\ NextToRead' = NextToRead
  BY DEF Stream, NextToRead
<1> QED
  BY <1>1 DEF IInv, StreamInv

LEMMA WriteStrStep ==
  ASSUME IInv, NEW len \in Lengths, WriteStr(len)
  PROVE  IInv' /\ HandsOver
<1> USE DEF IInv
<1>1. /\ w.at = "idle" /\ w' = [at |-> "head", len |-> len, left |-> Header, ok |-> TRUE]
      /\ lens' = Append(lens, len) /\ UNCHANGED <<r, pipe, acked, delivered>>
  BY DEF WriteStr
<1>2. len \in Length /\ Header \in Nat \ {0}
  BY LengthAssumption DEF Length
<1>3. /\ lens \in Seq(Length) /\ Len(lens) \in Nat /\ Len(lens') = Len(lens) + 1
      /\ lens'[Len(lens')] = len /\ \A k \in 1 .. Len(lens) : lens'[k] = lens[k]
  BY <1>1, <1>2 DEF Types, Lists
<1>4. Types'
  BY <1>1, <1>2, <1>3 DEF Types, Lists
<1>5. WriterInv'
  BY <1>1, <1>2, <1>3 DEF WriterInv, Types
<1>6. ReaderInv'
  <2>1. Len(delivered) \in Nat
    BY DEF Types
  <2>2. r.at = "body" => lens'[Len(delivered) + 1] = lens[Len(delivered) + 1]
    BY <1>3, <2>1 DEF ReaderInv
  <2> QED
    BY <1>1, <1>3, <2>1, <2>2 DEF ReaderInv
<1>7. NextToWrite' = NextToWrite
  <2>1. NextToWrite = <<Len(lens) + 1, 1>>
    BY <1>1, NextToWriteFacts
  <2>2. NextToWrite' = <<Len(lens'), Header - w'.left + 1>>
    BY <1>4, <1>5, <1>1 DEF NextToWrite
  <2> QED
    BY <1>1, <1>2, <1>3, <2>1, <2>2
<1>8. StreamInv'
  <2>1. Stream' = Stream /\ NextToRead' = NextToRead
    BY <1>1 DEF Stream, NextToRead
  <2>2. Stream \in Seq(Pair) /\ NextToWrite \in Pair
    BY StreamType, NextToWriteFacts DEF Streams
  <2>3. ASSUME Ordered(Stream, NextToWrite, lens)
        PROVE  Ordered(Stream, NextToWrite, lens')
    BY <1>1, <1>2, <1>3, <2>2, <2>3, GrowOrdered
  <2> QED
    BY <1>1, <1>7, <2>1, <2>3 DEF StreamInv
<1> QED
  BY <1>1, <1>4, <1>5, <1>6, <1>8 DEF HandsOver

LEMMA WriteFailsStep ==
  ASSUME IInv, WriteFails
  PROVE  IInv' /\ HandsOver
<1> USE DEF IInv
<1>1. w' = [w EXCEPT !.ok = FALSE] /\ UNCHANGED <<r, pipe, lens, acked, delivered>>
  BY DEF WriteFails
<1>2. w'.at = w.at /\ w'.len = w.len /\ w'.left = w.left /\ DOMAIN w' = DOMAIN w
  BY <1>1 DEF WriterInv
<1>3. Types' /\ ReaderInv'
  BY <1>1 DEF Types, ReaderInv
<1>4. WriterInv'
  BY <1>1, <1>2 DEF WriterInv
<1>5. NextToWrite' = NextToWrite
  BY <1>1, <1>2 DEF NextToWrite
<1>6. StreamInv'
  BY <1>1, <1>5, StreamStays
<1> QED
  BY <1>1, <1>3, <1>4, <1>6 DEF HandsOver

(* A process is somewhere in the header or in the string; it goes on, or   *)
(* is at the end.                                                          *)
LEMMA NextPhaseFacts ==
  ASSUME NEW q, DOMAIN q = {"at", "len", "left", "ok"}, q.at \in {"head", "body"},
         q.len \in Nat, q.left \in Nat
  PROVE  LET p == NextPhase(q) IN
         /\ DOMAIN p = DOMAIN q /\ p.len = q.len
         /\ \/ q.left > 0 /\ p.at = q.at /\ p.left = q.left
            \/ q.left = 0 /\ q.at = "head" /\ q.len > 0 /\ p.at = "body" /\ p.left = q.len
            \/ q.left = 0 /\ (q.at = "body" \/ q.len = 0) /\ p.at = "idle"
<1>1. CASE q.left > 0
  BY <1>1 DEF NextPhase
<1>2. CASE q.left = 0 /\ q.at = "head" /\ q.len > 0
  BY <1>2 DEF NextPhase
<1>3. CASE q.left = 0 /\ (q.at = "body" \/ q.len = 0)
  BY <1>3 DEF NextPhase
<1> QED
  BY <1>1, <1>2, <1>3

LEMMA WriteStep ==
  ASSUME IInv, NEW n, Write(n)
  PROVE  IInv' /\ HandsOver
<1> USE DEF IInv
<1> DEFINE q == [w EXCEPT !.left = @ - n]
           k == Len(lens)
           x == NextToWrite[2]
           e == End(lens, k)
<1>1. /\ w.at \in {"head", "body"} /\ r.at # "stopped" /\ n \in 1 .. Smaller(w.left, Capacity - Len(pipe))
      /\ pipe' = pipe \o written(n) /\ w' = NextPhase(q)
      /\ acked' = (IF w'.at = "idle" THEN acked + 1 ELSE acked)
      /\ UNCHANGED <<r, lens, delivered>>
  BY DEF Write, Writing, WriterInv
<1>2. /\ k \in 1 .. k /\ k \in Nat /\ acked + 1 = k /\ w.len = lens[k] /\ w.len \in Nat
      /\ w.left \in Nat /\ w.left \in 1 .. (IF w.at = "head" THEN Header ELSE w.len)
      /\ NextToWrite = <<k, x>> /\ e = Header + w.len /\ acked \in Nat
      /\ w.at = "head" => x = Header - w.left + 1
      /\ w.at = "body" => x = Header + w.len - w.left + 1
  <2>1. acked + 1 = k /\ acked \in Nat /\ w.len = lens[k]
        /\ w.left \in 1 .. (IF w.at = "head" THEN Header ELSE w.len)
    BY <1>1 DEF WriterInv, Types
  <2>2. k \in 1 .. k /\ k \in Nat
    BY <2>1
  <2>3. w.len \in Nat /\ e = Header + w.len
    BY <2>1, <2>2, LensFacts DEF Types
  <2>4. /\ w.at = "head" => NextToWrite = <<k, Header - w.left + 1>>
        /\ w.at = "body" => NextToWrite = <<k, Header + w.len - w.left + 1>>
    BY NextToWriteFacts
  <2>5. w.left \in Nat
    BY <2>1, <2>3, LengthAssumption
  <2> HIDE DEF k, e
  <2> QED
    BY <1>1, <2>1, <2>2, <2>3, <2>4, <2>5
<1>3. n \in Nat \ {0} /\ n <= w.left
  <2>1. Len(pipe) \in Nat
    BY DEF Types, Streams
  <2> QED
    <3> DEFINE c == Capacity - Len(pipe)   l == w.left
    <3>1. n \in 1 .. Smaller(l, c)
      BY <1>1
    <3>2. c \in Int /\ l \in Nat
      BY <1>2, <2>1, LengthAssumption
    <3> HIDE DEF c, l
    <3>3. n \in Nat \ {0} /\ n <= l
      BY <3>1, <3>2 DEF Smaller
    <3> QED
      BY <3>3 DEF l
<1>4. /\ DOMAIN q = {"at", "len", "left", "ok"} /\ q.at = w.at /\ q.len = w.len
      /\ q.left = w.left - n /\ q.left \in Nat
  BY <1>2, <1>3 DEF WriterInv
<1> HIDE DEF q, e
<1>5. /\ DOMAIN w' = {"at", "len", "left", "ok"} /\ w'.len = w.len
      /\ \/ q.left > 0 /\ w'.at = w.at /\ w'.left = q.left
         \/ q.left = 0 /\ w.at = "head" /\ w.len > 0 /\ w'.at = "body" /\ w'.left = w.len
         \/ q.left = 0 /\ (w.at = "body" \/ w.len = 0) /\ w'.at = "idle"
  BY <1>1, <1>2, <1>4, NextPhaseFacts
<1>6. WriterInv'
  <2>1. Len(lens') = k /\ lens'[Len(lens')] = w.len
    BY <1>1, <1>2
  <2> HIDE DEF k, x
  <2>2. CASE q.left > 0 /\ w'.at = w.at /\ w'.left = q.left
    BY <1>1, <1>2, <1>3, <1>4, <1>5, <2>1, <2>2, LengthAssumption DEF WriterInv
  <2>3. CASE q.left = 0 /\ w.at = "head" /\ w.len > 0 /\ w'.at = "body" /\ w'.left = w.len
    BY <1>1, <1>2, <1>5, <2>1, <2>3 DEF WriterInv
  <2>4. CASE q.left = 0 /\ (w.at = "body" \/ w.len = 0) /\ w'.at = "idle"
    BY <1>1, <1>2, <1>5, <2>1, <2>4 DEF WriterInv
  <2> QED
    BY <1>5, <2>2, <2>3, <2>4
<1>7. /\ written(n) \in Seq(Pair) /\ Len(written(n)) = n
      /\ \A i \in 1 .. n : written(n)[i] = <<k, x + (i - 1)>>
  <2>1. x \in Nat \ {0}
    BY <1>1, <1>2, LengthAssumption
  <2>2. written(n) = [i \in 1 .. n |-> <<k, x + i - 1>>]
    <3>1. (x + n - 1) - x + 1 = n
      BY <1>3, <2>1
    <3> QED
      BY <3>1 DEF written, Bytes
  <2>3. \A i \in 1 .. n : <<k, x + i - 1>> \in Pair /\ x + i - 1 = x + (i - 1)
    BY <1>2, <2>1 DEF Pair
  <2> HIDE DEF k, x
  <2> DEFINE f == [i \in 1 .. n |-> <<k, x + i - 1>>]
  <2>4. f \in [1 .. n -> Pair]
    BY <2>3
  <2>5. f \in Seq(Pair) /\ Len(f) = n
    BY <1>3, <2>4
  <2>6. \A i \in 1 .. n : f[i] = <<k, x + (i - 1)>>
    BY <2>3
  <2> HIDE DEF f
  <2>7. written(n) = f
    BY <2>2 DEF f
  <2> QED
    BY <2>5, <2>6, <2>7
<1>8. /\ pipe \in Seq(Pair) /\ pipe' \in Seq(Pair) /\ Len(pipe') = Len(pipe) + n
      /\ \A i \in 1 .. Len(pipe) : pipe'[i] = pipe[i]
      /\ \A i \in 1 .. n : pipe'[Len(pipe) + i] = <<k, x + (i - 1)>>
  <2>1. pipe \in Seq(Pair)
    BY DEF Types, Streams
  <2> DEFINE t == written(n)
  <2>2. t \in Seq(Pair) /\ Len(t) = n /\ pipe' = pipe \o t
        /\ \A i \in 1 .. n : t[i] = <<k, x + (i - 1)>>
    BY <1>1, <1>7
  <2> HIDE DEF t, k, x
  <2> DEFINE c == pipe \o t
  <2>3. /\ c \in Seq(Pair) /\ Len(c) = Len(pipe) + Len(t)
        /\ \A i \in 1 .. Len(pipe) : c[i] = pipe[i]
        /\ \A i \in 1 .. Len(t) : c[Len(pipe) + i] = t[i]
    <3>1. t \in Seq(Pair)
      BY <2>2
    <3> QED
      BY <2>1, <3>1, ConcatFacts
  <2>4. pipe' = c
    BY <2>2
  <2> HIDE DEF c
  <2> QED
    BY <2>1, <2>2, <2>3, <2>4
<1>9. Types'
  BY <1>1, <1>2, <1>8 DEF Types, Streams
<1>10. ReaderInv'
  BY <1>1 DEF ReaderInv
<1>11. Behind(NextToWrite', k, x, n, lens)
  <2>1. /\ w'.at = "idle" => NextToWrite' = <<k + 1, 1>>
        /\ w'.at = "head" => NextToWrite' = <<k, Header - w'.left + 1>>
        /\ w'.at = "body" => NextToWrite' = <<k, Header + w.len - w'.left + 1>>
    BY <1>1, <1>5 DEF NextToWrite
  <2>2. End(lens, k) = e
    BY DEF e
  <2> HIDE DEF k, x
  <2>3. CASE q.left > 0 /\ w'.at = w.at /\ w'.left = q.left
    <3>1. CASE w.at = "head"
      <4>1. Header - w'.left + 1 = x + n /\ x + n <= e
        BY <1>2, <1>3, <1>4, <2>3, <3>1, LengthAssumption
      <4> QED
        BY <2>1, <2>2, <2>3, <3>1, <4>1 DEF Behind
    <3>2. CASE w.at = "body"
      <4>1. Header + w.len - w'.left + 1 = x + n /\ x + n <= e
        BY <1>2, <1>3, <1>4, <2>3, <3>2, LengthAssumption
      <4> QED
        BY <2>1, <2>2, <2>3, <3>2, <4>1 DEF Behind
    <3> QED
      BY <1>1, <3>1, <3>2
  <2>4. CASE q.left = 0 /\ w.at = "head" /\ w.len > 0 /\ w'.at = "body" /\ w'.left = w.len
    <3>1. Header + w.len - w'.left + 1 = x + n /\ x + n <= e
      BY <1>2, <1>3, <1>4, <2>4, LengthAssumption
    <3> QED
      BY <2>1, <2>2, <2>4, <3>1 DEF Behind
  <2>5. CASE q.left = 0 /\ (w.at = "body" \/ w.len = 0) /\ w'.at = "idle"
    <3>1. x + n = e + 1
      <4>1. CASE w.at = "head"
        <5>1. w.len = 0 /\ n = w.left
          BY <1>2, <1>3, <1>4, <2>5, <4>1
        <5> QED
          BY <1>2, <4>1, <5>1, LengthAssumption
      <4>2. CASE w.at = "body"
        <5>1. n = w.left
          BY <1>2, <1>3, <1>4, <2>5
        <5> QED
          BY <1>2, <4>2, <5>1, LengthAssumption
      <4> QED
        BY <1>1, <4>1, <4>2
    <3> QED
      BY <2>1, <2>2, <2>5, <3>1 DEF Behind
  <2> QED
    BY <1>5, <2>3, <2>4, <2>5
<1>12. StreamInv'
  <2> SUFFICES ASSUME r.at \notin Gone
               PROVE  StreamInv'
    BY <1>1 DEF StreamInv
  <2>1. /\ r' = r /\ NextToRead' = NextToRead /\ lens' = lens
        /\ Ordered(Stream, NextToWrite, lens) /\ At(Stream, NextToWrite, 1) = NextToRead
    BY <1>1 DEF StreamInv, NextToRead
  <2>2. x \in Nat \ {0}
    BY <1>1, <1>2, LengthAssumption, SMTT(60)
  <2>3. Stream \in Streams /\ Stream' \in Streams /\ NextToWrite' \in Pair
    <3>1. Stream \in Streams
      BY StreamType
    <3>2. Stream' \in Streams
      BY <1>8, <2>1 DEF Stream, Streams, ReaderInv
    <3>3. NextToWrite' \in Pair
      <4>1. k + 1 \in Nat /\ k \in Nat /\ x + n \in Nat /\ 1 \in Nat
        BY <1>2, <1>3, <2>2
      <4> HIDE DEF k, x
      <4> QED
        BY <1>11, <4>1 DEF Behind, Pair
    <3> QED
      BY <3>1, <3>2, <3>3
  <2>4. Extends(Stream, Stream', k, x, n)
    <3> DEFINE b == r.buf   a == Len(r.buf)   m == Len(pipe)
    <3>1. /\ Stream' = b \o pipe' /\ Stream = b \o pipe /\ b \in Seq(Pair)
          /\ a \in Nat /\ m \in Nat
      BY <1>8, <2>1 DEF Stream, ReaderInv, Streams
    <3>2. /\ Len(Stream) = a + m /\ Len(Stream') = a + m + n
          /\ \A i \in 1 .. a : Stream'[i] = b[i] /\ Stream[i] = b[i]
          /\ \A i \in 1 .. m : Stream[a + i] = pipe[i]
          /\ \A i \in 1 .. m + n : Stream'[a + i] = pipe'[i]
      <4> DEFINE c == pipe'
      <4>1. c \in Seq(Pair) /\ Len(c) = m + n /\ Stream' = b \o c /\ pipe \in Seq(Pair)
        BY <1>8, <3>1
      <4> HIDE DEF b, c
      <4>2. /\ Len(Stream') = Len(b) + (m + n) /\ \A i \in 1 .. Len(b) : Stream'[i] = b[i]
            /\ \A i \in 1 .. m + n : Stream'[Len(b) + i] = c[i]
        <5> DEFINE d == b \o c
        <5>1. /\ Len(d) = Len(b) + Len(c) /\ \A i \in 1 .. Len(b) : d[i] = b[i]
              /\ \A i \in 1 .. Len(c) : d[Len(b) + i] = c[i]
          <6>1. b \in Seq(Pair) /\ c \in Seq(Pair)
            BY <3>1, <4>1
          <6> QED
            BY <6>1, ConcatFacts
        <5>2. Stream' = d
          BY <4>1
        <5> HIDE DEF d
        <5> HIDE DEF m
        <5> QED
          BY <4>1, <5>1, <5>2
      <4>3. /\ Len(Stream) = Len(b) + m /\ \A i \in 1 .. Len(b) : Stream[i] = b[i]
            /\ \A i \in 1 .. m : Stream[Len(b) + i] = pipe[i]
        BY <3>1, <4>1, ConcatFacts
      <4>4. a = Len(b) /\ Len(b) + (m + n) = a + m + n
        <5>1. a = Len(b)
          BY DEF b
        <5> HIDE DEF a, m
        <5> QED
          BY <1>3, <3>1, <5>1
      <4> QED
        BY <4>2, <4>3, <4>4 DEF c
    <3> HIDE DEF k, x, a, b, m
    <3>0. a \in Nat /\ m \in Nat
      BY <3>1
    <3>3. ASSUME NEW i \in 1 .. a + m
          PROVE  Stream'[i] = Stream[i]
      <4>1. CASE i <= a
        <5>1. i \in 1 .. a
          BY <3>1, <4>1
        <5> QED
          BY <3>2, <5>1
      <4>2. CASE i > a
        <5>1. i - a \in 1 .. m /\ i - a \in 1 .. m + n /\ a + (i - a) = i
          BY <1>3, <3>1, <4>2
        <5>2. pipe'[i - a] = pipe[i - a]
          BY <1>8, <5>1 DEF m
        <5> QED
          BY <3>2, <5>1, <5>2
      <4> QED
        BY <3>0, <4>1, <4>2
    <3>4. ASSUME NEW i \in 1 .. n
          PROVE  Stream'[(a + m) + i] = <<k, x + (i - 1)>>
      <4>1. m + i \in 1 .. m + n /\ a + (m + i) = (a + m) + i
        BY <1>3, <3>1
      <4>2. pipe'[m + i] = <<k, x + (i - 1)>>
        BY <1>8 DEF m
      <4>3. Stream'[a + (m + i)] = pipe'[m + i]
        BY <3>2, <4>1
      <4> QED
        BY <4>1, <4>2, <4>3, Zenon
    <3> QED
      BY <3>2, <3>3, <3>4 DEF Extends
  <2>5. lens \in Lists
    BY DEF Types
  <2> HIDE DEF k, x
  <2>6. k \in 1 .. Len(lens)
    BY <1>2 DEF k
  <2>7. Ordered(Stream', NextToWrite', lens) /\ At(Stream', NextToWrite', 1) = At(Stream, NextToWrite, 1)
    BY <1>2, <1>3, <1>11, <2>1, <2>2, <2>3, <2>4, <2>5, <2>6, ExtendOrdered
  <2> QED
    BY <2>1, <2>7 DEF StreamInv
<1> QED
  BY <1>1, <1>6, <1>9, <1>10, <1>12 DEF HandsOver

-----------------------------------------------------------------------------
(* The reader                                                              *)

(* A step of the reader that takes nothing from the pipe.                  *)
LEMMA NothingRead ==
  ASSUME IInv, UNCHANGED <<w, pipe, lens, acked, delivered>>, ReaderInv',
         r'.at \notin Gone => r.at \notin Gone /\ r'.buf = r.buf /\ (r'.at = "body" <=> r.at = "body")
  PROVE  IInv' /\ HandsOver
<1> USE DEF IInv
<1>1. Types' /\ WriterInv' /\ NextToWrite' = NextToWrite
  BY DEF Types, WriterInv, NextToWrite
<1>2. StreamInv'
  <2>1. ASSUME r'.at \notin Gone
        PROVE  Stream' = Stream /\ NextToRead' = NextToRead
    BY <2>1 DEF Stream, NextToRead
  <2> QED
    BY <1>1, <2>1 DEF StreamInv
<1> QED
  BY <1>1, <1>2 DEF HandsOver

LEMMA CloseWriterStep ==
  ASSUME IInv, CloseWriter
  PROVE  IInv' /\ HandsOver
<1>1. UNCHANGED <<w, r, pipe, lens, acked, delivered>>
  BY DEF CloseWriter
<1> QED
  BY <1>1 DEF IInv, Types, WriterInv, ReaderInv, StreamInv, Stream, NextToRead, NextToWrite, HandsOver

LEMMA ReadStrStep ==
  ASSUME IInv, NEW call, NEW room \in Nat, ReadStr(call, room)
  PROVE  IInv' /\ HandsOver
<1>1. /\ r.at = "idle" /\ UNCHANGED <<w, pipe, lens, acked, delivered>>
      /\ r' = [call |-> call, at |-> "head", room |-> room, left |-> Header, buf |-> <<>>]
  BY DEF ReadStr
<1>2. r.buf = <<>>
  BY <1>1 DEF IInv, ReaderInv
<1>3. ReaderInv'
  BY <1>1, LengthAssumption DEF ReaderInv, Streams
<1> QED
  BY <1>1, <1>2, <1>3, NothingRead DEF Gone

LEMMA ReadEofStep ==
  ASSUME IInv, NEW room \in Nat, ReadEof(room)
  PROVE  IInv' /\ HandsOver
<1>1. /\ r.at = "idle" /\ UNCHANGED <<w, pipe, lens, acked, delivered>>
      /\ r' = [call |-> "read_eof", at |-> IF room > 0 THEN "rest" ELSE "stopped",
               room |-> room, left |-> room, buf |-> <<>>]
  BY DEF ReadEof
<1>2. r.buf = <<>>
  BY <1>1 DEF IInv, ReaderInv
<1>3. ReaderInv'
  BY <1>1 DEF ReaderInv, Streams
<1> QED
  BY <1>1, <1>2, <1>3, NothingRead DEF Gone

LEMMA StopSteps ==
  ASSUME IInv, ReadEnd \/ ReadFails
  PROVE  IInv' /\ HandsOver
<1>1. /\ Reading /\ UNCHANGED <<w, pipe, lens, acked, delivered>>
      /\ \/ r' = [Stopped(r) EXCEPT !.at = IF r.at = "rest" THEN "complete" ELSE "stopped"]
         \/ r' = Stopped(r)
  BY DEF ReadEnd, ReadFails, Fails
<1>2. /\ DOMAIN r' = DOMAIN r /\ r'.left = 0 /\ r'.room = r.room /\ r'.buf = r.buf
      /\ r'.at = "stopped" \/ (r'.at = "complete" /\ r.at = "rest")
  BY <1>1 DEF Stopped, IInv, ReaderInv
<1>3. ReaderInv'
  BY <1>2 DEF IInv, ReaderInv
<1> QED
  BY <1>1, <1>2, <1>3, NothingRead DEF Gone

(* A string whose last byte was read was written as a whole.               *)
LEMMA WholeString ==
  ASSUME Types, WriterInv, NEW k \in 1 .. Len(lens), Before(<<k, End(lens, k)>>, NextToWrite)
  PROVE  k <= acked
<1>1. k \in Nat /\ acked \in Nat /\ Len(lens) \in Nat /\ End(lens, k) \in Nat
  BY LensFacts, LengthAssumption DEF Types
<1>2. CASE w.at = "idle"
  BY <1>1, <1>2 DEF WriterInv
<1>3. CASE w.at # "idle"
  <2>1. NextToWrite[1] = Len(lens) /\ NextToWrite[2] <= End(lens, Len(lens)) /\ NextToWrite \in Pair
    BY <1>3, NextToWriteFacts
  <2>2. Len(lens) = acked + 1
    BY <1>3 DEF WriterInv
  <2>3. k # Len(lens)
    BY <1>1, <2>1 DEF Before, Pair
  <2> QED
    BY <1>1, <2>2, <2>3
<1> QED
  BY <1>2, <1>3

(* These bytes are taken for the right string.                             *)
LEMMA StringOfFacts ==
  ASSUME Types, NEW b \in Streams, NEW k, k = Len(delivered) + 1, k \in 1 .. Len(lens),
         Len(b) = lens[k], \A j \in 1 .. Len(b) : b[j] = <<k, Header + j>>
  PROVE  StringOf(b) = k
<1> DEFINE c == Bytes(k, Header + 1, Header + lens[k])
<1>1. lens[k] \in Nat /\ Header \in Nat
  BY LensFacts, LengthAssumption DEF Types
<1>2. c = [j \in 1 .. lens[k] |-> <<k, Header + j>>]
  <2>1. (Header + lens[k]) - (Header + 1) + 1 = lens[k]
    BY <1>1
  <2>2. \A j \in 1 .. lens[k] : (Header + 1) + j - 1 = Header + j
    BY <1>1
  <2> QED
    BY <2>1, <2>2 DEF Bytes
<1>3. b = [j \in 1 .. lens[k] |-> <<k, Header + j>>]
  <2>1. b \in Seq(Pair) /\ Len(b) \in Nat
    BY DEF Streams
  <2>2. b = [j \in 1 .. Len(b) |-> b[j]]
    BY <2>1
  <2> QED
    BY <2>2
<1>4. k \in {i \in 1 .. Len(lens) : b = Bytes(i, Header + 1, Header + lens[i])}
  BY <1>2, <1>3
<1> QED
  BY <1>4 DEF StringOf

(* And these for its header.                                               *)
LEMMA HeaderFacts ==
  ASSUME Types, NEW b \in Streams, NEW k \in 1 .. Len(lens),
         Len(b) = Header, \A j \in 1 .. Len(b) : b[j] = <<k, j>>
  PROVE  be32toh(b) = {lens[k]}
<1>1. Header \in Nat \ {0} /\ lens[k] \in Nat /\ lens[k] <= U32Max /\ U32Max \in Nat
  BY LensFacts, LengthAssumption DEF Types
<1>2. Bytes(k, 1, Header) = [j \in 1 .. Header |-> <<k, j>>]
  <2>1. Header - 1 + 1 = Header /\ \A j \in 1 .. Header : 1 + j - 1 = j
    BY <1>1
  <2> QED
    BY <2>1 DEF Bytes
<1>3. b = [j \in 1 .. Header |-> <<k, j>>]
  <2>1. b \in Seq(Pair) /\ Len(b) \in Nat
    BY DEF Streams
  <2>2. b = [j \in 1 .. Len(b) |-> b[j]]
    BY <2>1
  <2> QED
    BY <2>2
<1>4. \E i \in 1 .. Len(lens) : b = Bytes(i, 1, Header)
  BY <1>2, <1>3
<1>5. b[1][1] = k
  BY <1>1
<1>6. wrap32(lens[k]) = lens[k]
  <2>1. \A a, m \in Nat : a <= m => a % (m + 1) = a
    BY SMTT(60)
  <2> QED
    BY <1>1, <2>1 DEF wrap32
<1> QED
  BY <1>4, <1>5, <1>6 DEF be32toh

LEMMA SliceFacts ==
  ASSUME NEW S, NEW a \in Seq(S), NEW n \in 1 .. Len(a)
  PROVE  /\ SubSeq(a, 1, n) \in Seq(S) /\ Len(SubSeq(a, 1, n)) = n
         /\ \A i \in 1 .. n : SubSeq(a, 1, n)[i] = a[i]
         /\ SubSeq(a, n + 1, Len(a)) \in Seq(S) /\ Len(SubSeq(a, n + 1, Len(a))) = Len(a) - n
         /\ \A i \in 1 .. Len(a) - n : SubSeq(a, n + 1, Len(a))[i] = a[i + n]
OBVIOUS

(* What is in the buffer afterwards, and what is left in the pipe, are the *)
(* two parts of the stream.                                                *)
Got(n) == r.buf \o SubSeq(pipe, 1, n)
Rest(n) == SubSeq(pipe, n + 1, Len(pipe))

LEMMA TakenFacts ==
  ASSUME Types, ReaderInv, NEW n \in 1 .. Len(pipe), NEW b, b = Got(n), NEW rest, rest = Rest(n)
  PROVE  /\ b \in Streams /\ rest \in Streams
         /\ Len(r.buf) \in Nat /\ Len(b) = Len(r.buf) + n /\ Len(b) + Len(rest) = Len(Stream)
         /\ \A i \in 1 .. Len(b) : b[i] = Stream[i]
         /\ \A i \in 1 .. Len(rest) : rest[i] = Stream[i + Len(b)]
<1> DEFINE c == SubSeq(pipe, 1, n)   m == Len(r.buf)   l == Len(pipe)   a == r.buf
<1>1. /\ pipe \in Seq(Pair) /\ a \in Seq(Pair) /\ n \in Nat \ {0} /\ m \in Nat /\ l \in Nat
      /\ n <= l /\ m = Len(a)
  BY DEF Types, ReaderInv, Streams
<1>2. /\ c \in Seq(Pair) /\ Len(c) = n /\ \A i \in 1 .. n : c[i] = pipe[i]
      /\ rest \in Seq(Pair) /\ Len(rest) = l - n /\ \A i \in 1 .. l - n : rest[i] = pipe[i + n]
  BY <1>1, SliceFacts DEF Rest
<1> HIDE DEF c
<1>3. b = a \o c
  BY DEF c, Got
<1> DEFINE d == a \o c
<1>4. /\ d \in Seq(Pair) /\ Len(d) = Len(a) + Len(c)
      /\ \A i \in 1 .. Len(a) : d[i] = a[i]
      /\ \A i \in 1 .. Len(c) : d[Len(a) + i] = c[i]
  <2> HIDE DEF a
  <2>1. c \in Seq(Pair) /\ a \in Seq(Pair)
    BY <1>1, <1>2
  <2> QED
    BY <2>1, ConcatFacts
<1>5. b = d
  BY <1>3
<1> HIDE DEF a, d
<1>6. /\ Len(Stream) = m + l /\ \A i \in 1 .. m : Stream[i] = a[i]
      /\ \A i \in 1 .. l : Stream[m + i] = pipe[i]
  BY StreamType DEF a
<1> HIDE DEF m, l
<1>7. Len(b) = m + n
  BY <1>1, <1>2, <1>4, <1>5
<1> DEFINE e == Len(c)
<1>8. n = e /\ m \in Nat /\ n \in Nat /\ \A i \in 1 .. e : d[m + i] = c[i]
  <2>1. \A i \in 1 .. e : d[Len(a) + i] = c[i]
    BY <1>4
  <2>2. m = Len(a) /\ m \in Nat /\ n \in Nat
    BY <1>1
  <2>3. n = e
    BY <1>2
  <2> QED
    BY <2>1, <2>2, <2>3, Zenon
<1> HIDE DEF e
<1>9. ASSUME NEW i \in 1 .. m + n
      PROVE  b[i] = Stream[i]
  <2>1. CASE i <= m
    <3>1. i \in 1 .. m
      BY <1>1, <2>1
    <3>2. d[i] = a[i]
      BY <1>1, <1>4, <3>1
    <3> QED
      BY <1>5, <1>6, <3>1, <3>2
  <2>2. CASE i > m
    <3>1. i - m \in 1 .. n /\ i - m \in 1 .. l /\ m + (i - m) = i
      BY <1>1, <2>2
    <3>2. d[m + (i - m)] = c[i - m]
      BY <1>8, <3>1
    <3>3. Stream[m + (i - m)] = pipe[i - m]
      BY <1>6, <3>1
    <3> QED
      BY <1>2, <1>5, <3>1, <3>2, <3>3
  <2>3. i <= m \/ i > m
    BY <1>8
  <2> QED
    BY <2>1, <2>2, <2>3
<1>10. ASSUME NEW i \in 1 .. l - n
      PROVE  rest[i] = Stream[i + (m + n)]
  <2>1. i + n \in 1 .. l /\ m + (i + n) = i + (m + n)
    BY <1>1
  <2>2. Stream[m + (i + n)] = pipe[i + n]
    BY <1>6, <2>1
  <2> QED
    BY <1>2, <2>1, <2>2
<1>11. m = Len(r.buf) /\ (m + n) + (l - n) = m + l
  BY <1>1 DEF m
<1> QED
  BY <1>1, <1>2, <1>4, <1>5, <1>6, <1>7, <1>9, <1>10, <1>11 DEF Streams

(* The bytes of a string before its last one follow its first one.         *)
LEMMA StringFacts ==
  ASSUME Types, NEW s \in Streams, NEW q \in Pair, Ordered(s, q, lens), Len(s) > 0,
         NEW k \in Nat, NEW x \in Nat \ {0}, s[1] = <<k, x>>
  PROVE  /\ k \in 1 .. Len(lens) /\ x <= End(lens, k)
         /\ \A j \in 1 .. Len(s) + 1 : x + (j - 1) <= End(lens, k) => At(s, q, j) = <<k, x + (j - 1)>>
         /\ \A j \in 1 .. Len(s) : x + (j - 1) = End(lens, k)
              => At(s, q, j + 1) = <<k + 1, 1>> /\ Before(<<k, End(lens, k)>>, q)
<1>1. Len(s) \in Nat /\ 1 \in 1 .. Len(s)
  BY DEF Streams
<1>2. IsByte(s[1], lens)
  BY <1>1 DEF Ordered, Written
<1>3. k \in 1 .. Len(lens) /\ x \in 1 .. End(lens, k)
  BY <1>2 DEF IsByte
<1>4. End(lens, k) \in Nat
  <2>1. lens[k] \in Nat /\ End(lens, k) = Header + lens[k]
    BY <1>3, LensFacts DEF Types
  <2> QED
    BY <2>1, LengthAssumption
<1>5. ASSUME NEW j \in 1 .. Len(s) + 1, x + (j - 1) <= End(lens, k)
      PROVE  At(s, q, j) = <<k, x + (j - 1)>>
  <2>1. Within(s[1], j - 1, lens)
    BY <1>5 DEF Within
  <2>2. At(s, q, j) = Ahead(s[1], j - 1)
    BY <1>1, <2>1 DEF Ordered, Connected
  <2> QED
    BY <2>2 DEF Ahead
<1>6. ASSUME NEW j \in 1 .. Len(s), x + (j - 1) = End(lens, k)
      PROVE  At(s, q, j + 1) = <<k + 1, 1>> /\ Before(<<k, End(lens, k)>>, q)
  <2>1. j \in 1 .. Len(s) + 1 /\ x + (j - 1) <= End(lens, k) /\ At(s, q, j) = s[j]
    BY <1>1, <1>4, <1>6 DEF At
  <2>2. s[j] = <<k, End(lens, k)>>
    BY <1>5, <1>6, <2>1
  <2>3. ~ Within(s[j], 1, lens)
    BY <1>4, <2>2 DEF Within
  <2>4. At(s, q, j + 1) = <<s[j][1] + 1, 1>>
    BY <2>3 DEF Ordered, Joined
  <2>5. Before(s[j], q)
    BY DEF Ordered, Written
  <2> QED
    BY <2>2, <2>4, <2>5
<1> QED
  BY <1>3, <1>5, <1>6, SMTT(60)

Takes(n, b) ==
  /\ n \in 1 .. Len(pipe) /\ b = Got(n) /\ pipe' = Rest(n) /\ r.at \notin Gone
  /\ UNCHANGED <<w, lens, acked>>

(* They are put into the buffer, or the buffer has been used.              *)
LEMMA StreamRead ==
  ASSUME IInv, NEW n, NEW b, Takes(n, b), r'.buf = b
  PROVE  Ordered(Stream', NextToWrite', lens') /\ At(Stream', NextToWrite', 1) = NextToRead
<1> DEFINE rest == Rest(n)   s == Stream   t == Stream'   d == b \o rest
<1>1. /\ b \in Streams /\ rest \in Streams /\ Len(b) + Len(rest) = Len(s)
      /\ \A i \in 1 .. Len(b) : b[i] = s[i]
      /\ \A i \in 1 .. Len(rest) : rest[i] = s[i + Len(b)]
  <2>1. Types /\ ReaderInv /\ n \in 1 .. Len(pipe) /\ b = Got(n)
    BY DEF Takes, IInv
  <2>2. /\ b \in Streams /\ rest \in Streams /\ Len(b) + Len(rest) = Len(s)
        /\ \A i \in 1 .. Len(rest) : rest[i] = s[i + Len(b)]
    BY <2>1, TakenFacts
  <2>3. \A i \in 1 .. Len(b) : b[i] = s[i]
    BY <2>1, TakenFacts
  <2> QED
    BY <2>2, <2>3
<1>2. t = d
  BY DEF Takes, Stream
<1>3. s \in Streams /\ Ordered(s, NextToWrite, lens) /\ At(s, NextToWrite, 1) = NextToRead
  BY StreamType DEF IInv, StreamInv, Takes
<1>4. NextToWrite' = NextToWrite /\ lens' = lens /\ NextToWrite \in Pair /\ lens \in Seq(Length)
  BY NextToWriteFacts DEF Takes, NextToWrite, IInv, Types, Lists
<1> HIDE DEF rest, s, t
<1>5. /\ d \in Seq(Pair) /\ Len(b) \in Nat /\ Len(rest) \in Nat /\ Len(d) = Len(b) + Len(rest)
      /\ \A i \in 1 .. Len(b) : d[i] = b[i]
      /\ \A i \in 1 .. Len(rest) : d[Len(b) + i] = rest[i]
  <2>1. b \in Seq(Pair) /\ rest \in Seq(Pair)
    BY <1>1 DEF Streams
  <2> QED
    BY <2>1, ConcatFacts
<1> HIDE DEF d
<1>6. ASSUME NEW i \in 1 .. Len(s)
      PROVE  d[i] = s[i]
  <2> DEFINE j == i - Len(b)
  <2>1. CASE i <= Len(b)
    <3>1. i \in 1 .. Len(b)
      BY <1>5, <2>1
    <3> QED
      BY <1>1, <1>5, <3>1
  <2>2. CASE i > Len(b)
    <3>1. j \in 1 .. Len(rest) /\ Len(b) + j = i /\ j + Len(b) = i
      BY <1>1, <1>5, <2>2
    <3> HIDE DEF j
    <3> QED
      BY <1>1, <1>5, <3>1
  <2> QED
    BY <1>5, <2>1, <2>2
<1>7. Len(s) \in Nat /\ Len(d) = Len(s) - 0 /\ 0 \in 0 .. Len(s)
  BY <1>1, <1>5
<1>8. \A i \in 1 .. Len(d) : d[i] = s[i + 0]
  BY <1>6, <1>7
<1>9. Ordered(d, NextToWrite, lens) /\ At(d, NextToWrite, 1) = At(s, NextToWrite, 0 + 1)
  <2>1. s \in Seq(Pair)
    BY <1>3 DEF Streams
  <2> QED
    BY <1>3, <1>4, <1>5, <1>7, <1>8, <2>1, DropOrdered
<1> QED
  BY <1>2, <1>3, <1>4, <1>9 DEF t

LEMMA StreamDropped ==
  ASSUME IInv, NEW n, NEW b, Takes(n, b), r'.buf = <<>>
  PROVE  /\ Ordered(Stream', NextToWrite', lens')
         /\ At(Stream', NextToWrite', 1) = At(Stream, NextToWrite, Len(b) + 1)
<1> DEFINE rest == Rest(n)   s == Stream   t == Stream'
<1>1. /\ b \in Streams /\ rest \in Streams /\ Len(b) + Len(rest) = Len(s)
      /\ \A i \in 1 .. Len(rest) : rest[i] = s[i + Len(b)]
  <2>1. Types /\ ReaderInv /\ n \in 1 .. Len(pipe) /\ b = Got(n)
    BY DEF Takes, IInv
  <2> QED
    BY <2>1, TakenFacts
<1>2. t = rest
  BY <1>1 DEF Takes, Stream, Streams
<1>3. s \in Streams /\ Ordered(s, NextToWrite, lens)
  BY StreamType DEF IInv, StreamInv, Takes
<1>4. NextToWrite' = NextToWrite /\ lens' = lens /\ NextToWrite \in Pair /\ lens \in Seq(Length)
  BY NextToWriteFacts DEF Takes, NextToWrite, IInv, Types, Lists
<1> HIDE DEF rest, s, t
<1>5. s \in Seq(Pair) /\ rest \in Seq(Pair) /\ Len(b) \in Nat /\ Len(rest) \in Nat /\ Len(s) \in Nat
  BY <1>1, <1>3 DEF Streams
<1>6. Len(b) \in 0 .. Len(s) /\ Len(rest) = Len(s) - Len(b)
  BY <1>1, <1>5
<1>7. Ordered(rest, NextToWrite, lens) /\ At(rest, NextToWrite, 1) = At(s, NextToWrite, Len(b) + 1)
  BY <1>1, <1>3, <1>4, <1>5, <1>6, DropOrdered, ZenonT(60)
<1> QED
  BY <1>2, <1>4, <1>7 DEF s, t

(* read() returns less than what is missing.                               *)
LEMMA ReadPart ==
  ASSUME IInv, Reading, NEW n, NEW b, Takes(n, b), n < r.left,
         r' = [r EXCEPT !.left = @ - n, !.buf = b], delivered' = delivered
  PROVE  IInv' /\ HandsOver
<1>1. /\ b \in Streams /\ pipe' \in Streams /\ Len(b) = Len(r.buf) + n /\ n \in Nat \ {0}
      /\ Len(r.buf) \in Nat
  <2>1. pipe \in Seq(Pair)
    BY DEF IInv, Types, Streams
  <2>2. n \in Nat \ {0}
    BY <2>1 DEF Takes
  <2> QED
    BY <2>2, TakenFacts DEF Takes, IInv
<1>2. /\ DOMAIN r' = DOMAIN r /\ r'.at = r.at /\ r'.room = r.room /\ r'.left = r.left - n /\ r'.buf = b
      /\ r.left \in Nat /\ r.room \in Nat
  BY DEF IInv, ReaderInv
<1>3. Types' /\ WriterInv'
  BY <1>1 DEF Takes, IInv, Types, WriterInv
<1>4. lens' = lens /\ r.at \notin Gone
  BY DEF Takes
<1>5. Len(r'.buf) + r'.left = Len(r.buf) + r.left /\ r'.left \in Nat
  <2> DEFINE x == Len(r.buf)   y == r.left
  <2>1. x \in Nat /\ y \in Nat /\ n \in Nat /\ n < y /\ Len(r'.buf) = x + n /\ r'.left = y - n
    BY <1>1, <1>2
  <2> HIDE DEF x, y
  <2>2. (x + n) + (y - n) = x + y /\ y - n \in Nat
    BY <2>1
  <2> QED
    BY <2>1, <2>2 DEF x, y
<1>6. ReaderInv'
  BY <1>1, <1>2, <1>4, <1>5 DEF IInv, ReaderInv, Reading
<1>7. StreamInv'
  <2>1. NextToRead' = NextToRead
    BY <1>2 DEF NextToRead
  <2> QED
    BY <1>2, <2>1, StreamRead DEF StreamInv
<1> QED
  BY <1>3, <1>6, <1>7 DEF IInv, HandsOver

(* What was read since the header or the string began, and what follows.   *)
LEMMA BytesRead ==
  ASSUME IInv, NEW n, NEW b, Takes(n, b), NEW k, k = Len(delivered) + 1,
         NEW x \in Nat \ {0}, NextToRead = <<k, x>>
  PROVE  /\ b \in Streams /\ Len(b) \in Nat \ {0} /\ Len(b) = Len(r.buf) + n /\ Len(r.buf) \in Nat
         /\ k \in 1 .. Len(lens) /\ End(lens, k) \in Nat
         /\ x + (Len(b) - 1) <= End(lens, k) => \A j \in 1 .. Len(b) : b[j] = <<k, x + (j - 1)>>
         /\ x + Len(b) <= End(lens, k) => At(Stream, NextToWrite, Len(b) + 1) = <<k, x + Len(b)>>
         /\ x + (Len(b) - 1) = End(lens, k)
              => At(Stream, NextToWrite, Len(b) + 1) = <<k + 1, 1>> /\ k <= acked
<1> DEFINE rest == Rest(n)   s == Stream   q == NextToWrite   l == Len(b)   e == End(lens, k)
<1>1. Types /\ ReaderInv /\ WriterInv /\ n \in 1 .. Len(pipe) /\ b = Got(n) /\ n \in Nat \ {0}
  <2>1. pipe \in Seq(Pair)
    BY DEF IInv, Types, Streams
  <2> QED
    BY <2>1 DEF Takes, IInv
<1>2. /\ b \in Streams /\ rest \in Streams /\ Len(b) + Len(rest) = Len(s)
      /\ Len(r.buf) \in Nat /\ Len(b) = Len(r.buf) + n
  BY <1>1, TakenFacts, SMTT(60)
<1>3. \A i \in 1 .. Len(b) : b[i] = s[i]
  BY <1>1, TakenFacts
<1>4. Len(b) \in Nat \ {0} /\ Len(rest) \in Nat /\ Len(s) \in Nat \ {0} /\ Len(b) <= Len(s)
  BY <1>1, <1>2 DEF Streams
<1>5. s \in Streams /\ Ordered(s, q, lens) /\ At(s, q, 1) = <<k, x>> /\ q \in Pair
  BY StreamType, NextToWriteFacts DEF IInv, StreamInv, Takes
<1>6. s[1] = <<k, x>> /\ k \in Nat
  BY <1>1, <1>4, <1>5 DEF At, Types
<1> HIDE DEF rest, s, q
<1>7. /\ k \in 1 .. Len(lens)
      /\ \A j \in 1 .. Len(s) + 1 : x + (j - 1) <= End(lens, k) => At(s, q, j) = <<k, x + (j - 1)>>
      /\ \A j \in 1 .. Len(s) : x + (j - 1) = End(lens, k)
           => At(s, q, j + 1) = <<k + 1, 1>> /\ Before(<<k, End(lens, k)>>, q)
  <2>1. Types /\ s \in Streams /\ q \in Pair /\ Ordered(s, q, lens) /\ Len(s) > 0
    BY <1>1, <1>4, <1>5
  <2>2. k \in Nat /\ x \in Nat \ {0} /\ s[1] = <<k, x>>
    BY <1>6
  <2>3. /\ k \in 1 .. Len(lens)
        /\ \A j \in 1 .. Len(s) + 1 : x + (j - 1) <= End(lens, k) => At(s, q, j) = <<k, x + (j - 1)>>
    BY <2>1, <2>2, StringFacts
  <2>4. \A j \in 1 .. Len(s) : x + (j - 1) = End(lens, k)
           => At(s, q, j + 1) = <<k + 1, 1>> /\ Before(<<k, End(lens, k)>>, q)
    BY <2>1, <2>2, StringFacts
  <2> QED
    BY <2>3, <2>4
<1>8. End(lens, k) \in Nat
  BY <1>1, <1>7, LensFacts, LengthAssumption, SMTT(60) DEF Types
<1>9. ASSUME x + (Len(b) - 1) <= End(lens, k), NEW j \in 1 .. Len(b)
      PROVE  b[j] = <<k, x + (j - 1)>>
  <2>1. j \in 1 .. Len(s) /\ j \in 1 .. Len(s) + 1
    BY <1>4
  <2>2. x + (j - 1) <= End(lens, k)
    <3> HIDE DEF l, e
    <3>1. x \in Nat /\ j \in Nat /\ l \in Nat /\ e \in Nat /\ j <= l /\ x + (l - 1) <= e
      BY <1>4, <1>8, <1>9 DEF l, e
    <3>2. x + (j - 1) <= e
      BY <3>1
    <3> QED
      BY <3>2 DEF e
  <2>3. At(s, q, j) = <<k, x + (j - 1)>>
    BY <1>7, <2>1, <2>2
  <2> QED
    BY <1>3, <2>1, <2>3 DEF At
<1>10. ASSUME x + Len(b) <= End(lens, k)
       PROVE  At(s, q, Len(b) + 1) = <<k, x + Len(b)>>
  <2>1. l \in Nat /\ l + 1 \in 1 .. Len(s) + 1 /\ (l + 1) - 1 = l /\ x + l <= e
    BY <1>4, <1>10
  <2> HIDE DEF l
  <2>2. At(s, q, l + 1) = <<k, x + ((l + 1) - 1)>>
    BY <1>7, <2>1
  <2>3. At(s, q, l + 1) = <<k, x + l>>
    BY <2>1, <2>2
  <2> QED
    BY <2>3 DEF l
<1>11. ASSUME x + (Len(b) - 1) = End(lens, k)
       PROVE  At(s, q, Len(b) + 1) = <<k + 1, 1>> /\ k <= acked
  <2>1. Len(b) \in 1 .. Len(s)
    BY <1>4
  <2>2. At(s, q, Len(b) + 1) = <<k + 1, 1>> /\ Before(<<k, End(lens, k)>>, q)
    BY <1>7, <1>11, <2>1
  <2> QED
    BY <1>1, <1>7, <2>2, WholeString DEF q
<1> QED
  BY <1>2, <1>4, <1>7, <1>8, <1>9, <1>10, <1>11 DEF s, q

(* A whole string was read: it is handed over, and the next one follows.   *)
LEMMA StringReturned ==
  ASSUME IInv, NEW n, NEW b, Takes(n, b), NEW t \in Streams, Returns(t), NEW k, k = Len(delivered) + 1,
         k \in 1 .. Len(lens), k <= acked, StringOf(t) = k,
         At(Stream, NextToWrite, Len(b) + 1) = <<k + 1, 1>>
  PROVE  IInv' /\ HandsOver
<1>1. /\ r' = [Stopped(r) EXCEPT !.at = "idle", !.buf = <<>>]
      /\ delivered' = Append(delivered, k)
  BY DEF Returns
<1>2. /\ DOMAIN r' = DOMAIN r /\ r'.at = "idle" /\ r'.buf = <<>> /\ r'.left = 0 /\ r'.room = r.room
  BY <1>1 DEF Stopped, IInv, ReaderInv
<1>3. delivered \in Seq(Nat) /\ k \in Nat
  BY DEF IInv, Types
<1>4. delivered' \in Seq(Nat) /\ Len(delivered') = k
  BY <1>1, <1>3
<1>5. n \in 1 .. Len(pipe) /\ pipe' \in Streams /\ UNCHANGED <<w, lens, acked>>
  <2>1. n \in 1 .. Len(pipe) /\ pipe' = Rest(n) /\ UNCHANGED <<w, lens, acked>>
    BY DEF Takes
  <2>2. Rest(n) \in Streams
    BY <2>1, TakenFacts DEF IInv
  <2> QED
    BY <2>1, <2>2
<1>6. Types' /\ WriterInv'
  BY <1>4, <1>5 DEF IInv, Types, WriterInv
<1>7. ReaderInv'
  BY <1>2 DEF IInv, ReaderInv, Streams
<1>8. StreamInv'
  <2>1. NextToRead' = <<k + 1, 1>>
    BY <1>2, <1>4 DEF NextToRead
  <2> QED
    BY <1>2, <2>1, StreamDropped DEF StreamInv
<1>9. HandsOver
  BY <1>1, <1>3 DEF HandsOver, IInv, Types
<1> QED
  BY <1>6, <1>7, <1>8, <1>9 DEF IInv

(* The call fails, whatever it had read.                                   *)
LEMMA ReadStops ==
  ASSUME IInv, NEW n, NEW b, Takes(n, b), Fails
  PROVE  IInv' /\ HandsOver
<1>1. /\ DOMAIN r' = DOMAIN r /\ r'.at = "stopped" /\ r'.buf = r.buf /\ r'.left = 0 /\ r'.room = r.room
      /\ delivered' = delivered
  BY DEF Fails, Stopped, IInv, ReaderInv
<1>2. n \in 1 .. Len(pipe) /\ pipe' \in Streams /\ UNCHANGED <<w, lens, acked>>
  <2>1. n \in 1 .. Len(pipe) /\ pipe' = Rest(n) /\ UNCHANGED <<w, lens, acked>>
    BY DEF Takes
  <2>2. Rest(n) \in Streams
    BY <2>1, TakenFacts DEF IInv
  <2> QED
    BY <2>1, <2>2
<1>3. Types' /\ WriterInv' /\ ReaderInv' /\ StreamInv'
  BY <1>1, <1>2 DEF IInv, Types, WriterInv, ReaderInv, StreamInv, Gone
<1> QED
  BY <1>1, <1>3 DEF IInv, HandsOver

(* "slen + 1" is 0 for the greatest length and for no other.               *)
LEMMA AllocatedFacts ==
  ASSUME ReaderInv, NEW slen \in Nat, slen <= U32Max
  PROVE  /\ Allocated(slen) \in Nat
         /\ fits(slen) => \/ slen < Allocated(slen)
                          \/ r.call = "read_stra" /\ slen = U32Max
<1>1. U32Max \in Nat /\ r.room \in Nat
  BY LengthAssumption DEF ReaderInv
<1>2. CASE r.call # "read_stra"
  BY <1>1, <1>2 DEF Allocated, fits
<1>3. CASE r.call = "read_stra"
  <2>1. Allocated(slen) = (slen + 1) % (U32Max + 1)
    BY <1>3 DEF Allocated, wrap32
  <2>2. (slen + 1) % (U32Max + 1) \in Nat
    BY <1>1
  <2>3. \A x, m \in Nat : x < m => (x + 1) % (m + 1) = x + 1
    OBVIOUS
  <2>4. slen < U32Max => (slen + 1) % (U32Max + 1) = slen + 1
    BY <1>1, <2>3
  <2> QED
    BY <1>1, <1>3, <2>1, <2>2, <2>4
<1> QED
  BY <1>2, <1>3

LEMMA ReadHead ==
  ASSUME IInv, NEW n, NEW b, Takes(n, b), r.at = "head", n = r.left, HeaderRead(b)
  PROVE  IInv' /\ HandsOver
<1> DEFINE k == Len(delivered) + 1   q == NextToWrite
<1>1. k = Len(delivered) + 1 /\ NextToRead = <<k, 1>> /\ 1 \in Nat \ {0}
  BY DEF NextToRead
<1>2. Header \in Nat \ {0} /\ U32Max \in Nat
  BY LengthAssumption
<1> HIDE DEF k, q
<1>3. /\ b \in Streams /\ Len(b) = Len(r.buf) + n /\ Len(r.buf) \in Nat /\ k \in 1 .. Len(lens)
  BY <1>1, BytesRead
<1>4. Len(b) = Header
  BY <1>3 DEF IInv, ReaderInv
<1>5. /\ lens[k] \in Nat /\ lens[k] <= U32Max /\ End(lens, k) = Header + lens[k]
  BY <1>3, LensFacts DEF IInv, Types
<1>6. 1 + (Len(b) - 1) <= End(lens, k) /\ 1 + (Len(b) - 1) = Header
  BY <1>2, <1>4, <1>5
<1>7. \A j \in 1 .. Len(b) : b[j] = <<k, j>>
  <2>1. \A j \in 1 .. Len(b) : b[j] = <<k, 1 + (j - 1)>>
    BY <1>1, <1>6, BytesRead
  <2>2. \A j \in 1 .. Len(b) : 1 + (j - 1) = j
    BY <1>2, <1>4
  <2> QED
    BY <2>1, <2>2
<1>8. be32toh(b) = {lens[k]}
  BY <1>3, <1>4, <1>7, HeaderFacts DEF IInv
<1>9. /\ Allocated(lens[k]) \in Nat
      /\ fits(lens[k]) => \/ lens[k] < Allocated(lens[k])
                          \/ r.call = "read_stra" /\ lens[k] = U32Max
  BY <1>2, <1>5, AllocatedFacts DEF IInv
<1>10. pipe' \in Streams /\ UNCHANGED <<w, lens, acked>>
  <2>1. n \in 1 .. Len(pipe) /\ pipe' = Rest(n) /\ UNCHANGED <<w, lens, acked>>
    BY DEF Takes
  <2>2. Rest(n) \in Streams
    BY <2>1, TakenFacts DEF IInv
  <2> QED
    BY <2>1, <2>2
<1>11. CASE Returns(<<>>) /\ lens[k] = 0
  <2>1. 1 + (Len(b) - 1) = End(lens, k)
    BY <1>2, <1>5, <1>6, <1>11
  <2>2. At(Stream, NextToWrite, Len(b) + 1) = <<k + 1, 1>> /\ k <= acked
    BY <1>1, <2>1, BytesRead
  <2>3. <<>> \in Streams /\ Len(<<>>) = 0
    BY DEF Streams
  <2>4. StringOf(<<>>) = k
    BY <1>1, <1>3, <1>11, <2>3, StringOfFacts DEF IInv
  <2> QED
    BY <1>1, <1>3, <1>11, <2>2, <2>3, <2>4, StringReturned
<1>12. CASE /\ lens[k] # 0 /\ fits(lens[k]) /\ delivered' = delivered
            /\ lens[k] < Allocated(lens[k])
            /\ r' = [r EXCEPT !.at = "body", !.room = Allocated(lens[k]), !.left = lens[k], !.buf = <<>>]
  <2>1. Allocated(lens[k]) \in Nat /\ lens[k] + 1 <= Allocated(lens[k])
    <3>1. Allocated(lens[k]) \in Nat
      BY <1>5, <1>9
    <3> QED
      BY <1>5, <1>12, <3>1
  <2>2. /\ DOMAIN r' = DOMAIN r /\ r'.at = "body" /\ r'.room = Allocated(lens[k]) /\ r'.left = lens[k]
        /\ r'.buf = <<>>
    BY <1>12 DEF IInv, ReaderInv
  <2>3. pipe' \in Streams /\ UNCHANGED <<w, lens, acked>>
    BY <1>10
  <2>4. Types' /\ WriterInv'
    BY <1>12, <2>3 DEF IInv, Types, WriterInv
  <2>5. ReaderInv'
    <3>1. DOMAIN r' = {"call", "at", "room", "left", "buf"}
      BY <2>2 DEF IInv, ReaderInv
    <3>2. r'.left \in Nat /\ r'.room \in Nat /\ r'.buf \in Streams /\ Len(r'.buf) = 0
      BY <1>5, <2>1, <2>2 DEF Streams
    <3>3. Len(delivered') + 1 = k /\ lens' = lens /\ k \in 1 .. Len(lens)
      BY <1>1, <1>3, <1>12, <2>3
    <3>4. k <= Len(lens)
      BY <1>3
    <3>5. Len(r'.buf) + r'.left = lens[k] /\ Len(r'.buf) + r'.left + 1 <= r'.room
      BY <1>5, <2>1, <2>2, <3>2
    <3> QED
      BY <2>2, <3>1, <3>2, <3>3, <3>4, <3>5 DEF ReaderInv
  <2>6. StreamInv'
    <3>1. NextToRead' = <<k, Header + 1>>
      BY <1>1, <1>12, <2>2 DEF NextToRead
    <3>2. 1 + Len(b) <= End(lens, k) /\ 1 + Len(b) = Header + 1
      BY <1>2, <1>4, <1>5, <1>12
    <3>3. At(Stream, NextToWrite, Len(b) + 1) = <<k, 1 + Len(b)>>
      BY <1>1, <3>2, BytesRead
    <3> QED
      BY <2>2, <3>1, <3>2, <3>3, StreamDropped DEF StreamInv
  <2> QED
    BY <1>12, <2>4, <2>5, <2>6 DEF IInv, HandsOver
<1>13. CASE /\ fits(lens[k]) /\ ~ (lens[k] < Allocated(lens[k])) /\ delivered' = delivered
            /\ r' = [r EXCEPT !.at = "overrun", !.room = Allocated(lens[k]), !.left = lens[k], !.buf = <<>>]
  <2>1. Allocated(lens[k]) \in Nat /\ r.call = "read_stra" /\ lens[k] = U32Max
    BY <1>5, <1>13, <1>9
  <2>2. /\ DOMAIN r' = DOMAIN r /\ r'.at = "overrun" /\ r'.room = Allocated(lens[k]) /\ r'.left = lens[k]
        /\ r'.buf = <<>> /\ r'.call = r.call
    BY <1>13 DEF IInv, ReaderInv
  <2>3. pipe' \in Streams /\ UNCHANGED <<w, lens, acked>>
    BY <1>10
  <2>4. Types' /\ WriterInv'
    BY <1>13, <2>3 DEF IInv, Types, WriterInv
  <2>5. ReaderInv'
    <3>1. DOMAIN r' = {"call", "at", "room", "left", "buf"}
      BY <2>2 DEF IInv, ReaderInv
    <3>2. r'.left \in Nat /\ r'.room \in Nat /\ r'.buf \in Streams
      BY <1>5, <2>1, <2>2 DEF Streams
    <3>3. Len(delivered') + 1 = k /\ lens' = lens /\ k <= Len(lens)
      BY <1>1, <1>3, <1>13, <2>3
    <3> QED
      BY <2>1, <2>2, <3>1, <3>2, <3>3 DEF ReaderInv
  <2>6. StreamInv'
    BY <2>2 DEF StreamInv, Gone
  <2> QED
    BY <1>13, <2>4, <2>5, <2>6 DEF IInv, HandsOver
<1>14. \/ Returns(<<>>) /\ lens[k] = 0
       \/ /\ fits(lens[k]) /\ delivered' = delivered
          /\ \/ /\ lens[k] # 0 /\ lens[k] < Allocated(lens[k])
                /\ r' = [r EXCEPT !.at = "body", !.room = Allocated(lens[k]), !.left = lens[k], !.buf = <<>>]
             \/ /\ ~ (lens[k] < Allocated(lens[k]))
                /\ r' = [r EXCEPT !.at = "overrun", !.room = Allocated(lens[k]), !.left = lens[k], !.buf = <<>>]
       \/ Fails
  BY <1>8 DEF HeaderRead
<1> QED
  BY <1>11, <1>12, <1>13, <1>14, ReadStops

LEMMA ReadBody ==
  ASSUME IInv, NEW n, NEW b, Takes(n, b), r.at = "body", n = r.left, Returns(b)
  PROVE  IInv' /\ HandsOver
<1> DEFINE k == Len(delivered) + 1
<1>1. k = Len(delivered) + 1 /\ NextToRead = <<k, Header + 1>> /\ Header + 1 \in Nat \ {0}
  BY LengthAssumption DEF NextToRead
<1>2. Header \in Nat \ {0}
  BY LengthAssumption
<1> HIDE DEF k
<1>3. /\ b \in Streams /\ Len(b) = Len(r.buf) + n /\ Len(b) \in Nat \ {0} /\ k \in 1 .. Len(lens)
  BY <1>1, BytesRead
<1>4. Len(b) = lens[k]
  BY <1>1, <1>3 DEF IInv, ReaderInv
<1>5. End(lens, k) = Header + Len(b)
  BY <1>4 DEF End
<1>6. (Header + 1) + (Len(b) - 1) = Header + Len(b)
  BY <1>2, <1>3
<1>7. (Header + 1) + (Len(b) - 1) = End(lens, k) /\ (Header + 1) + (Len(b) - 1) <= End(lens, k)
  BY <1>2, <1>3, <1>5, <1>6
<1>8. \A j \in 1 .. Len(b) : b[j] = <<k, Header + j>>
  <2>1. \A j \in 1 .. Len(b) : b[j] = <<k, (Header + 1) + (j - 1)>>
    BY <1>1, <1>7, BytesRead, SMTT(60)
  <2>2. \A j \in 1 .. Len(b) : (Header + 1) + (j - 1) = Header + j
    BY <1>2, <1>3
  <2> QED
    BY <2>1, <2>2
<1>9. StringOf(b) = k
  BY <1>1, <1>3, <1>4, <1>8, StringOfFacts DEF IInv
<1>10. At(Stream, NextToWrite, Len(b) + 1) = <<k + 1, 1>> /\ k <= acked
  BY <1>1, <1>7, BytesRead
<1> QED
  BY <1>1, <1>3, <1>9, <1>10, StringReturned

LEMMA ReadStep ==
  ASSUME IInv, NEW n, Read(n)
  PROVE  IInv' /\ HandsOver
<1> DEFINE b == Got(n)
<1>1. Len(pipe) \in Nat /\ r.left \in Nat
  BY DEF IInv, Types, Streams, ReaderInv
<1>2. n \in 1 .. Len(pipe) /\ n <= r.left
  BY <1>1 DEF Read, Smaller
<1>3. Takes(n, b) /\ Reading
  BY <1>2 DEF Read, Takes, Rest, Reading, Gone
<1>4. IF n < r.left
      THEN r' = [r EXCEPT !.left = @ - n, !.buf = b] /\ UNCHANGED delivered
      ELSE CASE r.at = "head" -> HeaderRead(b)
             [] r.at = "body" -> Returns(b)
             [] r.at = "rest" -> Fails
  BY DEF Read, Got
<1> HIDE DEF b
<1>5. CASE n < r.left
  BY <1>3, <1>4, <1>5, ReadPart
<1>6. CASE n = r.left
  <2>0. ~ (n < r.left)
    BY <1>1, <1>6
  <2>1. CASE r.at = "head"
    <3>1. HeaderRead(b)
      BY <1>4, <2>0, <2>1
    <3> QED
      BY <1>3, <1>6, <2>1, <3>1, ReadHead
  <2>2. CASE r.at = "body"
    <3>1. Returns(b)
      BY <1>4, <2>0, <2>2
    <3> QED
      BY <1>3, <1>6, <2>2, <3>1, ReadBody
  <2>3. CASE r.at = "rest"
    <3>1. Fails
      BY <1>4, <2>0, <2>3
    <3> QED
      BY <1>3, <1>6, <2>3, <3>1, ReadStops
  <2> QED
    BY <1>3, <2>1, <2>2, <2>3 DEF Reading
<1>7. n < r.left \/ n = r.left
  BY <1>1, <1>2
<1> QED
  BY <1>5, <1>6, <1>7

-----------------------------------------------------------------------------
(* The invariant, and what follows from it                                 *)

(* What a step does to the stream, and what it hands over.                 *)
LEMMA NextIInv ==
  ASSUME IInv, [Next]_vars
  PROVE  IInv' /\ HandsOver
<1>1. CASE UNCHANGED vars
  <2>1. UNCHANGED <<w, r, pipe, lens, acked, delivered>>
    BY <1>1 DEF vars
  <2> QED
    BY <2>1 DEF IInv, Types, WriterInv, ReaderInv, StreamInv, Stream, NextToRead, NextToWrite, HandsOver
<1>2. ASSUME NEW len \in Lengths, WriteStr(len)
      PROVE  IInv' /\ HandsOver
  BY <1>2, WriteStrStep
<1>3. ASSUME NEW n \in 1 .. Capacity, Write(n)
      PROVE  IInv' /\ HandsOver
  BY <1>3, WriteStep
<1>4. CASE WriteFails \/ CloseWriter
  BY <1>4, WriteFailsStep, CloseWriterStep
<1>5. ASSUME NEW room \in Rooms, ReadStr("read_str", room) \/ ReadEof(room)
      PROVE  IInv' /\ HandsOver
  <2>1. room \in Nat
    BY LengthAssumption
  <2> QED
    BY <1>5, <2>1, ReadStrStep, ReadEofStep
<1>6. CASE ReadStr("read_stra", 0)
  BY <1>6, ReadStrStep
<1>7. CASE ReadEnd \/ ReadFails
  BY <1>7, StopSteps
<1>8. ASSUME NEW n \in 1 .. Capacity, Read(n)
      PROVE  IInv' /\ HandsOver
  BY <1>8, ReadStep
<1> QED
  BY <1>1, <1>2, <1>3, <1>4, <1>5, <1>6, <1>7, <1>8 DEF Next, WriterGoesOn, ReaderCalls, ReaderGoesOn

LEMMA Invariance == Spec => []IInv
<1>1. IInv /\ [Next]_vars => IInv'
  BY NextIInv
<1> QED
  BY InitIInv, <1>1, PTL DEF Spec

(* The NUL byte behind what is read stays inside of the buffer: read_str() *)
(* compares the length in the header with the room it has, and read_stra() *)
(* allocates "slen + 1" bytes, which wrap around to none for the greatest  *)
(* length of a header and for no other.                                    *)
THEOREM StaysInBuffer == Spec => []BufferFits
<1>1. IInv => BufferFits
  BY DEF IInv, ReaderInv, BufferFits
<1> QED
  BY Invariance, <1>1, PTL

(* Between reader and writer is every byte once and in its order, for all  *)
(* ways in which write_all() and read_all() are cut into system calls, and *)
(* for every capacity of the pipe.                                         *)
THEOREM BytesInOrder == Spec => []StreamInOrder
<1>1. ASSUME IInv
      PROVE  StreamInOrder
  <2> DEFINE b == Stream   q == NextToWrite
  <2> SUFFICES ASSUME r.at \notin Gone
               PROVE  /\ \A i \in 1 .. Len(b) - 1 : b[i + 1] = Follows(b[i])
                      /\ IF b = <<>> THEN NextToRead = q ELSE Head(b) = NextToRead /\ Follows(Last(b)) = q
    BY DEF StreamInOrder, Stream, Gone
  <2>1. /\ Types /\ b \in Seq(Pair) /\ Len(b) \in Nat
        /\ Ordered(b, q, lens) /\ At(b, q, 1) = NextToRead
    BY <1>1, StreamType DEF IInv, StreamInv, Streams
  <2> HIDE DEF b, q
  <2>2. ASSUME NEW i \in 1 .. Len(b)
        PROVE  At(b, q, i + 1) = Follows(b[i])
    <3> DEFINE k == b[i][1]   x == b[i][2]
    <3>1. IsByte(b[i], lens)
      BY <2>1 DEF Ordered, Written
    <3>2. k \in 1 .. Len(lens) /\ x \in 1 .. End(lens, k)
      BY <3>1 DEF IsByte
    <3>3. x \in Nat /\ End(lens, k) = Header + lens[k] /\ lens[k] \in Nat /\ Header \in Nat
      BY <2>1, <3>2, LensFacts, LengthAssumption DEF Types
    <3>4. CASE Within(b[i], 1, lens)
      <4>1. i + 1 \in i .. Len(b) + 1 /\ (i + 1) - i = 1
        BY <2>1
      <4>2. At(b, q, i + 1) = Ahead(b[i], 1)
        <5>1. Within(b[i], (i + 1) - i, lens)
          BY <3>4, <4>1
        <5>2. At(b, q, i + 1) = Ahead(b[i], (i + 1) - i)
          BY <2>1, <4>1, <5>1 DEF Ordered, Connected
        <5> QED
          BY <4>1, <5>2
      <4>3. x < Header + lens[k]
        BY <3>3, <3>4 DEF Within
      <4> QED
        BY <4>2, <4>3 DEF Follows, Ahead
    <3>5. CASE ~ Within(b[i], 1, lens)
      <4>1. At(b, q, i + 1) = <<k + 1, 1>>
        BY <2>1, <3>5 DEF Ordered, Joined
      <4>2. ~ (x < Header + lens[k])
        BY <3>3, <3>5 DEF Within
      <4> QED
        BY <4>1, <4>2 DEF Follows
    <3> QED
      BY <3>4, <3>5
  <2>3. ASSUME NEW i \in 1 .. Len(b) - 1
        PROVE  b[i + 1] = Follows(b[i])
    <3>1. i \in 1 .. Len(b) /\ i + 1 <= Len(b)
      BY <2>1
    <3> QED
      BY <2>2, <3>1 DEF At
  <2>4. CASE b = <<>>
    BY <2>1, <2>3, <2>4 DEF At
  <2>5. CASE b # <<>>
    <3>1. Len(b) \in 1 .. Len(b) /\ Head(b) = b[1] /\ Last(b) = b[Len(b)] /\ 1 <= Len(b)
      BY <2>1, <2>5 DEF Last
    <3>2. At(b, q, Len(b) + 1) = Follows(Last(b))
      BY <2>2, <3>1
    <3>3. At(b, q, Len(b) + 1) = q /\ At(b, q, 1) = b[1]
      BY <2>1, <3>1 DEF At
    <3> QED
      BY <2>1, <2>3, <2>5, <3>1, <3>2, <3>3
  <2> QED
    BY <2>4, <2>5
<1> QED
  BY Invariance, <1>1, PTL

-----------------------------------------------------------------------------
(* The channel of strings                                                  *)

LEMMA InitRefines == Init => Abstract!Init
BY DEF Init, Abstract!Init

LEMMA StepRefines ==
  ASSUME IInv, [Next]_vars
  PROVE  [Abstract!Next]_(Abstract!vars)
<1>1. /\ lens \in Seq(Length) /\ acked \in Nat /\ delivered \in Seq(Nat)
      /\ w.at = "idle" => acked = Len(lens)
      /\ w.at # "idle" => Len(lens) = acked + 1
  BY DEF IInv, Types, Lists, WriterInv
<1>2. ASSUME NEW len \in Lengths, WriteStr(len)
      PROVE  Abstract!Send
  <2>1. len \in Length
    BY LengthAssumption DEF Length
  <2>2. lens' = Append(lens, len) /\ Len(lens) = acked /\ UNCHANGED <<acked, delivered>>
    BY <1>1, <1>2 DEF WriteStr
  <2> QED
    BY <1>1, <2>1, <2>2 DEF Abstract!Send
<1>3. ASSUME NEW n \in 1 .. Capacity, Write(n)
      PROVE  Abstract!Acknowledge \/ UNCHANGED Abstract!vars
  <2>1. /\ w.at # "idle" /\ UNCHANGED <<lens, delivered>>
        /\ acked' = acked + 1 \/ acked' = acked
    BY <1>3 DEF Write, Writing
  <2>2. acked < Len(lens)
    BY <1>1, <2>1
  <2> QED
    BY <2>1, <2>2 DEF Abstract!Acknowledge, Abstract!vars
<1>4. ASSUME NEW n \in 1 .. Capacity, Read(n)
      PROVE  Abstract!Deliver \/ UNCHANGED Abstract!vars
  <2>1. HandsOver
    BY <1>4, ReadStep
  <2>2. UNCHANGED <<lens, acked>>
    BY <1>4 DEF Read
  <2> QED
    BY <2>1, <2>2 DEF HandsOver, Abstract!Deliver, Abstract!vars
<1>5. CASE \/ WriteFails \/ CloseWriter \/ ReaderCalls \/ ReadEnd \/ ReadFails
           \/ UNCHANGED vars
  <2>1. UNCHANGED <<lens, acked, delivered>>
    BY <1>5 DEF WriteFails, CloseWriter, ReaderCalls, ReadStr, ReadEof, ReadEnd, ReadFails, Fails, vars
  <2> QED
    BY <2>1 DEF Abstract!vars
<1> QED
  BY <1>2, <1>3, <1>4, <1>5 DEF Next, WriterGoesOn, ReaderGoesOn, Abstract!Next

(* The processes implement StringChannel: read_str() and read_stra() hand  *)
(* over the strings that write_str() returned true for, each once and in   *)
(* their order, for strings, buffers and pipes of any size.                *)
THEOREM Implements == Spec => Refinement
BY Invariance, InitRefines, StepRefines, PTL DEF Spec, Refinement, Abstract!Spec

=============================================================================
