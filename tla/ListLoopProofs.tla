--------------------------- MODULE ListLoopProofs ---------------------------
(***************************************************************************)
(* The invariant of List is also one of the loops, and with it a loop      *)
(* always stands on its list.  With the sequences that the rings are, a    *)
(* loop whose body only takes "it" away visits all of them.                *)
(***************************************************************************)
EXTENDS ListLoop, ListProofs

(* The loop is a record of these fields; nothing is said of their types.   *)
Shape ==
  loop = [saving |-> loop.saving, quiet |-> loop.quiet, head |-> loop.head, it |-> loop.it,
          tmp |-> loop.tmp, seen |-> loop.seen, start |-> loop.start]

LoopIInv ==
  /\ IInv
  /\ Shape
  /\ loop.head \in Heads \cup {Nothing}
  /\ OnItsList

(* At first no loop runs.                                                  *)
LEMMA LoopInitIInv == LoopInit => LoopIInv
<1> SUFFICES ASSUME LoopInit
             PROVE  LoopIInv
  OBVIOUS
<1>1. IInv
  BY InitIInv DEF LoopInit
<1> QED
  BY <1>1 DEF LoopInit, LoopIInv, NoLoop, OnItsList, Running, Shape

(* Both pointers of a node that is on a list lead to that list.            *)
LEMMA NextListed ==
  ASSUME IInv, NEW n \in Node, on[n] \in Heads
  PROVE  mem.next[n] \in Node /\ on[mem.next[n]] = on[n]
BY NodeAssumption DEF IInv, Sound, WellLinkedIn, Node

(* No step of a loop, of its body or outside takes a running loop off its  *)
(* list.                                                                   *)
LEMMA LoopNextIInv ==
  ASSUME MoveLast = FALSE, LoopIInv, [LoopNext]_loopVars
  PROVE  LoopIInv'
<1>1. ASSUME NEW head \in Heads, NEW saving \in BOOLEAN, NEW quiet \in BOOLEAN,
             Begin(head, saving, quiet)
      PROVE  LoopIInv'
  <2>1. head \in Node /\ on[head] = head /\ IInv
    BY DEF LoopIInv, IInv, Sound, Ownership, Node
  <2>2. mem.next[head] \in Node /\ on[mem.next[head]] = head
    BY <2>1, NextListed
  <2>3. mem.next[mem.next[head]] \in Node /\ on[mem.next[mem.next[head]]] = head
    BY <2>1, <2>2, NextListed
  <2>4. /\ loop'.head = head /\ loop'.saving = saving /\ loop'.it = mem.next[head]
        /\ saving => loop'.tmp = mem.next[mem.next[head]]
        /\ UNCHANGED vars /\ Shape'
    BY <1>1 DEF Begin, Shape
  <2> QED
    BY <2>1, <2>2, <2>3, <2>4 DEF LoopIInv, IInv, OnItsList, Running, vars
<1>2. CASE Advance
  <2>1. /\ IInv /\ Running /\ loop.head \in Heads /\ UNCHANGED vars
        /\ loop' = [advance(loop) EXCEPT !.seen = Visited(loop)]
    BY <1>2 DEF Advance, LoopIInv, Running
  <2>2. CASE loop.saving
    <3>1. loop.tmp \in Node /\ on[loop.tmp] = loop.head
      BY <2>1, <2>2 DEF LoopIInv, OnItsList
    <3>2. mem.next[loop.tmp] \in Node /\ on[mem.next[loop.tmp]] = loop.head
      BY <2>1, <3>1, NextListed
    <3>3. /\ loop'.head = loop.head /\ loop'.saving = loop.saving
          /\ loop'.it = loop.tmp /\ loop'.tmp = mem.next[loop.tmp] /\ Shape'
      <4>1. advance(loop) = [saving |-> loop.saving, quiet |-> loop.quiet, head |-> loop.head,
                             it |-> loop.tmp, tmp |-> mem.next[loop.tmp],
                             seen |-> loop.seen, start |-> loop.start]
        BY <2>2 DEF advance, LoopIInv, Shape
      <4> QED
        BY <2>1, <4>1 DEF Shape
    <3> QED
      BY <2>1, <2>2, <3>1, <3>2, <3>3 DEF LoopIInv, IInv, OnItsList, Running, vars
  <2>3. CASE ~ loop.saving
    <3>1. mem.next[loop.it] \in Node /\ on[mem.next[loop.it]] = loop.head
      BY <2>1, <2>3, NextListed DEF LoopIInv, OnItsList
    <3>2. /\ loop'.head = loop.head /\ loop'.saving = loop.saving
          /\ loop'.it = mem.next[loop.it] /\ Shape'
      <4>1. advance(loop) = [saving |-> loop.saving, quiet |-> loop.quiet, head |-> loop.head,
                             it |-> mem.next[loop.it], tmp |-> loop.tmp,
                             seen |-> loop.seen, start |-> loop.start]
        BY <2>3 DEF advance, LoopIInv, Shape
      <4> QED
        BY <2>1, <4>1 DEF Shape
    <3> QED
      BY <2>1, <2>3, <3>1, <3>2 DEF LoopIInv, IInv, OnItsList, Running, vars
  <2> QED
    BY <2>2, <2>3
<1>3. CASE End
  BY <1>3 DEF End, NoLoop, LoopIInv, IInv, OnItsList, Running, vars, Shape
<1>4. CASE Body
  <2>1. IInv'
    BY <1>4, NextIInv DEF Body, LoopIInv
  <2>2. IF loop.saving THEN on'[loop.tmp] = loop.head ELSE on'[loop.it] = loop.head
    BY <1>4 DEF Body
  <2> QED
    BY <1>4, <2>1, <2>2 DEF Body, LoopIInv, OnItsList, Running, Shape
<1>5. CASE Outside
  <2>1. IInv'
    BY <1>5, NextIInv DEF Outside, LoopIInv
  <2> QED
    BY <1>5, <2>1 DEF Outside, LoopIInv, OnItsList, Running, Shape
<1>6. CASE UNCHANGED loopVars
  BY <1>6 DEF loopVars, vars, LoopIInv, IInv, OnItsList, Running, Shape
<1> QED
  BY <1>1, <1>2, <1>3, <1>4, <1>5, <1>6 DEF LoopNext

(* No loop, saving or not, ever stands on an entry that is gone, as long   *)
(* as its body spares the one node that the macro goes on from.            *)
THEOREM LoopsStayOnTheirList ==
  ASSUME MoveLast = FALSE
  PROVE  LoopSpec => []OnItsList
<1>1. LoopInit => LoopIInv
  BY LoopInitIInv
<1>2. LoopIInv /\ [LoopNext]_loopVars => LoopIInv'
  BY LoopNextIInv
<1>3. LoopIInv => OnItsList
  BY DEF LoopIInv
<1> QED
  BY <1>1, <1>2, <1>3, PTL DEF LoopSpec

-----------------------------------------------------------------------------
(* What a quiet body leaves alone: the next pointer of an entry of the     *)
(* loop's list, unless it leads to the entry that the body takes away.     *)
Bystander(g, it, x) ==
  /\ x \in Entries /\ x # it /\ on[x] = g /\ mem.next[x] # it

(* list_del() leaves the next pointer of a node that does not lead to the  *)
(* entry.                                                                  *)
LEMMA DelLeaves ==
  ASSUME NEW m, NEW o, Sound(m, o), NEW e \in Entries, o[e] # NoList,
         NEW x \in Node, x # e, m.next[x] # e
  PROVE  list_del(m, e).next[x] = m.next[x]
<1>1. AfterDel(m, list_del(m, e), e)
  BY DelSound
<1>2. m.next[m.prev[e]] = e
  BY DEF Sound, WellLinkedIn, Node
<1> QED
  BY <1>1, <1>2 DEF AfterDel

(* So does list_move(), except for root.                                   *)
LEMMA MoveLeaves ==
  ASSUME NEW m, NEW o, Sound(m, o), NEW e \in Entries, o[e] # NoList,
         NEW root \in Node, o[root] \in Heads, e # root,
         NEW x \in Node, x # e, x # root, m.next[x] # e
  PROVE  list_move(m, e, root).next[x] = m.next[x]
<1> DEFINE mm == list_del(m, e)
           oo == [o EXCEPT ![e] = NoList]
<1>1. Sound(mm, oo)
  BY DelSound
<1>2. mm.next[x] = m.next[x]
  BY DelLeaves
<1>3. oo[e] = NoList /\ oo[root] = o[root]
  BY DEF Sound, Ownership, Node
<1>4. list_move(m, e, root) = list_add(mm, e, root)
  BY MoveIs
<1> HIDE DEF mm, oo
<1>5. AfterAdd(mm, list_add(mm, e, root), e, root)
  BY <1>1, <1>3, AddSound
<1> QED
  BY <1>2, <1>4, <1>5 DEF AfterAdd

TakesAway(g, it) ==
  /\ it \in Entries /\ g \in Heads /\ on[it] = g /\ on'[it] # g
  /\ Next /\ on' = [on EXCEPT ![it] = on'[it]]

(* A body that takes "it" away changes nothing for a bystander.            *)
LEMMA QuietLeaves ==
  ASSUME MoveLast = FALSE, IInv, NEW it, NEW g, TakesAway(g, it), NEW x, Bystander(g, it, x)
  PROVE  mem'.next[x] = mem.next[x] /\ on'[x] = g
<1>0. /\ it \in Entries /\ g \in Heads /\ on[it] = g /\ on'[it] # g
      /\ Next /\ on' = [on EXCEPT ![it] = on'[it]]
  BY DEF TakesAway
<1>1. /\ x \in Entries /\ x \in Node /\ x # it /\ on[x] = g /\ mem.next[x] # it /\ g \notin Entries
      /\ Sound(mem, on) /\ on \in Ownership /\ on \in [Node -> Node \cup {NoList}] /\ it \in Node /\ it \notin Heads
  BY <1>0, NodeAssumption DEF Bystander, IInv, Sound, Ownership, Node
<1>2. \A n \in Node : n # it => on'[n] = on[n]
  BY <1>0, <1>1
<1>3. ASSUME NEW e \in Node, NEW list, PutOn(e, list)
      PROVE  e = it /\ list # g
  <2>1. \A n \in Node : on'[n] = IF n = e THEN list ELSE on[n]
    BY <1>1, <1>3 DEF PutOn
  <2> QED
    BY <1>0, <1>1, <2>1
<1>4. on[it] \notin {NoList, it}
  BY <1>0, <1>1, NodeAssumption DEF Node
<1>5. ASSUME NEW n \in Node, ListInit(n)
      PROVE  FALSE
  BY <1>1, <1>3, <1>4, <1>5 DEF ListInit, Addable
<1>6. ASSUME NEW e \in Entries, ListDel(e)
      PROVE  mem'.next[x] = mem.next[x]
  <2>1. e = it /\ mem' = list_del(mem, e)
    BY <1>3, <1>6 DEF ListDel, Node
  <2> QED
    BY <1>0, <1>1, <1>4, <2>1, DelLeaves
<1>7. ASSUME NEW e \in Entries, ListDelInit(e)
      PROVE  mem'.next[x] = mem.next[x]
  <2>1. e = it /\ mem' = list_del_init(mem, e)
    BY <1>3, <1>7 DEF ListDelInit, Node
  <2>2. list_del(mem, e).next[x] = mem.next[x]
    BY <1>0, <1>1, <1>4, <2>1, DelLeaves
  <2>3. Sound(list_del(mem, e), [on EXCEPT ![e] = NoList])
    BY <1>0, <1>1, <1>4, <2>1, DelSound
  <2>4. mem' = list_init(list_del(mem, e), e)
    BY <2>1, <2>3 DEF list_del_init, Sound
  <2>5. mem'.next[x] = list_del(mem, e).next[x]
    <3> DEFINE mm == list_del(mem, e)
    <3>1. mm \in Memory
      BY <2>3 DEF Sound
    <3> HIDE DEF mm
    <3>2. list_init(mm, e).next[x] = mm.next[x]
      BY <1>1, <2>1, <3>1 DEF list_init, Memory
    <3> QED
      BY <2>4, <3>2 DEF mm
  <2> QED
    BY <2>2, <2>5
<1>8. ASSUME NEW e \in Entries, NEW root \in Node, ListAdd(e, root) \/ ListAddTail(e, root)
      PROVE  FALSE
  <2>1. PutOn(e, on[root]) /\ Addable(e) /\ e \in Node
    BY <1>8 DEF ListAdd, ListAddTail, Node
  <2> QED
    BY <1>3, <1>4, <2>1 DEF Addable
<1>9. ASSUME NEW e \in Entries, NEW root \in Node, ListMove(e, root)
      PROVE  mem'.next[x] = mem.next[x]
  <2>1. /\ e = it /\ on[root] # g /\ mem' = list_move(mem, e, root)
        /\ on[root] \in Heads /\ e # root
    BY <1>3, <1>9 DEF ListMove, Node, Listed
  <2> QED
    BY <1>0, <1>1, <1>4, <2>1, MoveLeaves
<1>10. ASSUME NEW e \in Entries, NEW root \in Node, ListMoveTail(e, root)
       PROVE  mem'.next[x] = mem.next[x]
  <2>1. /\ e = it /\ on[root] # g /\ mem' = list_move(mem, e, mem.prev[root])
        /\ on[root] \in Heads /\ mem.prev[root] # e
    BY <1>3, <1>10 DEF ListMoveTail, Node, Listed, list_move_tail
  <2>2. mem.prev[root] \in Node /\ on[mem.prev[root]] = on[root]
    BY <1>1, <2>1, PrevListed
  <2> QED
    BY <1>0, <1>1, <1>4, <2>1, <2>2, MoveLeaves
<1>11. ASSUME NEW list \in Heads, NEW root \in Node, ListSplice(list, root) \/ ListSpliceTail(list, root)
       PROVE  FALSE
  <2>1. /\ on' = [n \in Node |-> IF on[n] = list /\ n # list THEN on[root] ELSE on[n]]
        /\ on[root] # list
    BY <1>11 DEF ListSplice, ListSpliceTail, SplicedTo
  <2>2. list = g
    BY <1>0, <1>1, <2>1
  <2> QED
    BY <1>0, <1>1, <1>2, <2>1, <2>2
<1>12. mem'.next[x] = mem.next[x]
  BY <1>0, <1>5, <1>6, <1>7, <1>8, <1>9, <1>10, <1>11 DEF Next
<1> QED
  BY <1>1, <1>2, <1>12

-----------------------------------------------------------------------------
(* The course of a quiet loop.  It has visited the first k entries of what *)
(* the list was at its start; it stands on the next one, a saving loop on  *)
(* the one after it as well, and behind that the list is as it was.        *)
Seen(t, s, k) == t \in Seq(Entries) /\ Len(t) = k /\ \A i \in 1 .. k : t[i] = s[i]

Left(m, o, s, h, from) ==
  \A i \in 1 .. Len(s) : i >= from => o[s[i]] = h /\ m.next[s[i]] = At(s, h, i + 1)

Course(l, m, o, k) ==
  /\ l.start \in Seq(Entries) /\ Different(l.start) /\ k \in Places(l.start)
  /\ Seen(l.seen, l.start, k)
  /\ l.it = At(l.start, l.head, k + 1)
  /\ l.saving /\ k < Len(l.start) => l.tmp = At(l.start, l.head, k + 2)
  /\ Left(m, o, l.start, l.head, IF l.saving THEN k + 2 ELSE k + 1)

OnCourse == Running /\ loop.quiet => \E k : Course(loop, mem, on, k)

(* What it means for the entries visited.                                  *)
LEMMA CourseVisits ==
  ASSUME NEW l, NEW m, NEW o, NEW k, Course(l, m, o, k)
  PROVE  /\ IsPrefix(l.seen, l.start)
         /\ l.it = IF l.seen = l.start THEN l.head ELSE l.start[Len(l.seen) + 1]
<1> DEFINE s == l.start
           t == l.seen
<1>1. /\ s \in Seq(Entries) /\ k \in 0 .. Len(s) /\ Len(s) \in Nat
      /\ t \in Seq(Entries) /\ Len(t) = k /\ \A i \in 1 .. k : t[i] = s[i]
      /\ l.it = At(s, l.head, k + 1)
  BY DEF Course, Seen, Places
<1> HIDE DEF s, t
<1>2. SubSeq(t, 1, Len(t)) = SubSeq(s, 1, Len(t))
  BY <1>1
<1>3. IsPrefix(t, s)
  BY <1>1, <1>2 DEF IsPrefix
<1>4. t = s <=> k = Len(s)
  BY <1>1
<1>5. l.it = IF t = s THEN l.head ELSE s[Len(t) + 1]
  BY <1>1, <1>4 DEF At
<1> QED
  BY <1>3, <1>5 DEF s, t

(* A loop begins on course.                                                *)
LEMMA BeginCourse ==
  ASSUME NEW m, NEW o, Sound(m, o), NEW h \in Heads, Ring(m, o, h, list_foreach(m, h)), NEW l,
         l.head = h, l.it = m.next[h], l.saving => l.tmp = m.next[m.next[h]],
         l.seen = <<>>, l.start = list_foreach(m, h)
  PROVE  Course(l, m, o, 0)
<1> DEFINE s == list_foreach(m, h)
<1>1. Ring(m, o, h, s) /\ l.start = s
  OBVIOUS
<1> HIDE DEF s
<1>2. s \in Seq(Entries) /\ Different(s) /\ \A k \in 0 .. Len(s) : m.next[At(s, h, k)] = At(s, h, k + 1)
  BY <1>1 DEF Ring, Follows
<1>3. /\ At(s, h, 0) = h /\ Len(s) \in Nat
      /\ \A k \in 1 .. Len(s) : s[k] \in Entries /\ At(s, h, k) = s[k]
  BY <1>2, AtFacts
<1>4. l.it = At(s, h, 1)
  BY <1>2, <1>3
<1>5. l.saving /\ 0 < Len(s) => l.tmp = At(s, h, 2)
  BY <1>2, <1>3, <1>4
<1>6. \A e \in Entries : o[e] = h <=> \E i \in 1 .. Len(s) : s[i] = e
  BY <1>1 DEF Ring, Holds
<1>7. Left(m, o, s, h, 1) /\ Left(m, o, s, h, 2)
  BY <1>2, <1>3, <1>6 DEF Left
<1>8. Seen(<<>>, s, 0) /\ 0 \in Places(s)
  BY <1>3 DEF Seen, Places
<1> QED
  BY <1>1, <1>2, <1>4, <1>5, <1>7, <1>8 DEF Course

(* It stays on course when it advances.                                    *)
LEMMA AdvanceCourse ==
  ASSUME NEW m, NEW o, NEW l, NEW k, Course(l, m, o, k), l.head \in Heads, l.it # l.head, NEW ll,
         ll.head = l.head, ll.start = l.start, ll.saving = l.saving, ll.seen = Append(l.seen, l.it),
         IF l.saving THEN ll.it = l.tmp /\ ll.tmp = m.next[l.tmp] ELSE ll.it = m.next[l.it]
  PROVE  Course(ll, m, o, k + 1)
<1> DEFINE s == l.start
           t == l.seen
           h == l.head
           n == Len(s)
<1>1. /\ s \in Seq(Entries) /\ Different(s) /\ k \in 0 .. n /\ n \in Nat
      /\ t \in Seq(Entries) /\ Len(t) = k /\ \A i \in 1 .. k : t[i] = s[i]
      /\ l.it = At(s, h, k + 1)
      /\ l.saving /\ k < n => l.tmp = At(s, h, k + 2)
      /\ \A i \in 1 .. n : i >= (IF l.saving THEN k + 2 ELSE k + 1) => o[s[i]] = h /\ m.next[s[i]] = At(s, h, i + 1)
  BY DEF Course, Seen, Places, Left
<1>2. k < n
  BY <1>1 DEF At
<1>3. k + 1 \in 1 .. n /\ l.it = s[k + 1] /\ s[k + 1] \in Entries
  BY <1>1, <1>2 DEF At
<1>4. Seen(Append(t, l.it), s, k + 1)
  BY <1>1, <1>3 DEF Seen
<1>5. ll.it = At(s, h, (k + 1) + 1)
  <2>1. CASE l.saving
    BY <1>1, <1>2, <2>1
  <2>2. CASE ~ l.saving
    BY <1>1, <1>3, <2>2
  <2> QED
    BY <2>1, <2>2
<1>6. ASSUME l.saving, k + 1 < n
      PROVE  ll.tmp = At(s, h, (k + 1) + 2)
  <2>1. k + 2 \in 1 .. n /\ l.tmp = s[k + 2]
    BY <1>1, <1>2, <1>6 DEF At
  <2>2. m.next[s[k + 2]] = At(s, h, (k + 2) + 1)
    BY <1>1, <1>6, <2>1
  <2> QED
    BY <1>1, <1>6, <2>1, <2>2
<1>7. Left(m, o, s, h, IF l.saving THEN (k + 1) + 2 ELSE (k + 1) + 1)
  BY <1>1 DEF Left
<1>8. k + 1 \in Places(s)
  BY <1>3 DEF Places
<1> QED
  BY <1>1, <1>4, <1>5, <1>6, <1>7, <1>8 DEF Course

(* And when its body has taken the entry away.                             *)
LEMMA BodyCourse ==
  ASSUME MoveLast = FALSE, IInv, Body, loop.quiet, loop.head \in Heads, NEW k, Course(loop, mem, on, k)
  PROVE  Course(loop, mem', on', k)
<1> DEFINE s  == loop.start
           h  == loop.head
           it == loop.it
<1>1. /\ s \in Seq(Entries) /\ Different(s) /\ k \in 0 .. Len(s) /\ Len(s) \in Nat
      /\ it = At(s, h, k + 1)
      /\ Left(mem, on, s, h, IF loop.saving THEN k + 2 ELSE k + 1)
  BY DEF Course, Places
<1>2. /\ it \in Entries /\ on[it] = h /\ on'[it] # h /\ on' = [on EXCEPT ![it] = on'[it]] /\ Next
      /\ loop.saving
  BY DEF Body
<1>h. h \in Heads /\ h \notin Entries
  BY NodeAssumption
<1> HIDE DEF s, h, it
<1>3. k + 1 \in 1 .. Len(s) /\ it = s[k + 1]
  BY <1>1, <1>2, <1>h DEF At
<1>b. ASSUME NEW x, Bystander(h, it, x)
      PROVE  mem'.next[x] = mem.next[x] /\ on'[x] = h
  <2>1. TakesAway(h, it)
    BY <1>2, <1>h DEF TakesAway
  <2> QED
    BY <1>b, <2>1, QuietLeaves, ZenonT(60)
<1>4. ASSUME NEW i \in 1 .. Len(s), i >= k + 2
      PROVE  on'[s[i]] = h /\ mem'.next[s[i]] = At(s, h, i + 1)
  <2>1. s[i] \in Entries /\ s[i] # it /\ on[s[i]] = h /\ mem.next[s[i]] = At(s, h, i + 1)
    BY <1>1, <1>2, <1>3, <1>4 DEF Left, Different
  <2>2. At(s, h, i + 1) # it
    <3>1. CASE i + 1 \in 1 .. Len(s)
      <4>1. s[i + 1] # s[k + 1]
        BY <1>1, <1>3, <1>4, <3>1 DEF Different
      <4> QED
        BY <1>3, <3>1, <4>1 DEF At
    <3>2. CASE i + 1 \notin 1 .. Len(s)
      BY <1>2, <1>h, <3>2 DEF At
    <3> QED
      BY <3>1, <3>2
  <2>3. Bystander(h, it, s[i])
    BY <2>1, <2>2 DEF Bystander
  <2>4. mem'.next[s[i]] = mem.next[s[i]] /\ on'[s[i]] = h
    BY <1>b, <2>3
  <2> QED
    BY <2>1, <2>4
<1>5. Left(mem', on', s, h, k + 2)
  BY <1>4 DEF Left
<1> QED
  BY <1>2, <1>5 DEF Course, s, h

-----------------------------------------------------------------------------
(* The invariant of the loops with the order of the visits.                *)
LoopRInv == LoopIInv /\ RInv /\ OnCourse

(* At first there is no course to keep.                                    *)
LEMMA LoopInitRInv == LoopInit => LoopRInv
<1> SUFFICES ASSUME LoopInit
             PROVE  LoopRInv
  OBVIOUS
<1>1. LoopIInv /\ RInv
  BY LoopInitIInv, InitRInv DEF LoopInit
<1> QED
  BY <1>1 DEF LoopInit, NoLoop, LoopRInv, OnCourse, Running

(* Every step keeps the sequences and a running quiet loop on its course.  *)
LEMMA LoopNextRInv ==
  ASSUME MoveLast = FALSE, LoopRInv, [LoopNext]_loopVars
  PROVE  LoopRInv'
<1>0. LoopIInv' /\ LoopIInv /\ RInv /\ IInv /\ Sound(mem, on) /\ Represents(mem, on, Lists)
  BY LoopNextIInv DEF LoopRInv, RInv, IInv
<1> SUFFICES RInv' /\ OnCourse'
  BY <1>0 DEF LoopRInv
<1>v. ASSUME UNCHANGED vars
      PROVE  RInv'
  BY <1>0, <1>v DEF vars, RInv, IInv, Represents, Lists
<1>1. ASSUME NEW head \in Heads, NEW saving \in BOOLEAN, NEW quiet \in BOOLEAN,
             Begin(head, saving, quiet)
      PROVE  RInv' /\ OnCourse'
  <2>1. UNCHANGED vars /\ mem' = mem /\ on' = on
    BY <1>1 DEF Begin, vars
  <2>2. ASSUME quiet
        PROVE  Course(loop', mem, on, 0)
    <3>1. /\ loop'.head = head /\ loop'.it = mem.next[head] /\ loop'.seen = <<>>
          /\ loop'.saving => loop'.tmp = mem.next[mem.next[head]]
          /\ loop'.start = list_foreach(mem, head)
      BY <1>1, <2>2 DEF Begin
    <3>2. Ring(mem, on, head, list_foreach(mem, head))
      BY <1>0 DEF Represents, Lists
    <3> QED
      BY <1>0, <3>1, <3>2, BeginCourse
  <2>3. loop'.quiet = quiet
    BY <1>1 DEF Begin
  <2> QED
    BY <1>v, <2>1, <2>2, <2>3 DEF OnCourse
<1>2. CASE Advance
  <2>1. /\ UNCHANGED vars /\ mem' = mem /\ on' = on /\ Running /\ loop.it # loop.head
        /\ loop.head \in Heads /\ Shape
        /\ loop' = [advance(loop) EXCEPT !.seen = Visited(loop)]
    BY <1>0, <1>2 DEF Advance, vars, LoopIInv, Running
  <2>2. ASSUME loop'.quiet
        PROVE  \E k : Course(loop', mem, on, k)
    <3>1. /\ loop'.head = loop.head /\ loop'.start = loop.start /\ loop'.saving = loop.saving
          /\ loop'.seen = Visited(loop) /\ loop'.quiet = loop.quiet
          /\ IF loop.saving THEN loop'.it = loop.tmp /\ loop'.tmp = mem.next[loop.tmp]
             ELSE loop'.it = mem.next[loop.it]
      <4>1. CASE loop.saving
        <5>1. advance(loop) = [saving |-> loop.saving, quiet |-> loop.quiet, head |-> loop.head,
                               it |-> loop.tmp, tmp |-> mem.next[loop.tmp],
                               seen |-> loop.seen, start |-> loop.start]
          BY <2>1, <4>1 DEF advance, Shape
        <5> QED
          BY <2>1, <4>1, <5>1
      <4>2. CASE ~ loop.saving
        <5>1. advance(loop) = [saving |-> loop.saving, quiet |-> loop.quiet, head |-> loop.head,
                               it |-> mem.next[loop.it], tmp |-> loop.tmp,
                               seen |-> loop.seen, start |-> loop.start]
          BY <2>1, <4>2 DEF advance, Shape
        <5> QED
          BY <2>1, <4>2, <5>1
      <4> QED
        BY <4>1, <4>2
    <3>2. PICK k : Course(loop, mem, on, k)
      BY <2>1, <2>2, <3>1 DEF LoopRInv, OnCourse
    <3>3. Visited(loop) = Append(loop.seen, loop.it)
      <4>1. Len(loop.seen) <= Len(loop.start)
        BY <3>2 DEF Course, Seen, Places
      <4> QED
        BY <2>2, <3>1, <4>1 DEF Visited
    <3>4. Course(loop', mem, on, k + 1)
      BY <2>1, <3>1, <3>2, <3>3, AdvanceCourse
    <3> QED
      BY <3>4
  <2> QED
    BY <1>v, <2>1, <2>2 DEF OnCourse
<1>3. CASE End
  BY <1>3, <1>v DEF End, NoLoop, OnCourse, Running
<1>4. CASE Body
  <2>1. RInv'
    BY <1>0, <1>4, StepRefines DEF Body
  <2>2. ASSUME loop.quiet
        PROVE  \E k : Course(loop, mem', on', k)
    <3>1. Running /\ loop.head \in Heads
      BY <1>0, <1>4 DEF Body, LoopIInv, Running
    <3>2. PICK k : Course(loop, mem, on, k)
      BY <2>2, <3>1 DEF LoopRInv, OnCourse
    <3> QED
      BY <1>0, <1>4, <2>2, <3>1, <3>2, BodyCourse
  <2> QED
    BY <1>4, <2>1, <2>2 DEF Body, OnCourse
<1>5. CASE Outside
  <2>1. RInv'
    BY <1>0, <1>5, StepRefines DEF Outside
  <2> QED
    BY <1>5, <2>1 DEF Outside, OnCourse, Running
<1>6. CASE UNCHANGED loopVars
  <2>1. UNCHANGED vars /\ mem' = mem /\ on' = on /\ loop' = loop
    BY <1>6 DEF loopVars, vars
  <2> QED
    BY <1>v, <2>1 DEF LoopRInv, OnCourse, Running
<1> QED
  BY <1>1, <1>2, <1>3, <1>4, <1>5, <1>6 DEF LoopNext

(* A loop on its course has visited a prefix of its list.                  *)
LEMMA LoopRInvVisits == LoopRInv => VisitsAll
BY CourseVisits DEF LoopRInv, OnCourse, VisitsAll

(* A quiet loop visits the entries that were on its list when it began,    *)
(* every one, once and in order, whichever of them its body removes.       *)
THEOREM QuietLoopsVisitAll ==
  ASSUME MoveLast = FALSE
  PROVE  LoopSpec => []VisitsAll
<1>1. LoopInit => LoopRInv
  BY LoopInitRInv
<1>2. LoopRInv /\ [LoopNext]_loopVars => LoopRInv'
  BY LoopNextRInv
<1>3. LoopRInv => VisitsAll
  BY LoopRInvVisits
<1> QED
  BY <1>1, <1>2, <1>3, PTL DEF LoopSpec

=============================================================================
