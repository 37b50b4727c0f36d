----------------------------- MODULE ListProofs -----------------------------
(***************************************************************************)
(* Proofs about List for every set of heads and entries, in both builds.   *)
(*                                                                         *)
(* The invariant is stated for a memory and an ownership of its own,       *)
(* Sound(m, o), because list_move() and list_del_init() are compositions:  *)
(* between their two halves the memory is sound for an ownership that no   *)
(* state of the specification has.                                         *)
(*                                                                         *)
(* The second part is about what the rings hold.  Ring(m, o, h, s) says    *)
(* that next leads from the head h through the entries of s, in order, and *)
(* back, and that s has the entries on the list of h.  list_foreach() then *)
(* visits s; every call takes Ring to Ring, for the sequences that         *)
(* ListSpec says it makes; and that is the refinement.                     *)
(***************************************************************************)
EXTENDS ListRings, TLAPS, WellFoundedInduction, FiniteSetTheorems

(* In a DEBUG_LIST build a removed entry holds the two poison values, each *)
(* in its place; in the other build there is no poison at all.             *)
Marked(m, o) ==
  IF DEBUG_LIST
  THEN \A n \in Node : o[n] = NoList =>
         m.prev[n] = LIST_POISON0 /\ m.next[n] = LIST_POISON1
  ELSE \A n \in Node : m.prev[n] \in Node /\ m.next[n] \in Node

Sound(m, o) ==
  /\ m \in Memory
  /\ m.ok
  /\ o \in Ownership
  /\ WellLinkedIn(m, o)
  /\ Marked(m, o)

(* list_validate() succeeds from every node of a ring: the nodes that are  *)
(* on some list are closed under next.                                     *)
LEMMA Validates ==
  ASSUME NEW m \in Memory, NEW o \in Ownership, WellLinkedIn(m, o),
         NEW h \in Node, o[h] # NoList
  PROVE  list_validate(m, h)
<1> DEFINE S == {x \in Node : o[x] # NoList}
<1>1. S \in SUBSET Node /\ h \in S
  OBVIOUS
<1>2. \A x \in S : m.next[x] \in S /\ m.prev[m.next[x]] = x
  BY DEF WellLinkedIn
<1> QED
  BY <1>1, <1>2 DEF list_validate

(* Besides soundness the lemmas say what an operation does to the pointers *)
(* of m, mm being the memory after it.                                     *)
AfterInit(m, mm, n) == \A x \in Node : mm.next[x] = IF x = n THEN n ELSE m.next[x]

AfterDel(m, mm, r) ==
  \A x \in Node \ {r} :
    /\ mm.next[x] = IF x = m.prev[r] THEN m.next[r] ELSE m.next[x]
    /\ mm.prev[x] = IF x = m.next[r] THEN m.prev[r] ELSE m.prev[x]

AfterAdd(m, mm, e, root) ==
  \A x \in Node :
    mm.next[x] = IF x = root THEN e ELSE IF x = e THEN m.next[root] ELSE m.next[x]

AfterSplice(m, mm, list, root) ==
  \A x \in Node :
    mm.next[x] = IF m.next[list] = list THEN m.next[x]
                 ELSE IF x = list THEN list
                 ELSE IF x = root THEN m.next[list]
                 ELSE IF x = m.prev[list] THEN m.next[root] ELSE m.next[x]

(* list_init() of something alone keeps memory sound and puts it on its    *)
(* own list.                                                               *)
LEMMA InitSound ==
  ASSUME NEW m, NEW o, Sound(m, o), NEW n \in Node,
         o[n] \in {NoList, n}, \A e \in Entries : e # n => o[e] # n
  PROVE  /\ Sound(list_init(m, n), [o EXCEPT ![n] = n])
         /\ AfterInit(m, list_init(m, n), n)
<1> DEFINE mm == list_init(m, n)
           oo == [o EXCEPT ![n] = n]
<1>1. mm \in Memory /\ mm.ok
  BY DEF list_init, Memory, Sound
<1>2. oo \in Ownership
  BY DEF Ownership, Sound, Node
<1>3. \A x \in Node : /\ mm.next[x] = IF x = n THEN n ELSE m.next[x]
                      /\ mm.prev[x] = IF x = n THEN n ELSE m.prev[x]
                      /\ oo[x] = IF x = n THEN n ELSE o[x]
  BY DEF list_init, Memory, Sound, Ownership
<1>4. WellLinkedIn(mm, oo)
  <2> SUFFICES ASSUME NEW x \in Node, oo[x] # NoList
               PROVE  /\ mm.next[x] \in Node /\ oo[mm.next[x]] = oo[x] /\ mm.prev[mm.next[x]] = x
                      /\ mm.prev[x] \in Node /\ oo[mm.prev[x]] = oo[x] /\ mm.next[mm.prev[x]] = x
    BY DEF WellLinkedIn
  <2>1. CASE x = n
    BY <2>1, <1>3
  <2>2. CASE x # n
    <3>1. o[x] # NoList /\ o[x] # n
      BY <2>2, <1>3, NodeAssumption DEF Sound, Ownership, Node
    <3>2. m.next[x] \in Node /\ o[m.next[x]] = o[x] /\ m.prev[m.next[x]] = x
          /\ m.prev[x] \in Node /\ o[m.prev[x]] = o[x] /\ m.next[m.prev[x]] = x
      BY <3>1 DEF Sound, WellLinkedIn
    <3>3. m.next[x] # n /\ m.prev[x] # n
      BY <3>1, <3>2
    <3> QED
      BY <2>2, <3>2, <3>3, <1>3
  <2> QED
    BY <2>1, <2>2
<1>5. Marked(mm, oo)
  BY <1>3, NodeAssumption DEF Marked, Sound
<1> QED
  BY <1>1, <1>2, <1>3, <1>4, <1>5 DEF Sound, AfterInit

(* An entry that is on its own list points at itself; nothing else has it  *)
(* as its list.                                                            *)
LEMMA AloneIsSelf ==
  ASSUME NEW m, NEW o, Sound(m, o), NEW e \in Entries, o[e] = e
  PROVE  m.next[e] = e /\ m.prev[e] = e
BY NodeAssumption DEF Sound, WellLinkedIn, Ownership, Node

(* list_del() keeps memory sound and leaves the entry on no list.          *)
LEMMA DelSound ==
  ASSUME NEW m, NEW o, Sound(m, o), NEW r \in Entries, o[r] # NoList
  PROVE  /\ Sound(list_del(m, r), [o EXCEPT ![r] = NoList])
         /\ AfterDel(m, list_del(m, r), r)
<1> DEFINE before == m.prev[r]
           after  == m.next[r]
           cut    == [m EXCEPT !.next[before] = after, !.prev[after] = before]
           mm     == list_del(m, r)
           oo     == [o EXCEPT ![r] = NoList]
<1>1. /\ r \in Node /\ before \in Node /\ after \in Node
      /\ o[before] = o[r] /\ o[after] = o[r]
      /\ m.next[before] = r /\ m.prev[after] = r
  BY DEF Sound, WellLinkedIn, Node
<1>2. cut \in Memory /\ cut.ok
  BY <1>1 DEF Memory, Sound
<1>3. \A x \in Node : /\ cut.next[x] = IF x = before THEN after ELSE m.next[x]
                      /\ cut.prev[x] = IF x = after THEN before ELSE m.prev[x]
                      /\ oo[x] = IF x = r THEN NoList ELSE o[x]
  BY <1>1 DEF Memory, Sound, Ownership
<1>4. oo \in Ownership
  BY NodeAssumption DEF Ownership, Sound, Node
<1>5. WellLinkedIn(cut, oo)
  <2> SUFFICES ASSUME NEW x \in Node, oo[x] # NoList
               PROVE  /\ cut.next[x] \in Node /\ oo[cut.next[x]] = oo[x] /\ cut.prev[cut.next[x]] = x
                      /\ cut.prev[x] \in Node /\ oo[cut.prev[x]] = oo[x] /\ cut.next[cut.prev[x]] = x
    BY DEF WellLinkedIn
  <2>1. x # r /\ o[x] # NoList
    BY <1>3
  <2>2. /\ m.next[x] \in Node /\ o[m.next[x]] = o[x] /\ m.prev[m.next[x]] = x
        /\ m.prev[x] \in Node /\ o[m.prev[x]] = o[x] /\ m.next[m.prev[x]] = x
    BY <2>1 DEF Sound, WellLinkedIn
  <2>3. /\ cut.next[x] \in Node /\ oo[cut.next[x]] = oo[x] /\ cut.prev[cut.next[x]] = x
    BY <1>1, <1>3, <2>1, <2>2
  <2>4. /\ cut.prev[x] \in Node /\ oo[cut.prev[x]] = oo[x] /\ cut.next[cut.prev[x]] = x
    BY <1>1, <1>3, <2>1, <2>2
  <2> QED
    BY <2>3, <2>4
<1>6. list_validate(cut, before) /\ list_validate(cut, after)
  <2>1. CASE before = r
    <3>1. after = r
      BY <1>1, <2>1
    <3>2. WellLinkedIn(cut, o)
      <4>1. \A x \in Node : cut.next[x] = m.next[x] /\ cut.prev[x] = m.prev[x]
        BY <1>1, <1>3, <2>1, <3>1
      <4> QED
        BY <4>1, <1>1 DEF WellLinkedIn, Sound
    <3> QED
      BY <1>1, <1>2, <3>2, Validates DEF Sound
  <2>2. CASE before # r
    <3>1. after # r
      BY <1>1, <2>2
    <3>2. oo[before] # NoList /\ oo[after] # NoList
      BY <1>1, <1>3, <2>2, <3>1
    <3> QED
      BY <1>1, <1>2, <1>4, <1>5, <3>2, Validates
  <2> QED
    BY <2>1, <2>2
<1>7. mm = IF DEBUG_LIST
           THEN [cut EXCEPT !.prev[r] = LIST_POISON0, !.next[r] = LIST_POISON1]
           ELSE cut
  BY <1>2, <1>6 DEF list_del, assert
<1>8. CASE ~ DEBUG_LIST
  <2>1. mm = cut
    BY <1>7, <1>8
  <2>2. Marked(cut, oo)
    BY <1>1, <1>3, <1>8 DEF Marked, Sound
  <2> QED
    BY <1>2, <1>3, <1>4, <1>5, <2>1, <2>2 DEF Sound, AfterDel
<1>9. CASE DEBUG_LIST
  <2>0. mm = [cut EXCEPT !.prev[r] = LIST_POISON0, !.next[r] = LIST_POISON1]
    BY <1>7, <1>9
  <2> HIDE DEF cut, mm
  <2>1. mm \in Memory /\ mm.ok
    BY <1>1, <1>2, <2>0 DEF Memory, Poison
  <2>2. \A x \in Node : /\ mm.next[x] = IF x = r THEN LIST_POISON1 ELSE cut.next[x]
                        /\ mm.prev[x] = IF x = r THEN LIST_POISON0 ELSE cut.prev[x]
    BY <1>1, <1>2, <2>0 DEF Memory
  <2>3. oo[r] = NoList
    BY <1>1, <1>3
  <2>4. WellLinkedIn(mm, oo)
    <3> SUFFICES ASSUME NEW x \in Node, oo[x] # NoList
                 PROVE  /\ mm.next[x] \in Node /\ oo[mm.next[x]] = oo[x] /\ mm.prev[mm.next[x]] = x
                        /\ mm.prev[x] \in Node /\ oo[mm.prev[x]] = oo[x] /\ mm.next[mm.prev[x]] = x
      BY DEF WellLinkedIn
    <3>1. /\ cut.next[x] \in Node /\ oo[cut.next[x]] = oo[x] /\ cut.prev[cut.next[x]] = x
          /\ cut.prev[x] \in Node /\ oo[cut.prev[x]] = oo[x] /\ cut.next[cut.prev[x]] = x
      BY <1>5 DEF WellLinkedIn
    <3>2. x # r /\ cut.next[x] # r /\ cut.prev[x] # r
      BY <2>3, <3>1
    <3> QED
      BY <2>2, <3>1, <3>2
  <2>5. Marked(mm, oo)
    <3> SUFFICES ASSUME NEW x \in Node, oo[x] = NoList
                 PROVE  mm.prev[x] = LIST_POISON0 /\ mm.next[x] = LIST_POISON1
      BY <1>9 DEF Marked
    <3>1. CASE x = r
      BY <2>2, <3>1
    <3>2. CASE x # r
      <4>1. o[x] = NoList /\ x # before /\ x # after
        BY <1>1, <1>3, <3>2
      <4> QED
        BY <1>3, <1>9, <2>2, <3>2, <4>1 DEF Marked, Sound
    <3> QED
      BY <3>1, <3>2
  <2>6. Sound(mm, oo)
    BY <1>4, <2>1, <2>4, <2>5 DEF Sound
  <2>7. \A x \in Node \ {r} : mm.next[x] = cut.next[x] /\ mm.prev[x] = cut.prev[x]
    BY <2>2
  <2> QED
    BY <1>3, <2>6, <2>7 DEF mm, AfterDel
<1> QED
  BY <1>8, <1>9

(* list_add() after a root that is on a list: its assertions hold, and the *)
(* entry is then on the list of the root.                                  *)
LEMMA AddSound ==
  ASSUME NEW m, NEW o, Sound(m, o), NEW e \in Entries, o[e] \in {NoList, e},
         NEW root \in Node, o[root] \in Heads
  PROVE  /\ Sound(list_add(m, e, root), [o EXCEPT ![e] = o[root]])
         /\ AfterAdd(m, list_add(m, e, root), e, root)
<1> DEFINE tmp    == m.next[root]
           linked == [m EXCEPT !.prev[tmp] = e, !.next[e] = tmp,
                               !.prev[e] = root, !.next[root] = e]
           oo     == [o EXCEPT ![e] = o[root]]
<1>1. /\ e \in Node /\ tmp \in Node /\ o[tmp] = o[root] /\ m.prev[tmp] = root
      /\ m.prev[root] \in Node /\ o[root] # NoList /\ o[root] # e
  BY NodeAssumption DEF Sound, WellLinkedIn, Node
<1>2. root # e /\ tmp # e
  BY <1>1, NodeAssumption DEF Node
<1>3. linked \in Memory /\ linked.ok
  BY <1>1 DEF Memory, Sound
<1>4. \A x \in Node : /\ linked.next[x] = IF x = root THEN e ELSE IF x = e THEN tmp ELSE m.next[x]
                      /\ linked.prev[x] = IF x = e THEN root ELSE IF x = tmp THEN e ELSE m.prev[x]
                      /\ oo[x] = IF x = e THEN o[root] ELSE o[x]
  BY <1>1, <1>2 DEF Memory, Sound, Ownership
<1>5. oo \in Ownership
  BY NodeAssumption DEF Ownership, Sound, Node
<1>6. WellLinkedIn(linked, oo)
  <2> SUFFICES ASSUME NEW x \in Node, oo[x] # NoList
               PROVE  /\ linked.next[x] \in Node /\ oo[linked.next[x]] = oo[x]
                      /\ linked.prev[linked.next[x]] = x
                      /\ linked.prev[x] \in Node /\ oo[linked.prev[x]] = oo[x]
                      /\ linked.next[linked.prev[x]] = x
    BY DEF WellLinkedIn
  <2>1. CASE x = e
    BY <1>1, <1>2, <1>4, <2>1
  <2>2. CASE x # e
    <3>1. o[x] # NoList /\ o[x] # e
      BY <1>4, <2>2, NodeAssumption DEF Sound, Ownership, Node
    <3>2. /\ m.next[x] \in Node /\ o[m.next[x]] = o[x] /\ m.prev[m.next[x]] = x
          /\ m.prev[x] \in Node /\ o[m.prev[x]] = o[x] /\ m.next[m.prev[x]] = x
      BY <3>1 DEF Sound, WellLinkedIn
    <3>3. m.next[x] # e /\ m.prev[x] # e
      BY <3>1, <3>2
    <3>4. /\ linked.next[x] \in Node /\ oo[linked.next[x]] = oo[x]
          /\ linked.prev[linked.next[x]] = x
      BY <1>1, <1>2, <1>4, <2>2, <3>2, <3>3
    <3>5. /\ linked.prev[x] \in Node /\ oo[linked.prev[x]] = oo[x]
          /\ linked.next[linked.prev[x]] = x
      BY <1>1, <1>2, <1>4, <2>2, <3>2, <3>3
    <3> QED
      BY <3>4, <3>5
  <2> QED
    BY <2>1, <2>2
<1>7. Marked(linked, oo)
  <2>1. CASE DEBUG_LIST
    <3> SUFFICES ASSUME NEW x \in Node, oo[x] = NoList
                 PROVE  linked.prev[x] = LIST_POISON0 /\ linked.next[x] = LIST_POISON1
      BY <2>1 DEF Marked
    <3>1. x # e /\ o[x] = NoList /\ x # root /\ x # tmp
      BY <1>1, <1>4
    <3> QED
      BY <1>4, <2>1, <3>1 DEF Marked, Sound
  <2>2. CASE ~ DEBUG_LIST
    BY <1>1, <1>4, <2>2 DEF Marked, Sound
  <2> QED
    BY <2>1, <2>2
<1>8. ~ Poisoned(m, root)
  BY <1>1, NodeAssumption DEF Poisoned
<1>9. DEBUG_LIST => \/ m.prev[e] = LIST_POISON0 /\ m.next[e] = LIST_POISON1
                    \/ AloneBothWays(m, e) /\ list_empty(m, e)
  <2>1. CASE o[e] = NoList
    BY <1>1, <2>1 DEF Marked, Sound
  <2>2. CASE o[e] = e
    <3>1. m.next[e] = e /\ m.prev[e] = e
      BY <2>2, AloneIsSelf
    <3> QED
      BY <1>1, <3>1, NodeAssumption DEF AloneBothWays, Poisoned, list_empty
  <2> QED
    BY <2>1, <2>2
<1>10. list_validate(linked, root)
  <2>1. oo[root] # NoList
    BY <1>1, <1>2, <1>4
  <2> QED
    BY <1>3, <1>5, <1>6, <2>1, Validates
<1>11. list_add(m, e, root) = linked
  BY <1>3, <1>8, <1>9, <1>10 DEF list_add, assert, Sound
<1> QED
  BY <1>3, <1>4, <1>5, <1>6, <1>7, <1>11 DEF Sound, AfterAdd

(* list_splice() of a head behind something that is on another list: the   *)
(* whole ring changes owner, the head stays alone.  Nothing is needed of   *)
(* the ring but that it is linked both ways.                               *)
LEMMA SpliceSound ==
  ASSUME NEW m, NEW o, Sound(m, o), NEW list \in Heads,
         NEW root \in Node, o[root] \in Heads, o[root] # list
  PROVE  /\ Sound(list_splice(m, list, root),
                  [n \in Node |-> IF o[n] = list /\ n # list THEN o[root] ELSE o[n]])
         /\ AfterSplice(m, list_splice(m, list, root), list, root)
<1> DEFINE first  == m.next[list]
           last   == m.prev[list]
           tmp    == m.next[root]
           mm     == list_splice(m, list, root)
           oo     == [n \in Node |-> IF o[n] = list /\ n # list THEN o[root] ELSE o[n]]
<1>1. /\ list \in Node /\ o[list] = list /\ list # NoList /\ o[root] # NoList
      /\ first \in Node /\ o[first] = list /\ m.prev[first] = list
      /\ last \in Node /\ o[last] = list /\ m.next[last] = list
      /\ tmp \in Node /\ o[tmp] = o[root] /\ m.prev[tmp] = root
  BY NodeAssumption DEF Sound, WellLinkedIn, Node, Ownership
<1>2. AloneBothWays(m, list)
  BY <1>1, NodeAssumption DEF AloneBothWays, Poisoned
<1>3. oo \in Ownership
  BY NodeAssumption DEF Ownership, Sound, Node
<1>4. \A x \in Node : oo[x] = NoList <=> o[x] = NoList
  BY <1>1
<1>5. CASE first = list
  <2>1. mm = m
    BY <1>2, <1>5 DEF list_splice, assert, list_empty, Sound
  <2>2. last = list
    BY <1>1, <1>5
  <2>3. WellLinkedIn(m, oo)
    <3> SUFFICES ASSUME NEW x \in Node, oo[x] # NoList
                 PROVE  /\ m.next[x] \in Node /\ oo[m.next[x]] = oo[x] /\ m.prev[m.next[x]] = x
                        /\ m.prev[x] \in Node /\ oo[m.prev[x]] = oo[x] /\ m.next[m.prev[x]] = x
      BY DEF WellLinkedIn
    <3>1. /\ m.next[x] \in Node /\ o[m.next[x]] = o[x] /\ m.prev[m.next[x]] = x
          /\ m.prev[x] \in Node /\ o[m.prev[x]] = o[x] /\ m.next[m.prev[x]] = x
      BY <1>4 DEF Sound, WellLinkedIn
    <3>2. (m.next[x] = list <=> x = list) /\ (m.prev[x] = list <=> x = list)
      BY <1>5, <2>2, <3>1
    <3> QED
      BY <3>1, <3>2
  <2>4. Marked(m, oo)
    BY <1>4 DEF Marked, Sound
  <2> QED
    BY <1>3, <1>5, <2>1, <2>3, <2>4 DEF Sound, AfterSplice
<1>6. CASE first # list
  <2>1. last # list /\ last # root /\ first # root /\ tmp # list /\ tmp # first /\ tmp # last /\ root # list
    BY <1>1, <1>6
  <2> DEFINE joined == [m EXCEPT !.prev[first] = root, !.next[last] = tmp]
             moved  == [joined EXCEPT !.prev[tmp] = last, !.next[root] = first]
  <2>2. joined \in Memory /\ joined.ok
    BY <1>1 DEF Memory, Sound
  <2>3. \A x \in Node : /\ joined.next[x] = IF x = last THEN tmp ELSE m.next[x]
                        /\ joined.prev[x] = IF x = first THEN root ELSE m.prev[x]
    BY <1>1 DEF Memory, Sound
  <2>4. joined.next[root] = tmp
    BY <2>1, <2>3
  <2>5. mm = list_init(moved, list)
    BY <1>2, <1>6, <2>4 DEF list_splice, assert, list_empty, Sound
  <2> HIDE DEF joined
  <2>6. moved \in Memory /\ moved.ok
    BY <1>1, <2>2 DEF Memory
  <2>7. \A x \in Node : /\ moved.next[x] = IF x = root THEN first ELSE joined.next[x]
                        /\ moved.prev[x] = IF x = tmp THEN last ELSE joined.prev[x]
    BY <1>1, <2>2 DEF Memory
  <2> HIDE DEF moved, mm
  <2>8. mm \in Memory /\ mm.ok
    BY <1>1, <2>5, <2>6 DEF Memory, list_init
  <2>9. \A x \in Node :
          /\ mm.next[x] = IF x = list THEN list ELSE IF x = root THEN first
                          ELSE IF x = last THEN tmp ELSE m.next[x]
          /\ mm.prev[x] = IF x = list THEN list ELSE IF x = tmp THEN last
                          ELSE IF x = first THEN root ELSE m.prev[x]
    <3>1. \A x \in Node : /\ mm.next[x] = IF x = list THEN list ELSE moved.next[x]
                          /\ mm.prev[x] = IF x = list THEN list ELSE moved.prev[x]
      BY <1>1, <2>5, <2>6 DEF Memory, list_init
    <3> QED
      BY <2>3, <2>7, <3>1
  <2>10. WellLinkedIn(mm, oo)
    <3> SUFFICES ASSUME NEW x \in Node, oo[x] # NoList
                 PROVE  /\ mm.next[x] \in Node /\ oo[mm.next[x]] = oo[x] /\ mm.prev[mm.next[x]] = x
                        /\ mm.prev[x] \in Node /\ oo[mm.prev[x]] = oo[x] /\ mm.next[mm.prev[x]] = x
      BY DEF WellLinkedIn
    <3>1. /\ m.next[x] \in Node /\ o[m.next[x]] = o[x] /\ m.prev[m.next[x]] = x
          /\ m.prev[x] \in Node /\ o[m.prev[x]] = o[x] /\ m.next[m.prev[x]] = x
      BY <1>4 DEF Sound, WellLinkedIn
    <3>2. /\ oo[list] = list /\ oo[root] = o[root] /\ oo[tmp] = o[root]
          /\ oo[first] = o[root] /\ oo[last] = o[root]
      BY <1>1, <1>6, <2>1
    <3>3. mm.next[x] \in Node /\ oo[mm.next[x]] = oo[x] /\ mm.prev[mm.next[x]] = x
      BY <1>1, <1>6, <2>1, <2>9, <3>1, <3>2
    <3>4. mm.prev[x] \in Node /\ oo[mm.prev[x]] = oo[x] /\ mm.next[mm.prev[x]] = x
      BY <1>1, <1>6, <2>1, <2>9, <3>1, <3>2
    <3> QED
      BY <3>3, <3>4
  <2>11. Marked(mm, oo)
    <3>1. CASE DEBUG_LIST
      <4> SUFFICES ASSUME NEW x \in Node, oo[x] = NoList
                   PROVE  mm.prev[x] = LIST_POISON0 /\ mm.next[x] = LIST_POISON1
        BY <3>1 DEF Marked
      <4>1. o[x] = NoList
        BY <1>4
      <4>2. x # list /\ x # root /\ x # first /\ x # last /\ x # tmp
        BY <1>1, <4>1
      <4> QED
        BY <2>9, <3>1, <4>1, <4>2 DEF Marked, Sound
    <3>2. CASE ~ DEBUG_LIST
      BY <1>1, <2>9, <3>2 DEF Marked, Sound
    <3> QED
      BY <3>1, <3>2
  <2>12. Sound(mm, oo)
    BY <1>3, <2>8, <2>10, <2>11 DEF Sound
  <2> QED
    BY <1>6, <2>9, <2>12 DEF mm, AfterSplice
<1> QED
  BY <1>5, <1>6

-----------------------------------------------------------------------------
(* The compositions.                                                       *)

(* What is before a root on a list is on the same list.                    *)
LEMMA PrevListed ==
  ASSUME NEW m, NEW o, Sound(m, o), NEW root \in Node, o[root] \in Heads
  PROVE  /\ m.prev[root] \in Node /\ o[m.prev[root]] = o[root]
         /\ ~ Poisoned(m, root) /\ o[root] # NoList
BY NodeAssumption DEF Sound, WellLinkedIn, Poisoned, Node

(* list_add_tail() is list_add() behind the last node, its assertions      *)
(* included.                                                               *)
LEMMA AddTailSound ==
  ASSUME NEW m, NEW o, Sound(m, o), NEW e \in Entries, o[e] \in {NoList, e},
         NEW root \in Node, o[root] \in Heads
  PROVE  /\ Sound(list_add_tail(m, e, root), [o EXCEPT ![e] = o[root]])
         /\ list_add_tail(m, e, root) = list_add(m, e, m.prev[root])
<1> DEFINE added == list_add(m, e, m.prev[root])
           oo    == [o EXCEPT ![e] = o[root]]
<1>1. /\ m.prev[root] \in Node /\ o[m.prev[root]] = o[root]
      /\ ~ Poisoned(m, root) /\ o[root] # NoList
  BY PrevListed
<1>2. Sound(added, oo)
  BY <1>1, AddSound
<1>3. e # root
  BY <1>1, NodeAssumption DEF Node
<1>4. oo[root] # NoList
  BY <1>1, <1>3 DEF Sound, Ownership
<1>5. list_validate(added, root)
  BY <1>2, <1>4, Validates DEF Sound
<1> HIDE DEF added
<1>6. list_add_tail(m, e, root) = added
  BY <1>1, <1>2, <1>5 DEF list_add_tail, assert, Sound, added
<1> QED
  BY <1>2, <1>6 DEF added

(* list_del_init() leaves the entry alone on a list of its own.            *)
LEMMA DelInitSound ==
  ASSUME NEW m, NEW o, Sound(m, o), NEW e \in Entries, o[e] # NoList
  PROVE  Sound(list_del_init(m, e), [o EXCEPT ![e] = e])
<1> DEFINE deleted == list_del(m, e)
           oo      == [o EXCEPT ![e] = NoList]
<1>1. Sound(deleted, oo)
  BY DelSound
<1>2. e \in Node /\ oo[e] = NoList /\ (\A x \in Entries : x # e => oo[x] # e)
  BY NodeAssumption DEF Sound, Ownership, Node
<1>3. Sound(list_init(deleted, e), [oo EXCEPT ![e] = e])
  BY <1>1, <1>2, InitSound
<1>4. [oo EXCEPT ![e] = e] = [o EXCEPT ![e] = e]
  BY DEF Sound, Ownership
<1> QED
  BY <1>1, <1>3, <1>4 DEF list_del_init, Sound

(* list_move() is list_del() and list_add(); both find their assertions    *)
(* true.                                                                   *)
LEMMA MoveSound ==
  ASSUME NEW m, NEW o, Sound(m, o), NEW e \in Entries, o[e] # NoList,
         NEW root \in Node, o[root] \in Heads, e # root
  PROVE  Sound(list_move(m, e, root), [o EXCEPT ![e] = o[root]])
<1> DEFINE deleted == list_del(m, e)
           oo      == [o EXCEPT ![e] = NoList]
<1>1. Sound(deleted, oo)
  BY DelSound
<1>2. oo[e] = NoList /\ oo[root] = o[root]
  BY DEF Sound, Ownership, Node
<1>3. Sound(list_add(deleted, e, root), [oo EXCEPT ![e] = oo[root]])
  BY <1>1, <1>2, AddSound
<1>4. [oo EXCEPT ![e] = oo[root]] = [o EXCEPT ![e] = o[root]]
  BY <1>2 DEF Sound, Ownership
<1> QED
  BY <1>1, <1>3, <1>4 DEF list_move, Sound

-----------------------------------------------------------------------------
(* The invariant of the specification, and what it implies.                *)

IInv == Sound(mem, on)

(* At the start everything is alone.                                       *)
LEMMA InitIInv == Init => IInv
<1> SUFFICES ASSUME Init
             PROVE  Sound(mem, on)
  BY DEF IInv
<1>1. mem \in Memory /\ mem.ok
  BY DEF Init, Memory
<1>2. on \in Ownership
  BY DEF Init, Ownership, Node
<1>3. \A n \in Node : mem.next[n] = n /\ mem.prev[n] = n /\ on[n] = n
  BY DEF Init
<1>4. WellLinkedIn(mem, on)
  BY <1>3 DEF WellLinkedIn
<1>5. Marked(mem, on)
  BY <1>3, NodeAssumption DEF Marked
<1> QED
  BY <1>1, <1>2, <1>4, <1>5 DEF Sound

(* Every call keeps memory sound.                                          *)
LEMMA NextIInv ==
  ASSUME MoveLast = FALSE, IInv, [Next]_vars
  PROVE  IInv'
<1> SUFFICES Sound(mem', on')
  BY DEF IInv
<1> USE DEF IInv
<1>1. ASSUME NEW n \in Node, ListInit(n)
      PROVE  Sound(mem', on')
  <2>1. on[n] \in {NoList, n} /\ (\A e \in Entries : e # n => on[e] # n)
    BY <1>1, NodeAssumption DEF ListInit, Addable, Sound, Ownership, Node
  <2> QED
    BY <1>1, <2>1, InitSound DEF ListInit, PutOn
<1>2. ASSUME NEW e \in Entries, ListDel(e)
      PROVE  Sound(mem', on')
  BY <1>2, DelSound DEF ListDel, PutOn
<1>3. ASSUME NEW e \in Entries, ListDelInit(e)
      PROVE  Sound(mem', on')
  BY <1>3, DelInitSound DEF ListDelInit, PutOn
<1>4. ASSUME NEW e \in Entries, NEW root \in Node, ListAdd(e, root)
      PROVE  Sound(mem', on')
  BY <1>4, AddSound DEF ListAdd, PutOn, Addable, Listed
<1>5. ASSUME NEW e \in Entries, NEW root \in Node, ListAddTail(e, root)
      PROVE  Sound(mem', on')
  BY <1>5, AddTailSound DEF ListAddTail, PutOn, Addable, Listed
<1>6. ASSUME NEW e \in Entries, NEW root \in Node, ListMove(e, root)
      PROVE  Sound(mem', on')
  BY <1>6, MoveSound DEF ListMove, PutOn, Listed
<1>7. ASSUME NEW e \in Entries, NEW root \in Node, ListMoveTail(e, root)
      PROVE  Sound(mem', on')
  <2>1. /\ mem.prev[root] \in Node /\ on[mem.prev[root]] = on[root]
        /\ e # mem.prev[root] /\ on[root] \in Heads /\ on[e] # NoList
    BY <1>7, PrevListed DEF ListMoveTail, Listed
  <2>2. Sound(list_move(mem, e, mem.prev[root]), [on EXCEPT ![e] = on[root]])
    BY <2>1, MoveSound
  <2> QED
    BY <1>7, <2>2 DEF ListMoveTail, list_move_tail, PutOn
<1>8. ASSUME NEW list \in Heads, NEW root \in Node, ListSplice(list, root)
      PROVE  Sound(mem', on')
  BY <1>8, SpliceSound DEF ListSplice, SplicedTo, Listed
<1>9. ASSUME NEW list \in Heads, NEW root \in Node, ListSpliceTail(list, root)
      PROVE  Sound(mem', on')
  <2>1. /\ mem.prev[root] \in Node /\ on[mem.prev[root]] = on[root]
        /\ on[root] \in Heads /\ on[root] # list
    BY <1>9, PrevListed DEF ListSpliceTail, Listed
  <2>2. Sound(list_splice(mem, list, mem.prev[root]),
              [n \in Node |-> IF on[n] = list /\ n # list THEN on[root] ELSE on[n]])
    BY <2>1, SpliceSound
  <2> QED
    BY <1>9, <2>2 DEF ListSpliceTail, list_splice_tail, SplicedTo
<1>10. CASE UNCHANGED vars
  BY <1>10 DEF vars
<1> QED
  BY <1>1, <1>2, <1>3, <1>4, <1>5, <1>6, <1>7, <1>8, <1>9, <1>10 DEF Next

(* What the runs check follows from soundness.                             *)
LEMMA IInvImplies == IInv => TypeOK /\ WellLinked /\ NoAssertionFails
<1> SUFFICES ASSUME IInv
             PROVE  TypeOK /\ WellLinked /\ NoAssertionFails
  OBVIOUS
<1>1. \A n \in Node : Poisoned(mem, n) => DEBUG_LIST /\ on[n] = NoList
  BY NodeAssumption DEF IInv, Sound, WellLinkedIn, Marked, Poisoned
<1> QED
  BY <1>1 DEF IInv, Sound, TypeOK, WellLinked, NoAssertionFails

(* As long as list_move_tail() is not called for the entry that is last    *)
(* already, every state of every instance satisfies IInv.                  *)
LEMMA Invariance ==
  ASSUME MoveLast = FALSE
  PROVE  Spec => []IInv
<1>1. Init => IInv
  BY InitIInv
<1>2. IInv /\ [Next]_vars => IInv'
  BY NextIInv
<1> QED
  BY <1>1, <1>2, PTL DEF Spec

(* Pointers keep their types, and poison stays where list_del() put it.    *)
THEOREM TypeCorrect ==
  ASSUME MoveLast = FALSE
  PROVE  Spec => []TypeOK
BY Invariance, IInvImplies, PTL

(* Every ring is linked both ways after any number of calls: no listed     *)
(* node points at an entry that was removed.                               *)
THEOREM RingsStayLinked ==
  ASSUME MoveLast = FALSE
  PROVE  Spec => []WellLinked
BY Invariance, IInvImplies, PTL

(* No assertion of a DEBUG_LIST build is ever tripped.                     *)
THEOREM AssertionsHold ==
  ASSUME MoveLast = FALSE
  PROVE  Spec => []NoAssertionFails
BY Invariance, IInvImplies, PTL

-----------------------------------------------------------------------------
(* The walk of list_foreach().                                             *)

(* Induction over the natural numbers, for a set instead of a predicate.   *)
LEMMA Least ==
  ASSUME NEW T \in SUBSET Nat, T # {}
  PROVE  \E x \in T : \A y \in T : x <= y
<1> DEFINE R == OpToRel(<, Nat)
<1>1. IsWellFoundedOn(R, Nat)
  BY NatLessThanWellFounded
<1>2. \A x, y \in Nat : <<x, y>> \in R <=> x < y
  BY DEF OpToRel
<1> HIDE DEF R
<1>3. PICK x \in T : \A y \in T : ~ (<<y, x>> \in R)
  BY <1>1, WFMin
<1>4. \A y \in T : ~ (y < x)
  BY <1>2, <1>3
<1> QED
  BY <1>4

(* A set with 0 and with every successor has all natural numbers.          *)
LEMMA Induction ==
  ASSUME NEW T, 0 \in T, \A n \in Nat : n \in T => n + 1 \in T
  PROVE  Nat \subseteq T
<1> SUFFICES ASSUME Nat \ T # {}
             PROVE  FALSE
  OBVIOUS
<1>1. PICK x \in Nat \ T : \A y \in Nat \ T : x <= y
  BY Least
<1>2. x - 1 \in Nat /\ x - 1 \in T
  BY <1>1
<1> QED
  BY <1>1, <1>2

(* The recursion of list_foreach() has a solution: the walk f of n steps.  *)
Walk(f, n, m, h) ==
  /\ f = [k \in 0 .. n |-> f[k]]
  /\ \A k \in 0 .. n :
       f[k] = IF k = 0 THEN h ELSE IF f[k - 1] \in Node THEN m.next[f[k - 1]] ELSE f[k - 1]

(* There is a walk of every length.                                        *)
LEMMA WalkExists ==
  ASSUME NEW N \in Nat, NEW m, NEW h
  PROVE  \E f : Walk(f, N, m, h)
<1> DEFINE step(x) == IF x \in Node THEN m.next[x] ELSE x
           T == {n \in Nat : \E f : Walk(f, n, m, h)}
<1>1. 0 \in T
  <2>1. Walk([k \in 0 .. 0 |-> h], 0, m, h)
    BY DEF Walk
  <2> QED
    BY <2>1
<1>2. ASSUME NEW n \in Nat, n \in T
      PROVE  n + 1 \in T
  <2>1. PICK f : Walk(f, n, m, h)
    BY <1>2
  <2> DEFINE g == [k \in 0 .. n + 1 |-> IF k <= n THEN f[k] ELSE step(f[n])]
  <2>2. \A k \in 0 .. n : f[k] = IF k = 0 THEN h ELSE step(f[k - 1])
    BY <2>1 DEF Walk
  <2>3. \A k \in 0 .. n + 1 : g[k] = IF k <= n THEN f[k] ELSE step(f[n])
    OBVIOUS
  <2> HIDE DEF g, step
  <2>4. ASSUME NEW k \in 0 .. n + 1
        PROVE  g[k] = IF k = 0 THEN h ELSE step(g[k - 1])
    <3>1. CASE k <= n
      <4>1. k \in 0 .. n /\ (k # 0 => k - 1 \in 0 .. n + 1 /\ k - 1 <= n)
        BY <3>1
      <4> QED
        BY <2>2, <2>3, <3>1, <4>1
    <3>2. CASE ~ (k <= n)
      <4>1. k # 0 /\ k - 1 = n /\ n \in 0 .. n + 1 /\ n <= n
        BY <3>2
      <4> QED
        BY <2>3, <3>2, <4>1
    <3> QED
      BY <3>1, <3>2
  <2>5. g = [k \in 0 .. n + 1 |-> g[k]]
    BY DEF g
  <2>6. Walk(g, n + 1, m, h)
    BY <2>4, <2>5 DEF Walk, step
  <2> QED
    BY <2>6
<1> HIDE DEF T
<1>3. N \in T
  BY <1>1, <1>2, Induction
<1> QED
  BY <1>3 DEF T

(* What follows from the walk.  node is the function of list_foreach().    *)
LEMMA WalkIs ==
  ASSUME NEW m, NEW h
  PROVE  \E node :
    /\ \A k \in 0 .. Cardinality(Node) :
         node[k] = IF k = 0 THEN h ELSE IF node[k - 1] \in Node THEN m.next[node[k - 1]] ELSE node[k - 1]
    /\ list_foreach(m, h) =
         LET back == {k \in 1 .. Cardinality(Node) : node[k] = h}
         IN IF back = {} THEN <<NoList>> ELSE [k \in 1 .. Min(back) - 1 |-> node[k]]
<1> DEFINE node[k \in 0 .. Cardinality(Node)] ==
        IF k = 0 THEN h
        ELSE IF node[k - 1] \in Node THEN m.next[node[k - 1]] ELSE node[k - 1]
           Is(f) == f = [k \in 0 .. Cardinality(Node) |-> IF k = 0 THEN h
                             ELSE IF f[k - 1] \in Node THEN m.next[f[k - 1]] ELSE f[k - 1]]
<1>1. list_foreach(m, h) =
  LET back == {k \in 1 .. Cardinality(Node) : node[k] = h}
  IN IF back = {} THEN <<NoList>> ELSE [k \in 1 .. Min(back) - 1 |-> node[k]]
  BY DEF list_foreach
<1>2. Cardinality(Node) \in Nat
  BY FiniteAssumption, FS_CardinalityType
<1>3. node = CHOOSE f : Is(f)
  OBVIOUS
<1> HIDE DEF node
<1>4. Is(node)
  <2>1. PICK f : Walk(f, Cardinality(Node), m, h)
    BY <1>2, WalkExists
  <2>2. Is(f)
    BY <2>1 DEF Walk
  <2> HIDE DEF Is
  <2> QED
    BY <1>3, <2>2
<1>5. \A k \in 0 .. Cardinality(Node) :
         node[k] = IF k = 0 THEN h ELSE IF node[k - 1] \in Node THEN m.next[node[k - 1]] ELSE node[k - 1]
  BY <1>4
<1> QED
  BY <1>1, <1>5

(* The node at a place of the ring; the head is before and behind.         *)
At(s, h, k) == IF k \in 1 .. Len(s) THEN s[k] ELSE h

Different(s) == \A i, j \in 1 .. Len(s) : s[i] = s[j] => i = j

Follows(next, h, s) ==
  /\ s \in Seq(Entries) /\ Different(s)
  /\ \A k \in 0 .. Len(s) : next[At(s, h, k)] = At(s, h, k + 1)

(* Every node is somewhere else in the ring.                               *)
LEMMA AtFacts ==
  ASSUME NEW s \in Seq(Entries), Different(s), NEW h \in Heads
  PROVE  /\ \A k \in Nat : At(s, h, k) \in Node
         /\ \A i, j \in 0 .. Len(s) : At(s, h, i) = At(s, h, j) => i = j
         /\ \A k \in 1 .. Len(s) : s[k] # h /\ s[k] \in Entries /\ At(s, h, k) = s[k]
         /\ At(s, h, 0) = h /\ At(s, h, Len(s) + 1) = h /\ Len(s) \in Nat
<1>1. \A k \in 1 .. Len(s) : s[k] # h /\ s[k] \in Entries /\ At(s, h, k) = s[k]
  BY NodeAssumption DEF At
<1>2. \A k \in Nat : At(s, h, k) \in Node
  BY <1>1 DEF At, Node
<1>3. At(s, h, 0) = h /\ At(s, h, Len(s) + 1) = h /\ Len(s) \in Nat
  BY DEF At
<1>4. ASSUME NEW i \in 0 .. Len(s), NEW j \in 0 .. Len(s), At(s, h, i) = At(s, h, j)
      PROVE  i = j
  BY <1>1, <1>3, <1>4 DEF At, Different
<1> QED
  BY <1>1, <1>2, <1>3, <1>4

(* A ring has at most all nodes.                                           *)
LEMMA RingFits ==
  ASSUME NEW s \in Seq(Entries), Different(s), NEW h \in Heads
  PROVE  Cardinality(Node) \in Nat /\ Len(s) + 1 <= Cardinality(Node)
<1> DEFINE f == [k \in 0 .. Len(s) |-> At(s, h, k)]
<1>1. f \in [0 .. Len(s) -> Node] /\ \A i, j \in 0 .. Len(s) : f[i] = f[j] => i = j
  BY AtFacts
<1>2. f \in Injection(0 .. Len(s), Node)
  <2> HIDE DEF f
  <2> QED
    BY <1>1 DEF Injection, IsInjective
<1>3. Cardinality(0 .. Len(s)) <= Cardinality(Node)
  BY <1>2, FiniteAssumption, FS_Injection
<1>4. Cardinality(0 .. Len(s)) = Len(s) + 1
  <2> DEFINE n == Len(s)
  <2>1. n \in Nat
    BY AtFacts
  <2> HIDE DEF n
  <2>2. Cardinality(0 .. n) = n + 1
    BY <2>1, FS_Interval
  <2> QED
    BY <2>2 DEF n
<1> QED
  BY <1>3, <1>4, FiniteAssumption, FS_CardinalityType

(* list_foreach() visits the nodes of the ring, in its order.              *)
LEMMA ForeachIs ==
  ASSUME NEW m, NEW h \in Heads, NEW s, Follows(m.next, h, s)
  PROVE  list_foreach(m, h) = s
<1> DEFINE N == Cardinality(Node)
           l == Len(s)
           a(k) == At(s, h, k)
<1>1. PICK node :
    /\ \A k \in 0 .. N :
         node[k] = IF k = 0 THEN h ELSE IF node[k - 1] \in Node THEN m.next[node[k - 1]] ELSE node[k - 1]
    /\ list_foreach(m, h) =
         LET back == {k \in 1 .. N : node[k] = h}
         IN IF back = {} THEN <<NoList>> ELSE [k \in 1 .. Min(back) - 1 |-> node[k]]
  BY WalkIs, ZenonT(60)
<1>2. s \in Seq(Entries) /\ Different(s) /\ \A k \in 0 .. l : m.next[a(k)] = a(k + 1)
  BY DEF Follows
<1>3. N \in Nat /\ l + 1 <= N
  BY <1>2, RingFits
<1>4. /\ \A k \in Nat : a(k) \in Node
      /\ \A k \in 1 .. l : s[k] # h /\ a(k) = s[k]
      /\ a(0) = h /\ a(l + 1) = h /\ l \in Nat
  BY <1>2, AtFacts
<1>s. s = [k \in 1 .. l |-> s[k]]
  BY <1>2
<1> HIDE DEF N, l, a
<1> DEFINE T == {k \in Nat : k <= l + 1 => node[k] = a(k)}
<1>5. 0 \in T
  BY <1>1, <1>3, <1>4
<1>6. ASSUME NEW k \in Nat, k \in T
      PROVE  k + 1 \in T
  <2> SUFFICES ASSUME k + 1 <= l + 1
               PROVE  node[k + 1] = a(k + 1)
    OBVIOUS
  <2>1. k \in 0 .. l /\ k + 1 \in 0 .. N /\ k + 1 # 0 /\ (k + 1) - 1 = k /\ node[k] = a(k)
    BY <1>3, <1>4, <1>6
  <2>2. node[k + 1] = IF node[k] \in Node THEN m.next[node[k]] ELSE node[k]
    BY <1>1, <2>1
  <2> QED
    BY <1>2, <1>4, <2>1, <2>2
<1>7. Nat \subseteq T
  <2> HIDE DEF T
  <2> QED
    BY <1>5, <1>6, Induction
<1>8. \A k \in 1 .. l : node[k] = s[k] /\ node[k] # h
  BY <1>4, <1>7
<1>9. node[l + 1] = h
  BY <1>4, <1>7
<1> DEFINE back == {k \in 1 .. N : node[k] = h}
<1>10. l + 1 \in back /\ \A y \in back : l + 1 <= y
  BY <1>3, <1>4, <1>8, <1>9
<1>11. Min(back) = l + 1
  <2>1. \A x \in back : x \in Nat
    BY <1>3
  <2> HIDE DEF back
  <2>2. \A x \in back : (\A y \in back : x <= y) => x = l + 1
    BY <1>4, <1>10, <2>1
  <2> QED
    BY <1>10, <2>2 DEF Min
<1>12. list_foreach(m, h) = [k \in 1 .. Min(back) - 1 |-> node[k]]
  BY <1>1, <1>10
<1>13. Min(back) - 1 = l
  BY <1>4, <1>11
<1> HIDE DEF back
<1>14. list_foreach(m, h) = [k \in 1 .. l |-> node[k]]
  BY <1>12, <1>13
<1> QED
  BY <1>8, <1>14, <1>s

-----------------------------------------------------------------------------
(* What the operators of ListSpec do to one sequence.                      *)

(* The length and the elements of a concatenation.                         *)
LEMMA JoinFacts ==
  ASSUME NEW S, NEW a \in Seq(S), NEW b \in Seq(S)
  PROVE  /\ a \o b \in Seq(S) /\ Len(a \o b) = Len(a) + Len(b)
         /\ \A k \in 1 .. Len(a) + Len(b) :
              (a \o b)[k] = IF k <= Len(a) THEN a[k] ELSE b[k - Len(a)]
OBVIOUS

(* t is s without its p-th element.                                        *)
IsRemoved(t, s, p) ==
  /\ Len(t) = Len(s) - 1
  /\ \A k \in 1 .. Len(t) : t[k] = IF k < p THEN s[k] ELSE s[k + 1]

(* That is what RemoveAt() returns.                                        *)
LEMMA RemoveFacts ==
  ASSUME NEW S, NEW s \in Seq(S), NEW p \in 1 .. Len(s)
  PROVE  Abstract!RemoveAt(s, p) \in Seq(S) /\ IsRemoved(Abstract!RemoveAt(s, p), s, p)
<1> DEFINE a == SubSeq(s, 1, p - 1)
           b == SubSeq(s, p + 1, Len(s))
           t == a \o b
<1>1. a \in Seq(S) /\ Len(a) = p - 1 /\ \A k \in 1 .. p - 1 : a[k] = s[k]
  OBVIOUS
<1>2. b \in Seq(S) /\ Len(b) = Len(s) - p /\ \A k \in 1 .. Len(s) - p : b[k] = s[p + k]
  OBVIOUS
<1> HIDE DEF a, b
<1>3. /\ t \in Seq(S) /\ Len(t) = Len(a) + Len(b)
      /\ \A k \in 1 .. Len(a) + Len(b) : t[k] = IF k <= Len(a) THEN a[k] ELSE b[k - Len(a)]
  BY <1>1, <1>2, JoinFacts
<1>6. t = Abstract!RemoveAt(s, p)
  BY DEF Abstract!RemoveAt, a, b
<1> HIDE DEF t
<1>4. Len(t) = Len(s) - 1 /\ \A k \in 1 .. Len(s) - 1 : t[k] = IF k < p THEN a[k] ELSE b[k - (p - 1)]
  <2>1. Len(a) + Len(b) = Len(s) - 1 /\ Len(a) = p - 1
    BY <1>1, <1>2
  <2>2. /\ Len(t) = Len(s) - 1
        /\ \A k \in 1 .. Len(s) - 1 : t[k] = IF k <= p - 1 THEN a[k] ELSE b[k - (p - 1)]
    BY <1>3, <2>1
  <2>3. \A k \in 1 .. Len(s) - 1 : k <= p - 1 <=> k < p
    OBVIOUS
  <2> QED
    BY <2>2, <2>3
<1>5. \A k \in 1 .. Len(s) - 1 : t[k] = IF k < p THEN s[k] ELSE s[k + 1]
  <2> SUFFICES ASSUME NEW k \in 1 .. Len(s) - 1
               PROVE  t[k] = IF k < p THEN s[k] ELSE s[k + 1]
    OBVIOUS
  <2>1. CASE k < p
    BY <1>1, <1>4, <2>1
  <2>2. CASE ~ (k < p)
    <3>1. k - (p - 1) \in 1 .. Len(s) - p /\ p + (k - (p - 1)) = k + 1
      BY <2>2
    <3> QED
      BY <1>2, <1>4, <2>2, <3>1
  <2> QED
    BY <2>1, <2>2
<1> QED
  BY <1>3, <1>4, <1>5, <1>6 DEF IsRemoved

(* The places of a ring, the head's included.                              *)
Places(s) == 0 .. Len(s)

(* u is s with t behind its first "at" elements.                           *)
IsPut(u, s, at, t) ==
  /\ Len(u) = Len(s) + Len(t)
  /\ \A k \in 1 .. Len(u) :
       u[k] = IF k <= at THEN s[k] ELSE IF k <= at + Len(t) THEN t[k - at] ELSE s[k - Len(t)]

(* PutAt() puts t behind the first "at" elements of s.                     *)
LEMMA PutFacts ==
  ASSUME NEW S, NEW s \in Seq(S), NEW t \in Seq(S), NEW at \in Places(s)
  PROVE  Abstract!PutAt(s, at, t) \in Seq(S) /\ IsPut(Abstract!PutAt(s, at, t), s, at, t)
<1> DEFINE a == SubSeq(s, 1, at)
           b == SubSeq(s, at + 1, Len(s))
           c == a \o t
           u == c \o b
<1>0. at \in 0 .. Len(s)
  BY DEF Places
<1>1. a \in Seq(S) /\ Len(a) = at /\ \A k \in 1 .. at : a[k] = s[k]
  BY <1>0
<1>2. b \in Seq(S) /\ Len(b) = Len(s) - at /\ \A k \in 1 .. Len(s) - at : b[k] = s[at + k]
  BY <1>0
<1> HIDE DEF a, b
<1>3. c \in Seq(S) /\ Len(c) = at + Len(t) /\ \A k \in 1 .. at + Len(t) : c[k] = IF k <= at THEN a[k] ELSE t[k - at]
  BY <1>0, <1>1, JoinFacts
<1> HIDE DEF c
<1>7. /\ u \in Seq(S) /\ Len(u) = Len(c) + Len(b)
      /\ \A k \in 1 .. Len(c) + Len(b) : u[k] = IF k <= Len(c) THEN c[k] ELSE b[k - Len(c)]
  BY <1>2, <1>3, JoinFacts
<1> HIDE DEF u
<1>4. u \in Seq(S) /\ Len(u) = Len(s) + Len(t)
      /\ \A k \in 1 .. Len(u) : u[k] = IF k <= at + Len(t) THEN c[k] ELSE b[k - (at + Len(t))]
  BY <1>0, <1>2, <1>3, <1>7
<1>5. ASSUME NEW k \in 1 .. Len(u)
      PROVE  u[k] = IF k <= at THEN s[k] ELSE IF k <= at + Len(t) THEN t[k - at] ELSE s[k - Len(t)]
  <2>1. CASE k <= at
    BY <1>0, <1>1, <1>3, <1>4, <2>1
  <2>2. CASE ~ (k <= at) /\ k <= at + Len(t)
    BY <1>0, <1>3, <1>4, <2>2
  <2>3. CASE ~ (k <= at + Len(t))
    <3>1. k - (at + Len(t)) \in 1 .. Len(s) - at /\ at + (k - (at + Len(t))) = k - Len(t) /\ ~ (k <= at)
      BY <1>0, <1>4, <2>3
    <3> QED
      BY <1>0, <1>2, <1>4, <2>3, <3>1
  <2> QED
    BY <2>1, <2>2, <2>3
<1>6. u = Abstract!PutAt(s, at, t)
  BY DEF Abstract!PutAt, a, b, c, u
<1> QED
  BY <1>4, <1>5, <1>6 DEF IsPut

(* A ring without its node at p.                                           *)
LEMMA RemoveFollows ==
  ASSUME NEW next, NEW nn, NEW h \in Heads, NEW s, Follows(next, h, s), NEW p \in 1 .. Len(s),
         \A x \in Node \ {s[p]} :
           nn[x] = IF x = At(s, h, p - 1) THEN At(s, h, p + 1) ELSE next[x]
  PROVE  Follows(nn, h, Abstract!RemoveAt(s, p))
<1> DEFINE t == Abstract!RemoveAt(s, p)
           l == Len(s)
           a(k) == At(s, h, k)
<1>1. s \in Seq(Entries) /\ Different(s) /\ \A k \in 0 .. l : next[a(k)] = a(k + 1)
  BY DEF Follows
<1>2. /\ \A k \in Nat : a(k) \in Node
      /\ \A i, j \in 0 .. l : a(i) = a(j) => i = j
      /\ \A k \in 1 .. l : a(k) = s[k]
      /\ a(0) = h /\ a(l + 1) = h /\ l \in Nat
  BY <1>1, AtFacts
<1>3. /\ t \in Seq(Entries) /\ Len(t) = l - 1
      /\ \A k \in 1 .. Len(t) : t[k] = IF k < p THEN s[k] ELSE s[k + 1]
  <2>1. t \in Seq(Entries) /\ IsRemoved(t, s, p)
    BY <1>1, RemoveFacts
  <2> QED
    BY <2>1 DEF IsRemoved
<1> HIDE DEF t
<1>4. Different(t)
  <2>1. ASSUME NEW i \in 1 .. Len(t)
        PROVE  \/ i < p /\ i \in 1 .. l /\ t[i] = s[i]
               \/ ~ (i < p) /\ i + 1 \in 1 .. l /\ t[i] = s[i + 1]
    BY <1>3
  <2>2. \A x, y \in 1 .. l : s[x] = s[y] => x = y
    BY <1>1 DEF Different
  <2>3. ASSUME NEW i \in 1 .. Len(t), NEW j \in 1 .. Len(t), t[i] = t[j]
        PROVE  i = j
    BY <2>1, <2>2, <2>3
  <2> QED
    BY <2>3 DEF Different
<1>5. ASSUME NEW k \in 0 .. l
      PROVE  At(t, h, k) = IF k < p THEN a(k) ELSE a(k + 1)
  <2>1. CASE k = 0
    BY <1>2, <2>1 DEF At
  <2>2. CASE k \in 1 .. l - 1
    <3>1. At(t, h, k) = t[k]
      BY <1>3, <2>2 DEF At
    <3>2. k \in 1 .. l /\ k + 1 \in 1 .. l
      BY <2>2
    <3> QED
      BY <1>2, <1>3, <2>2, <3>1, <3>2
  <2>3. CASE k = l /\ k # 0
    <3>1. At(t, h, k) = h /\ ~ (k < p)
      BY <1>2, <1>3, <2>3 DEF At
    <3> QED
      BY <1>2, <2>3, <3>1
  <2> QED
    BY <1>2, <2>1, <2>2, <2>3
<1> HIDE DEF a, l
<1>6. ASSUME NEW k \in 0 .. Len(t)
      PROVE  nn[At(t, h, k)] = At(t, h, k + 1)
  <2>0. k \in 0 .. l /\ k + 1 \in 0 .. l /\ p \in 1 .. l
    BY <1>2, <1>3 DEF l
  <2>h. \A x \in Node \ {s[p]} : nn[x] = IF x = a(p - 1) THEN a(p + 1) ELSE next[x]
    BY DEF a
  <2>1. CASE k + 1 = p
    <3>1. At(t, h, k) = a(k) /\ At(t, h, k + 1) = a(p + 1) /\ k = p - 1
      BY <1>5, <2>0, <2>1
    <3>2. a(k) \in Node \ {s[p]}
      BY <1>2, <2>0, <2>1
    <3> QED
      BY <2>h, <3>1, <3>2
  <2>2. CASE k + 1 < p
    <3>1. At(t, h, k) = a(k) /\ At(t, h, k + 1) = a(k + 1)
      BY <1>5, <2>0, <2>2
    <3>2. a(k) \in Node \ {s[p]} /\ a(k) # a(p - 1)
      BY <1>2, <2>0, <2>2
    <3> QED
      BY <1>1, <2>0, <2>h, <3>1, <3>2
  <2>3. CASE p <= k
    <3>1. At(t, h, k) = a(k + 1) /\ At(t, h, k + 1) = a((k + 1) + 1)
      BY <1>5, <2>0, <2>3
    <3>2. a(k + 1) \in Node \ {s[p]} /\ a(k + 1) # a(p - 1)
      BY <1>2, <2>0, <2>3
    <3>3. next[a(k + 1)] = a((k + 1) + 1)
      BY <1>1, <2>0
    <3> QED
      BY <2>h, <3>1, <3>2, <3>3
  <2> QED
    BY <2>0, <2>1, <2>2, <2>3
<1> QED
  BY <1>3, <1>4, <1>6 DEF Follows, t

(* The nodes of a chain t that is put between two nodes of a ring.         *)
Chain(t, from, to, k) == IF k = 0 THEN from ELSE IF k \in 1 .. Len(t) THEN t[k] ELSE to

(* nn is next with the chain t behind the node of the ring at p.           *)
Apart(s, t) == \A i \in 1 .. Len(s), j \in 1 .. Len(t) : s[i] # t[j]

PutBehind(next, nn, h, s, p, t) ==
  /\ \A k \in 0 .. Len(s) : k # p => nn[At(s, h, k)] = next[At(s, h, k)]
  /\ \A k \in 0 .. Len(t) :
       nn[Chain(t, At(s, h, p), At(s, h, p + 1), k)] = Chain(t, At(s, h, p), At(s, h, p + 1), k + 1)

(* If the pointers go along the chain at p and elsewhere as before, they   *)
(* follow the longer sequence.                                             *)
LEMMA PutFollows ==
  ASSUME NEW next, NEW nn, NEW h \in Heads, NEW s, Follows(next, h, s), NEW p \in Places(s),
         NEW t \in Seq(Entries), Different(t), Apart(s, t), PutBehind(next, nn, h, s, p, t)
  PROVE  Follows(nn, h, Abstract!PutAt(s, p, t))
<1> DEFINE u == Abstract!PutAt(s, p, t)
           l == Len(s)
           n == Len(t)
           a(k) == At(s, h, k)
           c(k) == Chain(t, At(s, h, p), At(s, h, p + 1), k)
<1>1. s \in Seq(Entries) /\ Different(s) /\ \A k \in 0 .. l : next[a(k)] = a(k + 1)
  BY DEF Follows
<1>9. p \in 0 .. l
  BY DEF Places
<1>2. /\ \A k \in 1 .. l : a(k) = s[k]
      /\ a(0) = h /\ a(l + 1) = h /\ l \in Nat /\ n \in Nat
  BY <1>1, AtFacts
<1>3. /\ u \in Seq(Entries) /\ Len(u) = l + n
      /\ \A k \in 1 .. Len(u) :
           u[k] = IF k <= p THEN s[k] ELSE IF k <= p + n THEN t[k - p] ELSE s[k - n]
  <2>1. u \in Seq(Entries) /\ IsPut(u, s, p, t)
    BY <1>1, PutFacts
  <2> QED
    BY <2>1 DEF IsPut
<1> HIDE DEF u
<1>4. Different(u)
  <2>1. ASSUME NEW i \in 1 .. Len(u), NEW j \in 1 .. Len(u), u[i] = u[j]
        PROVE  i = j
    <3>0. p \in 0 .. l
      BY <1>9
    <3> HIDE DEF l, n
    <3>1. \A k \in 1 .. Len(u) :
            \/ k <= p /\ k \in 1 .. l /\ u[k] = s[k]
            \/ p < k /\ k <= p + n /\ k - p \in 1 .. n /\ u[k] = t[k - p]
            \/ p + n < k /\ k - n \in 1 .. l /\ u[k] = s[k - n]
      BY <1>2, <1>3, <3>0
    <3>2. /\ \A x, y \in 1 .. l : s[x] = s[y] => x = y
          /\ \A x, y \in 1 .. n : t[x] = t[y] => x = y
          /\ \A x \in 1 .. l, y \in 1 .. n : s[x] # t[y]
      BY <1>1 DEF Different, Apart, l, n
    <3>3. CASE i <= p
      BY <1>2, <2>1, <3>0, <3>1, <3>2, <3>3
    <3>4. CASE p < i /\ i <= p + n
      BY <1>2, <2>1, <3>0, <3>1, <3>2, <3>4
    <3>5. CASE p + n < i
      BY <1>2, <2>1, <3>0, <3>1, <3>2, <3>5
    <3> QED
      BY <1>2, <3>0, <3>3, <3>4, <3>5
  <2> QED
    BY <2>1 DEF Different
<1>5. ASSUME NEW k \in 0 .. l + n + 1
      PROVE  At(u, h, k) = IF k <= p THEN a(k) ELSE IF k <= p + n THEN t[k - p] ELSE a(k - n)
  <2>1. CASE k = 0
    BY <1>2, <1>9, <2>1 DEF At
  <2>2. CASE k \in 1 .. l + n
    <3>1. At(u, h, k) = u[k]
      BY <1>3, <2>2 DEF At
    <3>2. (k <= p => k \in 1 .. l) /\ (~ (k <= p + n) => k - n \in 1 .. l)
      BY <1>2, <1>9, <2>2
    <3> QED
      BY <1>2, <1>3, <2>2, <3>1, <3>2
  <2>3. CASE k = l + n + 1
    <3>1. At(u, h, k) = h /\ ~ (k <= p) /\ ~ (k <= p + n) /\ k - n = l + 1
      BY <1>2, <1>3, <1>9, <2>3 DEF At
    <3> QED
      BY <1>2, <3>1
  <2>4. k = 0 \/ k \in 1 .. l + n \/ k = l + n + 1
    BY <1>2
  <2> QED
    BY <2>1, <2>2, <2>3, <2>4
<1>6. \A k \in 0 .. n : nn[c(k)] = c(k + 1)
  BY DEF PutBehind
<1>7. \A k \in 0 .. l : k # p => nn[a(k)] = a(k + 1)
  BY <1>1 DEF PutBehind
<1>8. \A k \in 0 .. n + 1 : c(k) = IF k = 0 THEN a(p) ELSE IF k <= n THEN t[k] ELSE a(p + 1)
  BY DEF Chain
<1> HIDE DEF a, c, l, n
<1>10. ASSUME NEW k \in 0 .. l + n
       PROVE  nn[At(u, h, k)] = At(u, h, k + 1)
  <2>0. k \in 0 .. l + n + 1 /\ k + 1 \in 0 .. l + n + 1
    BY <1>2
  <2>1. CASE k < p
    <3>1. At(u, h, k) = a(k) /\ At(u, h, k + 1) = a(k + 1) /\ k \in 0 .. l /\ k # p
      BY <1>2, <1>5, <1>9, <2>0, <2>1
    <3> QED
      BY <1>7, <3>1
  <2>2. CASE p <= k /\ k <= p + n
    <3>1. k - p \in 0 .. n /\ (k - p) + 1 \in 0 .. n + 1
      BY <1>2, <1>9, <2>2
    <3>2. At(u, h, k) = c(k - p)
      BY <1>2, <1>5, <1>8, <1>9, <2>0, <2>2, <3>1
    <3>3. At(u, h, k + 1) = c((k - p) + 1)
      BY <1>2, <1>5, <1>8, <1>9, <2>0, <2>2, <3>1
    <3> QED
      BY <1>6, <3>1, <3>2, <3>3
  <2>3. CASE p + n < k
    <3>1. k - n \in 0 .. l /\ k - n # p /\ (k + 1) - n = (k - n) + 1
      BY <1>2, <1>9, <2>3
    <3>2. At(u, h, k) = a(k - n) /\ At(u, h, k + 1) = a((k - n) + 1)
      BY <1>2, <1>5, <1>9, <2>0, <2>3, <3>1
    <3> QED
      BY <1>7, <3>1, <3>2
  <2> QED
    BY <1>2, <1>9, <2>1, <2>2, <2>3
<1> QED
  BY <1>3, <1>4, <1>10 DEF Follows, l, n, u

-----------------------------------------------------------------------------
(* What the operations do to the rings.                                    *)

(* s has the entries that are on the list of h, and next follows it.       *)
Holds(o, h, s) == \A e \in Entries : o[e] = h <=> \E i \in 1 .. Len(s) : s[i] = e

Ring(m, o, h, s) == Follows(m.next, h, s) /\ Holds(o, h, s)

(* r has for every head the sequence of the entries on its list.           *)
Represents(m, o, r) ==
  /\ r \in [Heads -> Seq(Entries)]
  /\ \A h \in Heads : Ring(m, o, h, r[h])

(* The nodes of a ring are on its list.                                    *)
AllOn(o, h, s) == \A k \in Nat : At(s, h, k) \in Node /\ o[At(s, h, k)] = h

(* Every place of a ring is a node that is on its list.                    *)
LEMMA RingNodes ==
  ASSUME NEW m, NEW o \in Ownership, NEW h \in Heads, NEW s, Ring(m, o, h, s)
  PROVE  AllOn(o, h, s)
<1> SUFFICES ASSUME NEW k \in Nat
             PROVE  At(s, h, k) \in Node /\ o[At(s, h, k)] = h
  BY DEF AllOn
<1>1. s \in Seq(Entries) /\ Different(s)
  BY DEF Ring, Follows
<1>2. /\ At(s, h, k) \in Node
      /\ \A i \in 1 .. Len(s) : s[i] \in Entries /\ At(s, h, i) = s[i]
  BY <1>1, AtFacts
<1>3. o[h] = h
  BY DEF Ownership
<1>4. \A e \in Entries : o[e] = h <=> \E i \in 1 .. Len(s) : s[i] = e
  BY DEF Ring, Holds
<1>5. CASE k \in 1 .. Len(s)
  BY <1>2, <1>4, <1>5
<1>6. CASE k \notin 1 .. Len(s)
  BY <1>2, <1>3, <1>6 DEF At
<1> QED
  BY <1>5, <1>6

(* Every node that is on the list has a place in the ring.                 *)
LEMMA RingPlaces ==
  ASSUME NEW m, NEW o \in Ownership, NEW h \in Heads, NEW s, Ring(m, o, h, s),
         NEW n \in Node, o[n] = h
  PROVE  \E k \in Places(s) : At(s, h, k) = n
<1>1. s \in Seq(Entries) /\ Different(s)
  BY DEF Ring, Follows
<1>2. At(s, h, 0) = h /\ Len(s) \in Nat /\ \A k \in 1 .. Len(s) : At(s, h, k) = s[k]
  BY <1>1, AtFacts
<1>3. CASE n \in Heads
  <2>1. n = h /\ 0 \in Places(s)
    BY <1>2, <1>3 DEF Ownership, Places
  <2> QED
    BY <1>2, <2>1
<1>4. CASE n \in Entries
  <2>1. PICK i \in 1 .. Len(s) : s[i] = n
    BY <1>4 DEF Ring, Holds
  <2>2. i \in Places(s) /\ At(s, h, i) = n
    BY <1>2, <2>1 DEF Places
  <2> QED
    BY <2>2
<1> QED
  BY <1>3, <1>4 DEF Node

(* prev leads back.                                                        *)
LEMMA RingPrev ==
  ASSUME NEW m, NEW o, Sound(m, o), NEW h \in Heads, NEW s, Ring(m, o, h, s), NEW k \in Places(s)
  PROVE  m.prev[At(s, h, k + 1)] = At(s, h, k)
<1>1. o \in Ownership /\ WellLinkedIn(m, o)
  BY DEF Sound
<1>2. h # NoList
  BY NodeAssumption DEF Node
<1>3. \A j \in Nat : At(s, h, j) \in Node /\ o[At(s, h, j)] = h
  <2>1. AllOn(o, h, s)
    BY <1>1, RingNodes
  <2> QED
    BY <2>1 DEF AllOn
<1>4. k \in Nat /\ m.next[At(s, h, k)] = At(s, h, k + 1)
  BY DEF Ring, Follows, Places
<1> QED
  BY <1>1, <1>2, <1>3, <1>4 DEF WellLinkedIn

(* A ring that a call does not touch stays.                                *)
LEMMA RingStays ==
  ASSUME NEW m, NEW o \in Ownership, NEW h \in Heads, NEW s, Ring(m, o, h, s), NEW mm, NEW oo,
         \A x \in Node : o[x] = h => mm.next[x] = m.next[x],
         \A e \in Entries : oo[e] = h <=> o[e] = h
  PROVE  Ring(mm, oo, h, s)
<1>1. \A k \in 0 .. Len(s) : k \in Nat /\ m.next[At(s, h, k)] = At(s, h, k + 1)
  BY DEF Ring, Follows
<1>2. \A k \in Nat : At(s, h, k) \in Node /\ o[At(s, h, k)] = h
  BY RingNodes DEF AllOn
<1>3. \A k \in 0 .. Len(s) : mm.next[At(s, h, k)] = m.next[At(s, h, k)]
  BY <1>1, <1>2
<1> QED
  BY <1>1, <1>3 DEF Ring, Follows, Holds

(* Where an entry is.                                                      *)
LEMMA PlaceIs ==
  ASSUME NEW s \in Seq(Entries), Different(s), NEW p \in 1 .. Len(s)
  PROVE  Abstract!Place(s, s[p]) = p
<1>1. \A i \in 1 .. Len(s) : s[i] = s[p] => i = p
  BY DEF Different
<1> QED
  BY <1>1 DEF Abstract!Place

(* The members of a sequence are the entries that are on the list.         *)
LEMMA MembersAre ==
  ASSUME NEW m, NEW o, NEW r, Represents(m, o, r), NEW h \in Heads, NEW e \in Entries
  PROVE  e \in Abstract!ToSet(r[h]) <=> o[e] = h
<1>1. r[h] \in Seq(Entries) /\ (o[e] = h <=> \E i \in 1 .. Len(r[h]) : r[h][i] = e)
  BY DEF Represents, Ring, Holds
<1> QED
  BY <1>1 DEF Abstract!ToSet

(* ListSpec finds the list something is on.                                *)
LEMMA ListOfIs ==
  ASSUME NEW m, NEW o \in Ownership, NEW r, Represents(m, o, r), NEW n \in Node, o[n] \in Heads
  PROVE  Abstract!ListOf(r, n) = o[n]
<1>1. CASE n \in Heads
  BY <1>1 DEF Abstract!ListOf, Ownership
<1>2. CASE n \notin Heads
  <2>1. n \in Entries
    BY <1>2 DEF Node
  <2>2. \A h \in Heads : n \in Abstract!ToSet(r[h]) <=> o[n] = h
    BY <2>1, MembersAre
  <2>3. Abstract!ListOf(r, n) = CHOOSE h \in Heads : n \in Abstract!ToSet(r[h])
    BY <1>2 DEF Abstract!ListOf
  <2> QED
    BY <2>2, <2>3
<1> QED
  BY <1>1, <1>2

(* list_del() takes the entry out of its ring, if it is in one.            *)
LEMMA DelRings ==
  ASSUME NEW m, NEW o, Sound(m, o), NEW r, Represents(m, o, r), NEW e \in Entries, o[e] # NoList
  PROVE  Represents(list_del(m, e), [o EXCEPT ![e] = NoList], Abstract!Without(r, e))
<1> DEFINE mm == list_del(m, e)
           oo == [o EXCEPT ![e] = NoList]
           w  == Abstract!Without(r, e)
<1>1. /\ e \in Node /\ m.prev[e] \in Node /\ o[m.prev[e]] = o[e] /\ o \in Ownership
      /\ NoList \notin Heads /\ e \notin Heads
  BY NodeAssumption DEF Sound, WellLinkedIn, Node
<1>2. \A x \in Node \ {e} : mm.next[x] = IF x = m.prev[e] THEN m.next[e] ELSE m.next[x]
  <2>1. AfterDel(m, mm, e)
    BY DelSound
  <2> QED
    BY <2>1 DEF AfterDel
<1>3. \A x \in Node : oo[x] = IF x = e THEN NoList ELSE o[x]
  BY <1>1 DEF Ownership
<1>m. \A h \in Heads : e \in Abstract!ToSet(r[h]) <=> o[e] = h
  BY MembersAre
<1>4. r \in [Heads -> Seq(Entries)] /\ \A h \in Heads : Ring(m, o, h, r[h])
  BY DEF Represents
<1>5. \A h \in Heads : w[h] = IF o[e] = h THEN Abstract!RemoveAt(r[h], Abstract!Place(r[h], e)) ELSE r[h]
  BY <1>m DEF Abstract!Without
<1>6. w = [h \in Heads |-> w[h]]
  BY DEF Abstract!Without
<1> HIDE DEF mm, oo, w
<1>7. ASSUME NEW h \in Heads, o[e] # h
      PROVE  Ring(mm, oo, h, w[h])
  <2>1. \A x \in Node : o[x] = h => mm.next[x] = m.next[x]
    BY <1>1, <1>2, <1>7
  <2>2. \A x \in Entries : oo[x] = h <=> o[x] = h
    BY <1>1, <1>3, <1>7 DEF Node
  <2>3. Ring(m, o, h, r[h]) /\ w[h] = r[h]
    BY <1>4, <1>5, <1>7
  <2> QED
    BY <1>1, <2>1, <2>2, <2>3, RingStays
<1>8. ASSUME NEW h \in Heads, o[e] = h
      PROVE  Ring(mm, oo, h, w[h])
  <2> DEFINE s == r[h]
             t == w[h]
  <2>1. Ring(m, o, h, s) /\ Follows(m.next, h, s) /\ s \in Seq(Entries) /\ Different(s)
        /\ \A x \in Entries : o[x] = h <=> \E i \in 1 .. Len(s) : s[i] = x
    BY <1>4 DEF Ring, Follows, Holds
  <2>2. PICK p \in 1 .. Len(s) : s[p] = e
    BY <1>8, <2>1
  <2> HIDE DEF s
  <2>3. t = Abstract!RemoveAt(s, p)
    BY <1>5, <1>8, <2>1, <2>2, PlaceIs DEF s
  <2>4. p - 1 \in 0 .. Len(s) /\ p \in 0 .. Len(s) /\ (p - 1) + 1 = p /\ At(s, h, p) = e
    BY <2>1, <2>2, AtFacts
  <2>5. m.prev[e] = At(s, h, p - 1)
    <3>1. p - 1 \in Places(s)
      BY <2>4 DEF Places
    <3> QED
      BY <2>1, <2>4, <3>1, RingPrev
  <2>6. m.next[e] = At(s, h, p + 1)
    BY <2>1, <2>4 DEF Follows
  <2>7. \A x \in Node \ {s[p]} : mm.next[x] = IF x = At(s, h, p - 1) THEN At(s, h, p + 1) ELSE m.next[x]
    BY <1>2, <2>2, <2>5, <2>6
  <2>8. Follows(mm.next, h, t)
    <3>1. Follows(mm.next, h, Abstract!RemoveAt(s, p))
      BY <2>1, <2>7, RemoveFollows, ZenonT(60)
    <3> QED
      BY <2>3, <3>1
  <2>9. Len(t) = Len(s) - 1 /\ \A k \in 1 .. Len(t) : t[k] = IF k < p THEN s[k] ELSE s[k + 1]
    <3>1. IsRemoved(Abstract!RemoveAt(s, p), s, p)
      BY <2>1, RemoveFacts
    <3> QED
      BY <2>3, <3>1 DEF IsRemoved
  <2> HIDE DEF t
  <2>10. ASSUME NEW x \in Entries
         PROVE  oo[x] = h <=> \E i \in 1 .. Len(t) : t[i] = x
    <3>1. ASSUME NEW i \in 1 .. Len(t)
          PROVE  t[i] \in Entries /\ t[i] # e /\ \E k \in 1 .. Len(s) : s[k] = t[i]
      <4> DEFINE k == IF i < p THEN i ELSE i + 1
      <4>1. k \in 1 .. Len(s) /\ k # p /\ t[i] = s[k]
        BY <2>9
      <4> HIDE DEF k
      <4>2. s[k] # s[p]
        BY <2>1, <4>1 DEF Different
      <4>3. s[k] \in Entries
        BY <2>1, <4>1
      <4> QED
        BY <2>2, <4>1, <4>2, <4>3
    <3>2. ASSUME x # e, NEW k \in 1 .. Len(s), s[k] = x
          PROVE  \E i \in 1 .. Len(t) : t[i] = x
      <4> DEFINE i == IF k < p THEN k ELSE k - 1
      <4>1. k # p
        BY <2>2, <3>2
      <4>2. i \in 1 .. Len(t) /\ t[i] = s[k]
        BY <2>9, <4>1
      <4> QED
        BY <3>2, <4>2
    <3>3. CASE x = e
      BY <1>1, <1>3, <3>1, <3>3
    <3>4. CASE x # e
      <4>1. oo[x] = o[x]
        BY <1>3, <3>4 DEF Node
      <4> QED
        BY <2>1, <3>1, <3>2, <3>4, <4>1
    <3> QED
      BY <3>3, <3>4
  <2> QED
    BY <2>8, <2>10 DEF Ring, Holds, t
<1>9. \A h \in Heads : Ring(mm, oo, h, w[h])
  BY <1>7, <1>8
<1>10. w \in [Heads -> Seq(Entries)]
  BY <1>6, <1>9 DEF Ring, Follows
<1> QED
  BY <1>9, <1>10 DEF Represents, mm, oo, w

(* The members of s with t put into it.                                    *)
Has(s, x) == \E i \in 1 .. Len(s) : s[i] = x

(* Has() of the longer sequence is Has() of one of the two.                *)
LEMMA PutMembers ==
  ASSUME NEW S, NEW s \in Seq(S), NEW t \in Seq(S), NEW u, NEW p \in Places(s), IsPut(u, s, p, t), NEW x
  PROVE  Has(u, x) <=> Has(s, x) \/ Has(t, x)
<1> DEFINE l == Len(s)
           n == Len(t)
<1>1. l \in Nat /\ n \in Nat /\ p \in 0 .. l /\ Len(u) = l + n
  BY DEF IsPut, Places
<1>2. \A k \in 1 .. l + n : u[k] = IF k <= p THEN s[k] ELSE IF k <= p + n THEN t[k - p] ELSE s[k - n]
  BY DEF IsPut
<1>3. /\ Has(u, x) <=> \E i \in 1 .. l + n : u[i] = x
      /\ Has(s, x) <=> \E i \in 1 .. l : s[i] = x
      /\ Has(t, x) <=> \E i \in 1 .. n : t[i] = x
  BY <1>1 DEF Has
<1> HIDE DEF l, n
<1>4. ASSUME NEW i \in 1 .. l + n, u[i] = x
      PROVE  (\E k \in 1 .. l : s[k] = x) \/ (\E k \in 1 .. n : t[k] = x)
  <2>1. CASE i <= p
    <3>1. i \in 1 .. l /\ s[i] = x
      BY <1>1, <1>2, <1>4, <2>1
    <3> QED
      BY <3>1
  <2>2. CASE ~ (i <= p) /\ i <= p + n
    <3>1. i - p \in 1 .. n /\ t[i - p] = x
      BY <1>1, <1>2, <1>4, <2>2
    <3> QED
      BY <3>1
  <2>3. CASE ~ (i <= p) /\ ~ (i <= p + n)
    <3>1. i - n \in 1 .. l /\ s[i - n] = x
      BY <1>1, <1>2, <1>4, <2>3
    <3> QED
      BY <3>1
  <2> QED
    BY <2>1, <2>2, <2>3
<1>5. ASSUME NEW k \in 1 .. l, s[k] = x
      PROVE  \E i \in 1 .. l + n : u[i] = x
  <2>1. CASE k <= p
    <3>1. k \in 1 .. l + n /\ u[k] = x
      BY <1>1, <1>2, <1>5, <2>1
    <3> QED
      BY <3>1
  <2>2. CASE ~ (k <= p)
    <3>1. k + n \in 1 .. l + n /\ ~ (k + n <= p) /\ ~ (k + n <= p + n) /\ (k + n) - n = k
      BY <1>1, <2>2
    <3>2. u[k + n] = x
      BY <1>2, <1>5, <3>1
    <3> QED
      BY <3>1, <3>2
  <2> QED
    BY <2>1, <2>2
<1>6. ASSUME NEW k \in 1 .. n, t[k] = x
      PROVE  \E i \in 1 .. l + n : u[i] = x
  <2>1. k + p \in 1 .. l + n /\ ~ (k + p <= p) /\ k + p <= p + n /\ (k + p) - p = k
    BY <1>1
  <2>2. u[k + p] = x
    BY <1>2, <1>6, <2>1
  <2> QED
    BY <2>1, <2>2
<1> QED
  BY <1>3, <1>4, <1>5, <1>6

(* root is the node at place p of the ring of g, and t put there.          *)
IsAt(r, g, p, root) == p \in Places(r[g]) /\ At(r[g], g, p) = root

Insert(r, g, p, t) == [r EXCEPT ![g] = Abstract!PutAt(@, p, t)]

(* list_add() puts the entry behind root.                                  *)
LEMMA AddRings ==
  ASSUME NEW m, NEW o, Sound(m, o), NEW r, Represents(m, o, r), NEW e \in Entries, o[e] \in {NoList, e},
         NEW root \in Node, NEW g \in Heads, o[root] = g, NEW p, IsAt(r, g, p, root)
  PROVE  Represents(list_add(m, e, root), [o EXCEPT ![e] = g], Insert(r, g, p, <<e>>))
<1> DEFINE mm == list_add(m, e, root)
           oo == [o EXCEPT ![e] = g]
           w  == Insert(r, g, p, <<e>>)
           s  == r[g]
           t  == <<e>>
<1>1. o \in Ownership /\ e \in Node /\ e \notin Heads /\ NoList \notin Heads
  BY NodeAssumption DEF Sound, Node
<1>2. \A x \in Node : mm.next[x] = IF x = root THEN e ELSE IF x = e THEN m.next[root] ELSE m.next[x]
  <2>1. AfterAdd(m, mm, e, root)
    BY AddSound
  <2> QED
    BY <2>1 DEF AfterAdd
<1>3. \A x \in Node : oo[x] = IF x = e THEN g ELSE o[x]
  BY <1>1 DEF Ownership
<1>4. r \in [Heads -> Seq(Entries)] /\ \A h \in Heads : Ring(m, o, h, r[h])
  BY DEF Represents
<1>5. \A h \in Heads : o[e] # h
  BY <1>1
<1>6. w = [h \in Heads |-> IF h = g THEN Abstract!PutAt(s, p, t) ELSE r[h]]
  BY <1>4 DEF Insert
<1>7. Follows(m.next, g, s) /\ s \in Seq(Entries) /\ Different(s)
      /\ \A x \in Entries : o[x] = g <=> \E i \in 1 .. Len(s) : s[i] = x
  BY <1>4 DEF Ring, Follows, Holds
<1>8. At(s, g, p) = root /\ p \in 0 .. Len(s) /\ p \in Nat /\ p \in Places(s)
  BY <1>7 DEF Places, IsAt
<1>9. t \in Seq(Entries) /\ Len(t) = 1 /\ t[1] = e /\ Different(t)
  BY DEF Different
<1> HIDE DEF mm, oo, w, s, t
<1>10. ASSUME NEW h \in Heads, h # g
       PROVE  Ring(mm, oo, h, w[h])
  <2>1. \A x \in Node : o[x] = h => mm.next[x] = m.next[x]
    BY <1>2, <1>5, <1>10
  <2>2. \A x \in Entries : oo[x] = h <=> o[x] = h
    BY <1>3, <1>5, <1>10 DEF Node
  <2>3. Ring(m, o, h, r[h]) /\ w[h] = r[h]
    BY <1>4, <1>6, <1>10
  <2> QED
    BY <1>1, <2>1, <2>2, <2>3, RingStays
<1>11. Follows(mm.next, g, Abstract!PutAt(s, p, t))
  <2>1. Apart(s, t)
    BY <1>5, <1>7, <1>9 DEF Apart
  <2>2. ASSUME NEW k \in 0 .. Len(s), k # p
        PROVE  mm.next[At(s, g, k)] = m.next[At(s, g, k)]
    <3>1. At(s, g, k) # root
      BY <1>7, <1>8, <2>2, AtFacts
    <3>2. At(s, g, k) \in Node /\ At(s, g, k) # e
      <4>1. \A i \in 1 .. Len(s) : s[i] # e /\ s[i] \in Entries
        BY <1>5, <1>7
      <4> QED
        BY <1>1, <4>1 DEF At, Node
    <3> QED
      BY <1>2, <3>1, <3>2
  <2>3. m.next[root] = At(s, g, p + 1)
    BY <1>7, <1>8 DEF Follows
  <2>4. root # e
    BY <1>1, <1>5
  <2>5. \A k \in 0 .. Len(t) :
          mm.next[Chain(t, At(s, g, p), At(s, g, p + 1), k)] = Chain(t, At(s, g, p), At(s, g, p + 1), k + 1)
    <3>1. mm.next[root] = e /\ mm.next[e] = At(s, g, p + 1)
      BY <1>1, <1>2, <2>3, <2>4
    <3>2. /\ Chain(t, At(s, g, p), At(s, g, p + 1), 0) = root
          /\ Chain(t, At(s, g, p), At(s, g, p + 1), 1) = e
          /\ Chain(t, At(s, g, p), At(s, g, p + 1), 2) = At(s, g, p + 1)
      BY <1>8, <1>9 DEF Chain
    <3>3. \A k \in 0 .. Len(t) : (k = 0 /\ k + 1 = 1) \/ (k = 1 /\ k + 1 = 2)
      BY <1>9
    <3> QED
      BY <3>1, <3>2, <3>3
  <2>6. PutBehind(m.next, mm.next, g, s, p, t)
    BY <2>2, <2>5 DEF PutBehind
  <2> QED
    BY <1>7, <1>8, <1>9, <2>1, <2>6, PutFollows
<1>12. Ring(mm, oo, g, w[g])
  <2> DEFINE u == Abstract!PutAt(s, p, t)
  <2>1. IsPut(u, s, p, t)
    BY <1>7, <1>8, <1>9, PutFacts
  <2>2. w[g] = u
    BY <1>6
  <2> HIDE DEF u
  <2>3. ASSUME NEW x \in Entries
        PROVE  oo[x] = g <=> \E i \in 1 .. Len(u) : u[i] = x
    <3>1. Has(u, x) <=> Has(s, x) \/ Has(t, x)
      BY <1>7, <1>8, <1>9, <2>1, PutMembers
    <3>2. Has(t, x) <=> x = e
      BY <1>9 DEF Has
    <3>3. Has(s, x) <=> o[x] = g
      BY <1>7 DEF Has
    <3>4. oo[x] = g <=> x = e \/ o[x] = g
      BY <1>3 DEF Node
    <3> QED
      BY <3>1, <3>2, <3>3, <3>4 DEF Has
  <2> QED
    BY <1>11, <2>2, <2>3 DEF Ring, Holds, u
<1>13. \A h \in Heads : Ring(mm, oo, h, w[h])
  BY <1>10, <1>12
<1>14. w \in [Heads -> Seq(Entries)]
  <2>1. \A h \in Heads : w[h] \in Seq(Entries)
    BY <1>13 DEF Ring, Follows
  <2>2. w = [h \in Heads |-> w[h]]
    BY <1>6
  <2> QED
    BY <2>1, <2>2
<1> QED
  BY <1>13, <1>14 DEF Represents, mm, oo, w

(* list_splice() puts the entries of a list behind root, and nothing stays.*)
LEMMA SpliceRings ==
  ASSUME NEW m, NEW o, Sound(m, o), NEW r, Represents(m, o, r), NEW list \in Heads,
         NEW root \in Node, NEW g \in Heads, o[root] = g, g # list, NEW p, IsAt(r, g, p, root)
  PROVE  Represents(list_splice(m, list, root),
                    [n \in Node |-> IF o[n] = list /\ n # list THEN g ELSE o[n]],
                    Insert([r EXCEPT ![list] = <<>>], g, p, r[list]))
<1> DEFINE mm == list_splice(m, list, root)
           oo == [n \in Node |-> IF o[n] = list /\ n # list THEN g ELSE o[n]]
           w  == Insert([r EXCEPT ![list] = <<>>], g, p, r[list])
           s  == r[g]
           t  == r[list]
<1>1. o \in Ownership /\ list \in Node /\ list \notin Entries /\ o[list] = list
  BY NodeAssumption DEF Sound, Node, Ownership
<1>2. \A x \in Node :
        mm.next[x] = IF m.next[list] = list THEN m.next[x]
                     ELSE IF x = list THEN list
                     ELSE IF x = root THEN m.next[list]
                     ELSE IF x = m.prev[list] THEN m.next[root] ELSE m.next[x]
  <2>1. AfterSplice(m, mm, list, root)
    BY SpliceSound
  <2> QED
    BY <2>1 DEF AfterSplice
<1>3. \A x \in Node : oo[x] = IF o[x] = list /\ x # list THEN g ELSE o[x]
  OBVIOUS
<1>4. r \in [Heads -> Seq(Entries)] /\ \A h \in Heads : Ring(m, o, h, r[h])
  BY DEF Represents
<1>5. w = [h \in Heads |-> IF h = g THEN Abstract!PutAt(s, p, t) ELSE IF h = list THEN <<>> ELSE r[h]]
  BY <1>4 DEF Insert
<1>6. Follows(m.next, g, s) /\ s \in Seq(Entries) /\ Different(s) /\ Ring(m, o, g, s)
      /\ \A x \in Entries : o[x] = g <=> Has(s, x)
  BY <1>4 DEF Ring, Follows, Holds, Has
<1>7. Follows(m.next, list, t) /\ t \in Seq(Entries) /\ Different(t) /\ Ring(m, o, list, t)
      /\ \A x \in Entries : o[x] = list <=> Has(t, x)
  BY <1>4 DEF Ring, Follows, Holds, Has
<1>8. At(s, g, p) = root /\ p \in 0 .. Len(s) /\ p \in Nat /\ p \in Places(s)
  BY <1>6 DEF Places, IsAt
<1> HIDE DEF mm, oo, w, s, t
<1>9. m.next[list] = At(t, list, 1)
  <2>1. 0 \in 0 .. Len(t) /\ At(t, list, 0) = list /\ 0 + 1 = 1
    BY <1>7, AtFacts
  <2> QED
    BY <1>7, <2>1 DEF Follows
<1>10. m.prev[list] = At(t, list, Len(t))
  <2>1. Len(t) \in Places(t) /\ At(t, list, Len(t) + 1) = list
    BY <1>7, AtFacts DEF Places
  <2> QED
    BY <1>7, <2>1, RingPrev
<1>11. m.next[root] = At(s, g, p + 1)
  BY <1>6, <1>8 DEF Follows
<1>12. /\ \A k \in Nat : At(t, list, k) \in Node /\ o[At(t, list, k)] = list
       /\ \A k \in Nat : At(s, g, k) \in Node /\ o[At(s, g, k)] = g
  <2>1. AllOn(o, list, t)
    <3>1. o \in Ownership /\ Ring(m, o, list, t)
      BY <1>1, <1>7
    <3> QED
      BY <3>1, RingNodes
  <2>2. AllOn(o, g, s)
    <3>1. o \in Ownership /\ Ring(m, o, g, s)
      BY <1>1, <1>6
    <3> QED
      BY <3>1, RingNodes
  <2> QED
    BY <2>1, <2>2 DEF AllOn
<1>13. Len(t) \in Nat /\ Len(s) \in Nat
  BY <1>6, <1>7
<1>14. ASSUME NEW h \in Heads, h # g, h # list
       PROVE  Ring(mm, oo, h, w[h])
  <2>0. m.prev[list] \in Node /\ o[m.prev[list]] = list
    BY <1>10, <1>12, <1>13
  <2>1. \A x \in Node : o[x] = h => mm.next[x] = m.next[x]
    BY <1>1, <1>2, <1>14, <2>0
  <2>2. \A x \in Entries : oo[x] = h <=> o[x] = h
    BY <1>3, <1>14 DEF Node
  <2>3. Ring(m, o, h, r[h]) /\ w[h] = r[h]
    BY <1>4, <1>5, <1>14
  <2> QED
    BY <1>1, <2>1, <2>2, <2>3, RingStays
<1>15. Ring(mm, oo, list, w[list])
  <2>1. w[list] = <<>> /\ Len(<<>>) = 0
    BY <1>5
  <2>2. mm.next[list] = list
    BY <1>1, <1>2
  <2>3. Follows(mm.next, list, <<>>)
    <3>1. \A k \in 0 .. 0 : mm.next[At(<<>>, list, k)] = At(<<>>, list, k + 1)
      BY <2>2 DEF At
    <3>2. <<>> \in Seq(Entries) /\ Different(<<>>)
      BY DEF Different
    <3> QED
      BY <3>1, <3>2 DEF Follows
  <2>4. \A x \in Entries : oo[x] # list
    BY <1>1, <1>3 DEF Node
  <2> QED
    BY <2>1, <2>3, <2>4 DEF Ring, Holds
<1>16. Follows(mm.next, g, Abstract!PutAt(s, p, t))
  <2>1. Apart(s, t)
    <3>1. \A k \in 1 .. Len(s) : k \in Nat /\ s[k] = At(s, g, k)
      BY <1>6, <1>13 DEF At
    <3>2. \A k \in 1 .. Len(t) : k \in Nat /\ t[k] = At(t, list, k)
      BY <1>7, <1>13 DEF At
    <3> QED
      BY <1>12, <3>1, <3>2 DEF Apart
  <2>2. ASSUME NEW k \in 0 .. Len(s), k # p
        PROVE  mm.next[At(s, g, k)] = m.next[At(s, g, k)]
    <3>1. At(s, g, k) # root
      BY <1>6, <1>8, <2>2, AtFacts
    <3>2. At(s, g, k) \in Node /\ o[At(s, g, k)] = g
      BY <1>12, <1>13
    <3>3. At(s, g, k) # list /\ At(s, g, k) # m.prev[list]
      BY <1>1, <1>10, <1>12, <1>13, <3>2
    <3> QED
      BY <1>2, <3>1, <3>2, <3>3
  <2> DEFINE c(k) == Chain(t, At(s, g, p), At(s, g, p + 1), k)
  <2>3. \A k \in 0 .. Len(t) + 1 : c(k) = IF k = 0 THEN root ELSE IF k <= Len(t) THEN t[k] ELSE m.next[root]
    BY <1>8, <1>11, <1>13 DEF Chain
  <2>4. root # list
    BY <1>1
  <2> HIDE DEF c
  <2>5. CASE Len(t) = 0
    <3>1. m.next[list] = list
      BY <1>9, <2>5 DEF At
    <3>2. c(0) = root /\ c(1) = m.next[root]
      BY <2>3, <2>5
    <3>3. mm.next[root] = m.next[root]
      BY <1>2, <3>1
    <3>4. \A k \in 0 .. Len(t) : mm.next[c(k)] = c(k + 1)
      BY <2>5, <3>2, <3>3
    <3>5. PutBehind(m.next, mm.next, g, s, p, t)
      BY <2>2, <3>4 DEF PutBehind, c
    <3> QED
      BY <1>6, <1>7, <1>8, <2>1, <3>5, PutFollows
  <2>6. CASE Len(t) # 0
    <3>1. m.next[list] = t[1] /\ m.prev[list] = t[Len(t)] /\ t[1] \in Entries
      BY <1>7, <1>9, <1>10, <1>13, <2>6 DEF At
    <3>2. m.next[list] # list
      BY <1>1, <3>1
    <3>3. ASSUME NEW k \in 0 .. Len(t)
          PROVE  mm.next[c(k)] = c(k + 1)
      <4>1. CASE k = 0
        <5>1. c(k) = root /\ c(k + 1) = t[1]
          BY <1>13, <2>3, <2>6, <4>1
        <5> QED
          BY <1>2, <2>4, <3>1, <3>2, <5>1
      <4>2. CASE k # 0
        <5>1. k \in 1 .. Len(t) /\ k \in Nat /\ At(t, list, k) = t[k] /\ c(k) = t[k]
          BY <1>7, <1>13, <2>3, <4>2 DEF At
        <5>2. t[k] \in Node /\ o[t[k]] = list
          BY <1>12, <5>1
        <5>3. t[k] # list /\ t[k] # root
          BY <1>1, <1>7, <5>1, <5>2
        <5>4. CASE k = Len(t)
          <6>1. c(k + 1) = m.next[root]
            BY <1>13, <2>3, <5>4
          <6> QED
            BY <1>2, <3>1, <3>2, <5>1, <5>2, <5>3, <5>4, <6>1
        <5>5. CASE k # Len(t)
          <6>1. c(k + 1) = t[k + 1] /\ k + 1 \in 1 .. Len(t)
            BY <1>13, <2>3, <5>1, <5>5
          <6>2. t[k] # m.prev[list]
            BY <1>7, <1>13, <2>6, <3>1, <5>1, <5>5 DEF Different
          <6>3. m.next[t[k]] = t[k + 1]
            <7>1. m.next[At(t, list, k)] = At(t, list, k + 1)
              BY <1>7 DEF Follows
            <7> QED
              BY <5>1, <6>1, <7>1 DEF At
          <6> QED
            BY <1>2, <3>2, <5>1, <5>2, <5>3, <6>1, <6>2, <6>3
        <5> QED
          BY <5>4, <5>5
      <4> QED
        BY <4>1, <4>2
    <3>4. PutBehind(m.next, mm.next, g, s, p, t)
      BY <2>2, <3>3 DEF PutBehind, c
    <3> QED
      BY <1>6, <1>7, <1>8, <2>1, <3>4, PutFollows
  <2> QED
    BY <2>5, <2>6
<1>17. Ring(mm, oo, g, w[g])
  <2> DEFINE u == Abstract!PutAt(s, p, t)
  <2>1. IsPut(u, s, p, t)
    BY <1>6, <1>7, <1>8, PutFacts
  <2>2. w[g] = u
    BY <1>5
  <2> HIDE DEF u
  <2>3. ASSUME NEW x \in Entries
        PROVE  oo[x] = g <=> \E i \in 1 .. Len(u) : u[i] = x
    <3>1. Has(u, x) <=> Has(s, x) \/ Has(t, x)
      BY <1>6, <1>7, <1>8, <2>1, PutMembers
    <3>2. oo[x] = g <=> o[x] = list \/ o[x] = g
      BY <1>1, <1>3 DEF Node
    <3> QED
      BY <1>6, <1>7, <3>1, <3>2 DEF Has
  <2> QED
    BY <1>16, <2>2, <2>3 DEF Ring, Holds, u
<1>18. \A h \in Heads : Ring(mm, oo, h, w[h])
  BY <1>14, <1>15, <1>17
<1>19. w \in [Heads -> Seq(Entries)]
  <2>1. \A h \in Heads : w[h] \in Seq(Entries)
    BY <1>18 DEF Ring, Follows
  <2>2. w = [h \in Heads |-> w[h]]
    BY <1>5
  <2> QED
    BY <2>1, <2>2
<1> QED
  BY <1>18, <1>19 DEF Represents, mm, oo, w

-----------------------------------------------------------------------------
(* Where something is inserted.                                            *)

(* ListSpec finds the place of a node.                                     *)
LEMMA PositionIs ==
  ASSUME NEW m, NEW o \in Ownership, NEW r, Represents(m, o, r), NEW root \in Node, NEW g \in Heads,
         o[root] = g, NEW p, IsAt(r, g, p, root)
  PROVE  Abstract!Position(r, root) = p
<1> DEFINE s == r[g]
<1>1. s \in Seq(Entries) /\ Different(s) /\ p \in 0 .. Len(s) /\ At(s, g, p) = root
  BY DEF Represents, Ring, Follows, Places, IsAt
<1> HIDE DEF s
<1>2. /\ \A i, j \in 0 .. Len(s) : At(s, g, i) = At(s, g, j) => i = j
      /\ \A k \in 1 .. Len(s) : s[k] \in Entries /\ At(s, g, k) = s[k]
      /\ At(s, g, 0) = g /\ 0 \in 0 .. Len(s)
  BY <1>1, AtFacts
<1>3. CASE root \in Heads
  <2>1. root = g
    BY <1>3 DEF Ownership
  <2>2. p = 0
    BY <1>1, <1>2, <2>1
  <2> QED
    BY <1>3, <2>2 DEF Abstract!Position
<1>4. CASE root \notin Heads
  <2>1. p # 0
    BY <1>1, <1>2, <1>4
  <2>2. p \in 1 .. Len(s) /\ s[p] = root
    BY <1>1, <1>2, <2>1
  <2>3. Abstract!Place(s, root) = p
    BY <1>1, <2>2, PlaceIs
  <2>4. Abstract!ListOf(r, root) = g
    BY ListOfIs
  <2> QED
    BY <1>4, <2>3, <2>4 DEF Abstract!Position, s
<1> QED
  BY <1>3, <1>4

(* The place before root.                                                  *)
IsBefore(m, s, g, root, q) == q \in Places(s) /\ At(s, g, q) = m.prev[root] /\ At(s, g, q + 1) = root

(* There is a node before every node of a ring, and prev points at it.     *)
LEMMA PlaceBefore ==
  ASSUME NEW m, NEW o, Sound(m, o), NEW r, Represents(m, o, r), NEW root \in Node, NEW g \in Heads,
         o[root] = g
  PROVE  \E q : IsBefore(m, r[g], g, root, q)
<1>1. o \in Ownership /\ WellLinkedIn(m, o)
  BY DEF Sound
<1>2. g # NoList
  BY NodeAssumption DEF Node
<1>3. m.prev[root] \in Node /\ o[m.prev[root]] = g /\ m.next[m.prev[root]] = root
  BY <1>1, <1>2 DEF WellLinkedIn
<1>4. Ring(m, o, g, r[g])
  BY DEF Represents
<1>5. PICK q \in Places(r[g]) : At(r[g], g, q) = m.prev[root]
  <2> DEFINE s == r[g]
             n == m.prev[root]
  <2>1. n \in Node /\ o[n] = g /\ Ring(m, o, g, s)
    BY <1>3, <1>4
  <2> HIDE DEF s, n
  <2>2. \E k \in Places(s) : At(s, g, k) = n
    BY <1>1, <2>1, RingPlaces
  <2> QED
    BY <2>2 DEF s, n
<1>6. m.next[At(r[g], g, q)] = At(r[g], g, q + 1)
  BY <1>4 DEF Ring, Follows, Places
<1> QED
  BY <1>3, <1>5, <1>6 DEF IsBefore

(* It is the place where ListSpec inserts before root.                     *)
LEMMA BeforeIs ==
  ASSUME NEW m, NEW o \in Ownership, NEW r, Represents(m, o, r), NEW root \in Node, NEW g \in Heads,
         o[root] = g, NEW q, IsBefore(m, r[g], g, root, q)
  PROVE  q = IF root \in Heads THEN Len(r[g]) ELSE Abstract!Position(r, root) - 1
<1> DEFINE s == r[g]
<1>2. s \in Seq(Entries) /\ Different(s) /\ q \in 0 .. Len(s) /\ At(s, g, q + 1) = root
  BY DEF Represents, Ring, Follows, Places, IsBefore
<1>3. CASE root \in Heads
  <2>1. root = g
    BY <1>3 DEF Ownership
  <2>2. q = Len(s)
    BY <1>2, <2>1, NodeAssumption DEF At
  <2> QED
    BY <1>3, <2>2
<1>4. CASE root \notin Heads
  <2>1. q + 1 \in 1 .. Len(s)
    <3>1. CASE q + 1 \notin 1 .. Len(s)
      BY <1>2, <1>4, <3>1 DEF At
    <3> QED
      BY <3>1
  <2>2. IsAt(r, g, q + 1, root) /\ (q + 1) - 1 = q
    BY <1>2, <2>1 DEF Places, IsAt
  <2>3. Abstract!Position(r, root) = q + 1
    BY <1>2, <2>2, PositionIs
  <2>4. Abstract!Position(r, root) - 1 = q
    BY <2>2, <2>3
  <2> QED
    BY <1>4, <2>4
<1> QED
  BY <1>3, <1>4

-----------------------------------------------------------------------------
(* The calls.                                                              *)

(* list_init() of something alone leaves every sequence as it is.          *)
LEMMA InitRings ==
  ASSUME NEW m, NEW o, Sound(m, o), NEW r, Represents(m, o, r), NEW n \in Node,
         o[n] \in {NoList, n}, \A e \in Entries : e # n => o[e] # n
  PROVE  Represents(list_init(m, n), [o EXCEPT ![n] = n], r)
<1> DEFINE mm == list_init(m, n)
           oo == [o EXCEPT ![n] = n]
<1>1. o \in Ownership /\ NoList \notin Heads
  BY NodeAssumption DEF Sound, Node
<1>2. \A x \in Node : mm.next[x] = IF x = n THEN n ELSE m.next[x]
  <2>1. AfterInit(m, mm, n)
    BY InitSound
  <2> QED
    BY <2>1 DEF AfterInit
<1>3. \A x \in Node : oo[x] = IF x = n THEN n ELSE o[x]
  BY <1>1 DEF Ownership
<1> HIDE DEF mm, oo
<1>4. r \in [Heads -> Seq(Entries)] /\ \A h \in Heads : Ring(m, o, h, r[h])
  BY DEF Represents
<1>5. ASSUME n \in Heads
      PROVE  m.next[n] = n /\ o[n] = n /\ n \notin Entries
  <2> DEFINE s == r[n]
  <2>1. s \in Seq(Entries) /\ Follows(m.next, n, s) /\ Holds(o, n, s)
    BY <1>4, <1>5 DEF Ring, Follows
  <2> HIDE DEF s
  <2>2. n \notin Entries
    BY <1>5, NodeAssumption
  <2>3. Len(s) = 0
    <3>1. CASE Len(s) # 0
      <4>1. 1 \in 1 .. Len(s) /\ s[1] \in Entries
        BY <2>1, <3>1
      <4>2. o[s[1]] = n /\ s[1] # n
        BY <2>1, <2>2, <4>1 DEF Holds
      <4> QED
        BY <4>1, <4>2
    <3> QED
      BY <3>1
  <2>4. m.next[n] = n
    BY <2>1, <2>3 DEF Follows, At
  <2> QED
    BY <1>1, <1>5, <2>2, <2>4 DEF Ownership
<1>6. ASSUME NEW h \in Heads
      PROVE  Ring(mm, oo, h, r[h])
  <2>0. n \in Entries => n \notin Heads
    BY NodeAssumption
  <2>1. \A x \in Node : o[x] = h => mm.next[x] = m.next[x]
    BY <1>1, <1>2, <1>5, <2>0 DEF Node
  <2>2. \A x \in Entries : oo[x] = h <=> o[x] = h
    BY <1>1, <1>3, <1>5, <2>0 DEF Node
  <2>3. Ring(m, o, h, r[h])
    BY <1>4
  <2> QED
    BY <1>1, <2>1, <2>2, <2>3, RingStays
<1> QED
  BY <1>4, <1>6 DEF Represents, mm, oo

(* list_del_init() takes the entry out of its ring, too.                   *)
LEMMA DelInitRings ==
  ASSUME NEW m, NEW o, Sound(m, o), NEW r, Represents(m, o, r), NEW e \in Entries, o[e] # NoList
  PROVE  Represents(list_del_init(m, e), [o EXCEPT ![e] = e], Abstract!Without(r, e))
<1> DEFINE deleted == list_del(m, e)
           oo      == [o EXCEPT ![e] = NoList]
<1>1. Sound(deleted, oo)
  BY DelSound
<1>2. Represents(deleted, oo, Abstract!Without(r, e))
  BY DelRings
<1>3. e \in Node /\ oo[e] = NoList /\ (\A x \in Entries : x # e => oo[x] # e)
  BY NodeAssumption DEF Sound, Ownership, Node
<1>4. [oo EXCEPT ![e] = e] = [o EXCEPT ![e] = e]
  BY DEF Sound, Ownership
<1>5. deleted.ok
  BY <1>1 DEF Sound
<1> HIDE DEF oo
<1>6. Represents(list_init(deleted, e), [oo EXCEPT ![e] = e], Abstract!Without(r, e))
  BY <1>1, <1>2, <1>3, InitRings
<1> QED
  BY <1>4, <1>5, <1>6 DEF list_del_init

(* The place of a node of a ring, for a memory and its sequences.          *)
LEMMA PlaceIn ==
  ASSUME NEW m, NEW o \in Ownership, NEW r, Represents(m, o, r), NEW root \in Node, NEW g \in Heads,
         o[root] = g
  PROVE  \E p : IsAt(r, g, p, root)
<1> DEFINE s == r[g]
<1>1. Ring(m, o, g, s)
  BY DEF Represents
<1> HIDE DEF s
<1>2. \E k \in Places(s) : At(s, g, k) = root
  BY <1>1, RingPlaces
<1> QED
  BY <1>2 DEF s, IsAt

(* list_add() and list_add_tail() put the entry where ListSpec says.       *)
LEMMA AddAfter ==
  ASSUME NEW m, NEW o, Sound(m, o), NEW r, Represents(m, o, r), NEW e \in Entries, o[e] \in {NoList, e},
         NEW root \in Node, NEW g \in Heads, o[root] = g
  PROVE  Represents(list_add(m, e, root), [o EXCEPT ![e] = g], Abstract!InsertAfter(r, <<e>>, root))
<1>1. o \in Ownership
  BY DEF Sound
<1>2. PICK p : IsAt(r, g, p, root)
  BY <1>1, PlaceIn
<1>3. Represents(list_add(m, e, root), [o EXCEPT ![e] = g],
                 Insert(r, g, p, <<e>>))
  BY <1>2, AddRings
<1>4. Abstract!InsertAfter(r, <<e>>, root) = Insert(r, g, p, <<e>>)
  <2>1. Abstract!ListOf(r, root) = g
    BY <1>1, ListOfIs
  <2>2. Abstract!Position(r, root) = p
    BY <1>1, <1>2, PositionIs
  <2> QED
    BY <2>1, <2>2 DEF Abstract!InsertAfter, Insert
<1> QED
  BY <1>3, <1>4

(* list_add_tail() puts the entry where ListSpec says.                     *)
LEMMA AddBefore ==
  ASSUME NEW m, NEW o, Sound(m, o), NEW r, Represents(m, o, r), NEW e \in Entries, o[e] \in {NoList, e},
         NEW root \in Node, NEW g \in Heads, o[root] = g
  PROVE  Represents(list_add_tail(m, e, root), [o EXCEPT ![e] = g],
                    Abstract!InsertBefore(r, <<e>>, root))
<1>1. o \in Ownership
  BY DEF Sound
<1>2. PICK q : IsBefore(m, r[g], g, root, q)
  BY PlaceBefore
<1>3. IsAt(r, g, q, m.prev[root])
  BY <1>2 DEF IsBefore, IsAt
<1>4. m.prev[root] \in Node /\ o[m.prev[root]] = g
  BY PrevListed
<1>5. Represents(list_add(m, e, m.prev[root]), [o EXCEPT ![e] = g],
                 Insert(r, g, q, <<e>>))
  BY <1>3, <1>4, AddRings
<1>6. Abstract!InsertBefore(r, <<e>>, root) = Insert(r, g, q, <<e>>)
  <2>1. Abstract!ListOf(r, root) = g
    BY <1>1, ListOfIs
  <2>2. q = IF root \in Heads THEN Len(r[g]) ELSE Abstract!Position(r, root) - 1
    BY <1>1, <1>2, BeforeIs
  <2>3. r \in [Heads -> Seq(Entries)]
    BY <1>1 DEF Represents
  <2> QED
    BY <2>1, <2>2, <2>3 DEF Abstract!InsertBefore, Insert
<1>7. list_add_tail(m, e, root) = list_add(m, e, m.prev[root])
  BY AddTailSound
<1> QED
  BY <1>5, <1>6, <1>7

(* list_move() is a removal and an insertion.                              *)
LEMMA MoveIs ==
  ASSUME NEW m, NEW o, Sound(m, o), NEW e \in Entries, o[e] # NoList, NEW root
  PROVE  list_move(m, e, root) = list_add(list_del(m, e), e, root)
<1>1. Sound(list_del(m, e), [o EXCEPT ![e] = NoList])
  BY DelSound
<1> QED
  BY <1>1 DEF list_move, Sound

(* The second of two assignments counts.                                   *)
LEMMA OwnedTwice ==
  ASSUME NEW o \in Ownership, NEW e \in Entries, NEW a, NEW b
  PROVE  [[o EXCEPT ![e] = a] EXCEPT ![e] = b] = [o EXCEPT ![e] = b]
BY DEF Ownership

(* list_move() puts the entry behind root, wherever it was.                *)
LEMMA MoveRings ==
  ASSUME NEW m, NEW o, Sound(m, o), NEW r, Represents(m, o, r), NEW e \in Entries, o[e] # NoList,
         NEW root \in Node, NEW g \in Heads, o[root] = g, e # root
  PROVE  Represents(list_move(m, e, root), [o EXCEPT ![e] = g],
                    Abstract!InsertAfter(Abstract!Without(r, e), <<e>>, root))
<1> DEFINE mm == list_del(m, e)
           oo == [o EXCEPT ![e] = NoList]
           rr == Abstract!Without(r, e)
<1>1. o \in Ownership /\ e \in Node
  BY DEF Sound, Node
<1>2. oo[e] = NoList /\ oo[root] = g
  BY <1>1 DEF Ownership
<1>3. Sound(mm, oo)
  BY DelSound
<1>4. Represents(mm, oo, rr)
  BY DelRings
<1>5. [oo EXCEPT ![e] = g] = [o EXCEPT ![e] = g]
  BY <1>1, OwnedTwice
<1>6. list_move(m, e, root) = list_add(mm, e, root)
  BY MoveIs
<1> HIDE DEF mm, oo, rr
<1>7. oo \in Ownership
  BY <1>3 DEF Sound
<1>8. Represents(list_add(mm, e, root), [oo EXCEPT ![e] = g], Abstract!InsertAfter(rr, <<e>>, root))
  BY <1>2, <1>3, <1>4, AddAfter
<1> QED
  BY <1>5, <1>6, <1>8 DEF rr

(* list_move_tail() reads root->prev before the removal; that is still the *)
(* node before root after it, unless it is the entry itself.               *)
LEMMA MoveTailRings ==
  ASSUME NEW m, NEW o, Sound(m, o), NEW r, Represents(m, o, r), NEW e \in Entries, o[e] # NoList,
         NEW root \in Node, NEW g \in Heads, o[root] = g, e # root, m.prev[root] # e
  PROVE  Represents(list_move_tail(m, e, root), [o EXCEPT ![e] = g],
                    Abstract!InsertBefore(Abstract!Without(r, e), <<e>>, root))
<1> DEFINE mm == list_del(m, e)
           oo == [o EXCEPT ![e] = NoList]
           rr == Abstract!Without(r, e)
           last == m.prev[root]
<1>1. o \in Ownership /\ e \in Node
  BY DEF Sound, Node
<1>0. last \in Node /\ o[last] = g /\ m.prev[m.next[e]] = e
  <2>1. WellLinkedIn(m, o) /\ g # NoList
    BY NodeAssumption DEF Sound, Node
  <2> QED
    BY <1>1, <2>1 DEF WellLinkedIn
<1>2. oo[e] = NoList /\ oo[root] = g /\ oo[last] = g
  BY <1>0, <1>1 DEF Ownership
<1>3. Sound(mm, oo)
  BY DelSound
<1>4. Represents(mm, oo, rr)
  BY DelRings
<1>5. [oo EXCEPT ![e] = g] = [o EXCEPT ![e] = g]
  BY <1>1, OwnedTwice
<1>6. list_move_tail(m, e, root) = list_add(mm, e, last)
  BY MoveIs DEF list_move_tail
<1>12. mm.prev[root] = last
  <2>1. AfterDel(m, mm, e)
    BY DelSound
  <2>2. root \in Node \ {e} /\ root # m.next[e]
    BY <1>0
  <2> QED
    BY <2>1, <2>2 DEF AfterDel
<1> HIDE DEF mm, oo, rr, last
<1>7. oo \in Ownership
  BY <1>3 DEF Sound
<1>9. PICK q : IsBefore(mm, rr[g], g, root, q)
  BY <1>2, <1>3, <1>4, PlaceBefore
<1>8. IsAt(rr, g, q, last)
  BY <1>9, <1>12 DEF IsBefore, IsAt
<1>10. Represents(list_add(mm, e, last), [oo EXCEPT ![e] = g],
                  Insert(rr, g, q, <<e>>))
  BY <1>0, <1>2, <1>3, <1>4, <1>8, AddRings
<1>11. Abstract!InsertBefore(rr, <<e>>, root) = Insert(rr, g, q, <<e>>)
  <2>1. Abstract!ListOf(rr, root) = g
    BY <1>2, <1>4, <1>7, ListOfIs
  <2>2. q = IF root \in Heads THEN Len(rr[g]) ELSE Abstract!Position(rr, root) - 1
    BY <1>2, <1>4, <1>7, <1>9, BeforeIs
  <2>3. rr \in [Heads -> Seq(Entries)]
    BY <1>2, <1>4, <1>7 DEF Represents
  <2> QED
    BY <2>1, <2>2, <2>3 DEF Abstract!InsertBefore, Insert
<1> QED
  BY <1>5, <1>6, <1>10, <1>11 DEF rr

-----------------------------------------------------------------------------
(* The refinement.                                                         *)

(* Walking the rings gives the sequences.                                  *)
LEMMA ListsAre ==
  ASSUME NEW m, NEW o, NEW r, Represents(m, o, r)
  PROVE  [h \in Heads |-> list_foreach(m, h)] = r
<1>1. r \in [Heads -> Seq(Entries)] /\ \A h \in Heads : Follows(m.next, h, r[h])
  BY DEF Represents, Ring
<1>2. \A h \in Heads : list_foreach(m, h) = r[h]
  BY <1>1, ForeachIs
<1> QED
  BY <1>1, <1>2

(* ListSpec and the caller agree on what is on a list.                     *)
LEMMA ListedIs ==
  ASSUME Represents(mem, on, Lists), on \in Ownership, NEW n \in Node
  PROVE  on[n] \in Heads <=> Abstract!IsListed(n)
<1>1. CASE n \in Heads
  BY <1>1 DEF Abstract!IsListed, Ownership
<1>2. CASE n \notin Heads
  <2>1. n \in Entries
    BY <1>2 DEF Node
  <2>2. \A h \in Heads : n \in Abstract!ToSet(Lists[h]) <=> on[n] = h
    BY <2>1, MembersAre
  <2> QED
    BY <1>2, <2>2 DEF Abstract!IsListed
<1> QED
  BY <1>1, <1>2

(* RInv adds to IInv that the rings are the sequences, and that they hold  *)
(* the entries that the caller put there.                                  *)
RInv == IInv /\ Represents(mem, on, Lists)

(* At the start every sequence is empty, in both specifications.           *)
LEMMA InitRInv == Init => RInv /\ Abstract!Init
<1> SUFFICES ASSUME Init
             PROVE  RInv /\ Abstract!Init
  OBVIOUS
<1> DEFINE r == [h \in Heads |-> <<>>]
<1>1. IInv
  BY InitIInv
<1>2. \A n \in Node : mem.next[n] = n /\ on[n] = n
  BY DEF Init
<1>3. ASSUME NEW h \in Heads
      PROVE  Ring(mem, on, h, <<>>)
  <2>1. Follows(mem.next, h, <<>>)
    <3>1. mem.next[h] = h
      BY <1>2 DEF Node
    <3>2. \A k \in 0 .. Len(<<>>) : mem.next[At(<<>>, h, k)] = At(<<>>, h, k + 1)
      BY <3>1 DEF At
    <3>3. <<>> \in Seq(Entries) /\ Different(<<>>)
      BY DEF Different
    <3> QED
      BY <3>2, <3>3 DEF Follows
  <2>2. Holds(on, h, <<>>)
    BY <1>2, NodeAssumption DEF Holds, Node
  <2> QED
    BY <2>1, <2>2 DEF Ring
<1>4. Represents(mem, on, r)
  <2>1. r \in [Heads -> Seq(Entries)] /\ \A h \in Heads : r[h] = <<>>
    OBVIOUS
  <2> HIDE DEF r
  <2> QED
    BY <1>3, <2>1 DEF Represents
<1>5. Lists = r
  BY <1>4, ListsAre DEF Lists
<1> QED
  BY <1>1, <1>4, <1>5 DEF RInv, Abstract!Init, Init

(* The sequences after a step, from what they represent.                   *)
LEMMA StepIs ==
  ASSUME IInv', NEW w, Represents(mem', on', w)
  PROVE  RInv' /\ Lists' = w
<1>1. [h \in Heads |-> list_foreach(mem', h)] = w
  BY ListsAre
<1>2. Lists' = w
  BY <1>1 DEF Lists
<1> QED
  BY <1>2 DEF RInv

(* What the cases of the step lemmas start from.                           *)
LEMMA RInvGives ==
  ASSUME RInv
  PROVE  /\ Sound(mem, on) /\ on \in Ownership /\ Represents(mem, on, Lists)
         /\ \A e \in Entries : e \in Node /\ e \notin Heads
         /\ NoList \notin Node /\ NoList \notin Heads
BY NodeAssumption DEF RInv, IInv, Sound, Node

(* A list_init() is a Reset(): what is listed stays.                       *)
LEMMA ResetStep ==
  ASSUME RInv, IInv', NEW n \in Node, ListInit(n)
  PROVE  RInv' /\ Abstract!Reset(n)
<1>1. Sound(mem, on) /\ on \in Ownership /\ Represents(mem, on, Lists)
  BY RInvGives
<1>2. on[n] \in {NoList, n} /\ (\A e \in Entries : e # n => on[e] # n)
  BY <1>1, NodeAssumption DEF ListInit, Addable, Ownership, Node
<1>3. Represents(list_init(mem, n), [on EXCEPT ![n] = n], Lists)
  BY <1>1, <1>2, InitRings
<1>4. RInv' /\ Lists' = Lists
  <2>1. Represents(mem', on', Lists)
    BY <1>3 DEF ListInit, PutOn
  <2> QED
    BY <2>1, StepIs
<1>5. CASE n \in Heads
  <2>1. \A e \in Entries : on[e] # n
    BY <1>5 DEF ListInit
  <2>2. Lists[n] = <<>>
    <3> DEFINE s == Lists[n]
    <3>1. s \in Seq(Entries) /\ Holds(on, n, s)
      BY <1>1, <1>5 DEF Represents, Ring
    <3> HIDE DEF s
    <3>2. \A i \in 1 .. Len(s) : s[i] \in Entries /\ on[s[i]] = n
      BY <3>1 DEF Holds
    <3>3. Len(s) = 0
      BY <2>1, <3>1, <3>2
    <3>4. s = <<>>
      BY <3>1, <3>3
    <3> QED
      BY <3>4 DEF s
  <2> QED
    BY <1>4, <1>5, <2>2 DEF ListInit, Calls, Abstract!Reset, Abstract!Call
<1>6. CASE n \notin Heads
  <2>1. on[n] \notin Heads
    BY <1>2, <1>6, RInvGives
  <2>2. ~ Abstract!IsListed(n)
    BY <1>1, <2>1, ListedIs
  <2> QED
    BY <1>4, <1>6, <2>2 DEF ListInit, Calls, Abstract!Reset, Abstract!Call
<1> QED
  BY <1>5, <1>6

(* A list_del() or list_del_init() is a Delete().                          *)
LEMMA DeleteStep ==
  ASSUME RInv, IInv', NEW e \in Entries, ListDel(e) \/ ListDelInit(e)
  PROVE  RInv' /\ Abstract!Delete(e)
<1>1. Sound(mem, on) /\ Represents(mem, on, Lists) /\ on[e] # NoList
  BY RInvGives DEF ListDel, ListDelInit
<1>2. Represents(mem', on', Abstract!Without(Lists, e))
  <2>1. CASE ListDel(e)
    <3>1. Represents(list_del(mem, e), [on EXCEPT ![e] = NoList], Abstract!Without(Lists, e))
      BY <1>1, DelRings
    <3> QED
      BY <2>1, <3>1 DEF ListDel, PutOn
  <2>2. CASE ListDelInit(e)
    <3>1. Represents(list_del_init(mem, e), [on EXCEPT ![e] = e], Abstract!Without(Lists, e))
      BY <1>1, DelInitRings
    <3> QED
      BY <2>2, <3>1 DEF ListDelInit, PutOn
  <2> QED
    BY <2>1, <2>2
<1>3. RInv' /\ Lists' = Abstract!Without(Lists, e)
  BY <1>2, StepIs
<1> QED
  BY <1>3 DEF ListDel, ListDelInit, Calls, Abstract!Delete, Abstract!Call

(* A list_add() or list_add_tail() is an Add().                            *)
LEMMA AddStep ==
  ASSUME RInv, IInv', NEW e \in Entries, NEW root \in Node, ListAdd(e, root) \/ ListAddTail(e, root)
  PROVE  RInv' /\ Abstract!Add(e, root)
<1> DEFINE g == on[root]
<1>1. Sound(mem, on) /\ on \in Ownership /\ Represents(mem, on, Lists)
  BY RInvGives
<1>2. on[e] \in {NoList, e} /\ g \in Heads /\ e \in Node
  BY RInvGives DEF ListAdd, ListAddTail, Addable, Listed
<1>3. ~ Abstract!IsListed(e) /\ Abstract!IsListed(root)
  <2>1. on[e] \notin Heads
    BY <1>2, RInvGives
  <2>2. ~ Abstract!IsListed(e)
    BY <1>1, <1>2, <2>1, ListedIs
  <2>3. Abstract!IsListed(root)
    BY <1>1, <1>2, ListedIs
  <2> QED
    BY <2>2, <2>3
<1>4. CASE ListAdd(e, root)
  <2>1. Represents(list_add(mem, e, root), [on EXCEPT ![e] = g],
                   Abstract!InsertAfter(Lists, <<e>>, root))
    BY <1>1, <1>2, AddAfter
  <2>2. Represents(mem', on', Abstract!InsertAfter(Lists, <<e>>, root))
    BY <1>4, <2>1 DEF ListAdd, PutOn
  <2>3. RInv' /\ Lists' = Abstract!InsertAfter(Lists, <<e>>, root)
    BY <2>2, StepIs
  <2> QED
    BY <1>3, <1>4, <2>3 DEF ListAdd, Calls, Abstract!Add, Abstract!Call
<1>5. CASE ListAddTail(e, root)
  <2>1. Represents(list_add_tail(mem, e, root), [on EXCEPT ![e] = g],
                   Abstract!InsertBefore(Lists, <<e>>, root))
    BY <1>1, <1>2, AddBefore
  <2>2. Represents(mem', on', Abstract!InsertBefore(Lists, <<e>>, root))
    BY <1>5, <2>1 DEF ListAddTail, PutOn
  <2>3. RInv' /\ Lists' = Abstract!InsertBefore(Lists, <<e>>, root)
    BY <2>2, StepIs
  <2> QED
    BY <1>3, <1>5, <2>3 DEF ListAddTail, Calls, Abstract!Add, Abstract!Call
<1> QED
  BY <1>4, <1>5

(* A list_move() or list_move_tail() is a Move().                          *)
LEMMA MoveStep ==
  ASSUME MoveLast = FALSE, RInv, IInv', NEW e \in Entries, NEW root \in Node,
         ListMove(e, root) \/ ListMoveTail(e, root)
  PROVE  RInv' /\ Abstract!Move(e, root)
<1> DEFINE g == on[root]
           w == Abstract!Without(Lists, e)
<1>1. Sound(mem, on) /\ on \in Ownership /\ Represents(mem, on, Lists)
  BY RInvGives
<1>2. on[e] # NoList /\ g \in Heads /\ e # root
  BY DEF ListMove, ListMoveTail, Listed
<1>3. Abstract!IsListed(root)
  BY <1>1, <1>2, ListedIs
<1>4. CASE ListMove(e, root)
  <2>1. Represents(list_move(mem, e, root), [on EXCEPT ![e] = g], Abstract!InsertAfter(w, <<e>>, root))
    BY <1>1, <1>2, MoveRings
  <2>2. Represents(mem', on', Abstract!InsertAfter(w, <<e>>, root))
    BY <1>4, <2>1 DEF ListMove, PutOn
  <2>3. RInv' /\ Lists' = Abstract!InsertAfter(w, <<e>>, root)
    BY <2>2, StepIs
  <2> QED
    BY <1>2, <1>3, <1>4, <2>3 DEF ListMove, Calls, Abstract!Move, Abstract!Call
<1>5. CASE ListMoveTail(e, root)
  <2>0. mem.prev[root] # e
    BY <1>5 DEF ListMoveTail
  <2>1. Represents(list_move_tail(mem, e, root), [on EXCEPT ![e] = g],
                   Abstract!InsertBefore(w, <<e>>, root))
    BY <1>1, <1>2, <2>0, MoveTailRings
  <2>2. Represents(mem', on', Abstract!InsertBefore(w, <<e>>, root))
    BY <1>5, <2>1 DEF ListMoveTail, PutOn
  <2>3. RInv' /\ Lists' = Abstract!InsertBefore(w, <<e>>, root)
    BY <2>2, StepIs
  <2> QED
    BY <1>2, <1>3, <1>5, <2>3 DEF ListMoveTail, Calls, Abstract!Move, Abstract!Call
<1> QED
  BY <1>4, <1>5

(* A splice: root is where it was before the other list was emptied.       *)
Emptied(r, list) == [r EXCEPT ![list] = <<>>]

SamePlace(r, w, root, g) ==
  /\ w \in [Heads -> Seq(Entries)] /\ w[g] = r[g]
  /\ Abstract!ListOf(w, root) = g /\ Abstract!Position(w, root) = Abstract!Position(r, root)

(* Emptying another list moves nothing on this one.                        *)
LEMMA EmptiedSame ==
  ASSUME NEW m, NEW o \in Ownership, NEW r, Represents(m, o, r), NEW list \in Heads,
         NEW root \in Node, NEW g \in Heads, o[root] = g, g # list
  PROVE  SamePlace(r, Emptied(r, list), root, g)
<1> DEFINE w == Emptied(r, list)
<1>1. r \in [Heads -> Seq(Entries)]
  BY DEF Represents
<1>2. w \in [Heads -> Seq(Entries)] /\ \A h \in Heads : w[h] = IF h = list THEN <<>> ELSE r[h]
  BY <1>1 DEF Emptied
<1>3. Abstract!ListOf(r, root) = g
  BY ListOfIs
<1>4. CASE root \in Heads
  BY <1>2, <1>3, <1>4 DEF Abstract!ListOf, Abstract!Position, SamePlace
<1>5. CASE root \notin Heads
  <2>1. root \in Entries
    BY <1>5 DEF Node
  <2>2. \A h \in Heads : root \in Abstract!ToSet(r[h]) <=> o[root] = h
    BY <2>1, MembersAre
  <2>3. ~ (root \in Abstract!ToSet(<<>>))
    BY DEF Abstract!ToSet
  <2> HIDE DEF w
  <2>4. \A h \in Heads : root \in Abstract!ToSet(w[h]) <=> h = g
    BY <1>2, <2>2, <2>3
  <2>5. Abstract!ListOf(w, root) = CHOOSE h \in Heads : root \in Abstract!ToSet(w[h])
    BY <1>5 DEF Abstract!ListOf
  <2>6. Abstract!ListOf(w, root) = g
    BY <2>4, <2>5
  <2>7. w[g] = r[g]
    BY <1>2
  <2>8. Abstract!Position(w, root) = Abstract!Position(r, root)
    BY <1>3, <1>5, <2>6, <2>7 DEF Abstract!Position
  <2> QED
    BY <1>2, <2>6, <2>7, <2>8 DEF w, SamePlace
<1> QED
  BY <1>4, <1>5

(* list_splice() puts the entries behind root.                             *)
LEMMA SpliceAfter ==
  ASSUME NEW m, NEW o, Sound(m, o), NEW r, Represents(m, o, r), NEW list \in Heads,
         NEW root \in Node, NEW g \in Heads, o[root] = g, g # list
  PROVE  Represents(list_splice(m, list, root),
                    [n \in Node |-> IF o[n] = list /\ n # list THEN g ELSE o[n]],
                    Abstract!InsertAfter(Emptied(r, list), r[list], root))
<1> DEFINE w == Emptied(r, list)
<1>1. o \in Ownership
  BY DEF Sound
<1>2. PICK p : IsAt(r, g, p, root)
  BY <1>1, PlaceIn
<1>3. Represents(list_splice(m, list, root),
                 [n \in Node |-> IF o[n] = list /\ n # list THEN g ELSE o[n]],
                 Insert(w, g, p, r[list]))
  BY <1>2, SpliceRings DEF Emptied
<1>4. Abstract!ListOf(w, root) = g /\ Abstract!Position(w, root) = Abstract!Position(r, root)
  <2>1. SamePlace(r, w, root, g)
    BY <1>1, EmptiedSame
  <2> QED
    BY <2>1 DEF SamePlace
<1>5. Abstract!Position(r, root) = p
  BY <1>1, <1>2, PositionIs
<1> HIDE DEF w
<1>6. Abstract!InsertAfter(w, r[list], root) = Insert(w, g, p, r[list])
  BY <1>4, <1>5 DEF Abstract!InsertAfter, Insert
<1> QED
  BY <1>3, <1>6 DEF w

(* list_splice_tail() puts them before root.                               *)
LEMMA SpliceBefore ==
  ASSUME NEW m, NEW o, Sound(m, o), NEW r, Represents(m, o, r), NEW list \in Heads,
         NEW root \in Node, NEW g \in Heads, o[root] = g, g # list
  PROVE  Represents(list_splice_tail(m, list, root),
                    [n \in Node |-> IF o[n] = list /\ n # list THEN g ELSE o[n]],
                    Abstract!InsertBefore(Emptied(r, list), r[list], root))
<1> DEFINE w == Emptied(r, list)
<1>1. o \in Ownership
  BY DEF Sound
<1>2. PICK q : IsBefore(m, r[g], g, root, q)
  BY PlaceBefore
<1>3. IsAt(r, g, q, m.prev[root])
  BY <1>2 DEF IsBefore, IsAt
<1>4. m.prev[root] \in Node /\ o[m.prev[root]] = g
  BY PrevListed
<1>5. Represents(list_splice(m, list, m.prev[root]),
                 [n \in Node |-> IF o[n] = list /\ n # list THEN g ELSE o[n]],
                 Insert(w, g, q, r[list]))
  BY <1>3, <1>4, SpliceRings DEF Emptied
<1>6. /\ Abstract!ListOf(w, root) = g /\ Abstract!Position(w, root) = Abstract!Position(r, root)
      /\ w[g] = r[g] /\ w \in [Heads -> Seq(Entries)]
  <2>1. SamePlace(r, w, root, g)
    BY <1>1, EmptiedSame
  <2> QED
    BY <2>1 DEF SamePlace
<1>7. q = IF root \in Heads THEN Len(r[g]) ELSE Abstract!Position(r, root) - 1
  BY <1>1, <1>2, BeforeIs
<1> HIDE DEF w
<1>8. Abstract!InsertBefore(w, r[list], root) = Insert(w, g, q, r[list])
  BY <1>6, <1>7 DEF Abstract!InsertBefore, Insert
<1> QED
  BY <1>5, <1>8 DEF w, list_splice_tail

(* A list_splice() or list_splice_tail() is a Splice().                    *)
LEMMA SpliceStep ==
  ASSUME RInv, IInv', NEW list \in Heads, NEW root \in Node,
         ListSplice(list, root) \/ ListSpliceTail(list, root)
  PROVE  RInv' /\ Abstract!Splice(list, root)
<1> DEFINE g  == on[root]
           w  == Emptied(Lists, list)
           oo == [n \in Node |-> IF on[n] = list /\ n # list THEN g ELSE on[n]]
<1>1. Sound(mem, on) /\ on \in Ownership /\ Represents(mem, on, Lists)
  BY RInvGives
<1>2. g \in Heads /\ g # list
  BY DEF ListSplice, ListSpliceTail, Listed
<1>3. Abstract!IsListed(root) /\ Abstract!ListOf(Lists, root) # list
  <2>1. Abstract!IsListed(root)
    BY <1>1, <1>2, ListedIs
  <2>2. Abstract!ListOf(Lists, root) = g
    BY <1>1, <1>2, ListOfIs
  <2> QED
    BY <1>2, <2>1, <2>2
<1>4. CASE ListSplice(list, root)
  <2>1. Represents(list_splice(mem, list, root), oo, Abstract!InsertAfter(w, Lists[list], root))
    BY <1>1, <1>2, SpliceAfter
  <2>2. Represents(mem', on', Abstract!InsertAfter(w, Lists[list], root))
    BY <1>4, <2>1 DEF ListSplice, SplicedTo
  <2>3. RInv' /\ Lists' = Abstract!InsertAfter(w, Lists[list], root)
    BY <2>2, StepIs
  <2> QED
    BY <1>3, <1>4, <2>3 DEF ListSplice, Calls, Abstract!Splice, Abstract!Call, Emptied
<1>5. CASE ListSpliceTail(list, root)
  <2>1. Represents(list_splice_tail(mem, list, root), oo, Abstract!InsertBefore(w, Lists[list], root))
    BY <1>1, <1>2, SpliceBefore
  <2>2. Represents(mem', on', Abstract!InsertBefore(w, Lists[list], root))
    BY <1>5, <2>1 DEF ListSpliceTail, SplicedTo
  <2>3. RInv' /\ Lists' = Abstract!InsertBefore(w, Lists[list], root)
    BY <2>2, StepIs
  <2> QED
    BY <1>3, <1>5, <2>3 DEF ListSpliceTail, Calls, Abstract!Splice, Abstract!Call, Emptied
<1> QED
  BY <1>4, <1>5

(* Every step of the code is a step of ListSpec, and nothing is one that   *)
(* does nothing.                                                           *)
LEMMA StepRefines ==
  ASSUME MoveLast = FALSE, RInv, [Next]_vars
  PROVE  RInv' /\ [Abstract!Next]_(Abstract!vars)
<1>0. IInv'
  BY NextIInv DEF RInv
<1>1. ASSUME NEW n \in Node, ListInit(n)
      PROVE  RInv' /\ Abstract!Next
  <2>1. RInv' /\ Abstract!Reset(n)
    BY <1>0, <1>1, ResetStep
  <2> QED
    BY <2>1 DEF Abstract!Next, Abstract!Node, Node
<1>2. ASSUME NEW e \in Entries, ListDel(e) \/ ListDelInit(e)
      PROVE  RInv' /\ Abstract!Next
  <2>1. RInv' /\ Abstract!Delete(e)
    BY <1>0, <1>2, DeleteStep
  <2> QED
    BY <2>1 DEF Abstract!Next
<1>3. ASSUME NEW e \in Entries, NEW root \in Node, ListAdd(e, root) \/ ListAddTail(e, root)
      PROVE  RInv' /\ Abstract!Next
  <2>1. RInv' /\ Abstract!Add(e, root)
    BY <1>0, <1>3, AddStep
  <2> QED
    BY <2>1 DEF Abstract!Next, Abstract!Node, Node
<1>4. ASSUME NEW e \in Entries, NEW root \in Node, ListMove(e, root) \/ ListMoveTail(e, root)
      PROVE  RInv' /\ Abstract!Next
  <2>1. RInv' /\ Abstract!Move(e, root)
    BY <1>0, <1>4, MoveStep
  <2> QED
    BY <2>1 DEF Abstract!Next, Abstract!Node, Node
<1>5. ASSUME NEW list \in Heads, NEW root \in Node, ListSplice(list, root) \/ ListSpliceTail(list, root)
      PROVE  RInv' /\ Abstract!Next
  <2>1. RInv' /\ Abstract!Splice(list, root)
    BY <1>0, <1>5, SpliceStep
  <2> QED
    BY <2>1 DEF Abstract!Next, Abstract!Node, Node
<1>6. CASE UNCHANGED vars
  BY <1>0, <1>6 DEF vars, RInv, Represents, Lists, Abstract!vars
<1> QED
  BY <1>1, <1>2, <1>3, <1>4, <1>5, <1>6 DEF Next

(* Every call does to the sequences what its name says, to the list it     *)
(* names, at the place it names, and to nothing else: the pointer code of  *)
(* list.h implements ListSpec.                                             *)
THEOREM Implements ==
  ASSUME MoveLast = FALSE
  PROVE  Spec => Refinement
<1>1. Init => RInv /\ Abstract!Init
  BY InitRInv
<1>2. RInv /\ [Next]_vars => RInv' /\ [Abstract!Next]_(Abstract!vars)
  BY StepRefines
<1> QED
  BY <1>1, <1>2, PTL DEF Spec, Refinement, Abstract!Spec

-----------------------------------------------------------------------------
(* The queries.                                                            *)

(* The entries in reverse.                                                 *)
Backwards(s) == [i \in 1 .. Len(s) |-> s[Len(s) + 1 - i]]

(* prev leads through the ring in reverse.                                 *)
LEMMA BackwardsFollows ==
  ASSUME NEW m, NEW o, Sound(m, o), NEW h \in Heads, NEW s, Ring(m, o, h, s)
  PROVE  Follows(m.prev, h, Backwards(s))
<1> DEFINE l == Len(s)
           t == Backwards(s)
<1>1. s \in Seq(Entries) /\ Different(s) /\ l \in Nat /\ \A k \in 1 .. l : s[k] \in Entries
  BY DEF Ring, Follows
<1>2. \A k \in 0 .. l : m.prev[At(s, h, k + 1)] = At(s, h, k)
  BY RingPrev DEF Places
<1>3. /\ t \in Seq(Entries) /\ Len(t) = l
      /\ \A i \in 1 .. l : t[i] = s[l + 1 - i]
  <2>1. \A i \in 1 .. l : l + 1 - i \in 1 .. l
    BY <1>1
  <2>2. t \in [1 .. l -> Entries]
    BY <1>1, <2>1 DEF Backwards
  <2> QED
    BY <1>1, <2>2 DEF Backwards
<1> HIDE DEF l, t
<1>4. Different(t)
  <2>1. \A i, j \in 1 .. l : s[i] = s[j] => i = j
    BY <1>1 DEF Different, l
  <2>2. ASSUME NEW i \in 1 .. l, NEW j \in 1 .. l, t[i] = t[j]
        PROVE  i = j
    <3>1. l + 1 - i \in 1 .. l /\ l + 1 - j \in 1 .. l
      BY <1>1
    <3>2. s[l + 1 - i] = s[l + 1 - j]
      BY <1>3, <2>2
    <3>3. l + 1 - i = l + 1 - j
      BY <2>1, <3>1, <3>2
    <3> QED
      BY <1>1, <3>3
  <2> QED
    BY <1>3, <2>2 DEF Different
<1>5. ASSUME NEW k \in 0 .. l + 1
      PROVE  At(t, h, k) = At(s, h, l + 1 - k)
  <2>1. CASE k \in 1 .. l
    <3>1. l + 1 - k \in 1 .. l
      BY <1>1, <2>1
    <3>2. At(s, h, l + 1 - k) = s[l + 1 - k]
      BY <3>1 DEF At, l
    <3>3. At(t, h, k) = t[k]
      BY <1>3, <2>1 DEF At
    <3> QED
      BY <1>3, <2>1, <3>2, <3>3
  <2>2. CASE k \notin 1 .. l
    <3>1. l + 1 - k \notin 1 .. l
      BY <1>1, <2>2
    <3>2. At(s, h, l + 1 - k) = h
      BY <3>1 DEF At, l
    <3>3. At(t, h, k) = h
      BY <1>3, <2>2 DEF At
    <3> QED
      BY <3>2, <3>3
  <2> QED
    BY <2>1, <2>2
<1>6. ASSUME NEW k \in 0 .. l
      PROVE  m.prev[At(t, h, k)] = At(t, h, k + 1)
  <2>1. /\ l - k \in 0 .. l /\ l + 1 - k = (l - k) + 1 /\ l + 1 - (k + 1) = l - k
        /\ k \in 0 .. l + 1 /\ k + 1 \in 0 .. l + 1
    BY <1>1
  <2>2. At(t, h, k) = At(s, h, (l - k) + 1) /\ At(t, h, k + 1) = At(s, h, l - k)
    BY <1>5, <2>1
  <2> QED
    BY <1>2, <2>1, <2>2
<1> QED
  BY <1>3, <1>4, <1>6 DEF Follows, t

(* The first two pointers of a ring, and the pointers of its nodes, tell   *)
(* how long it is.                                                         *)
LEMMA QueriesAre ==
  ASSUME NEW m, NEW h \in Heads, NEW s, Follows(m.next, h, s)
  PROVE  /\ list_empty(m, h) <=> s = <<>>
         /\ list_singular(m, h) <=> Len(s) <= 1
         /\ \A i \in 1 .. Len(s) : list_is_last(m, s[i], h) <=> i = Len(s)
<1> DEFINE l == Len(s)
<1>1. s \in Seq(Entries) /\ Different(s) /\ l \in Nat
      /\ \A k \in 0 .. l : m.next[At(s, h, k)] = At(s, h, k + 1)
  BY DEF Follows
<1>2. \A k \in 1 .. l : s[k] # h /\ At(s, h, k) = s[k]
  BY <1>1, AtFacts
<1>3. At(s, h, 0) = h /\ At(s, h, l + 1) = h
  BY <1>1, AtFacts
<1>4. s = <<>> <=> l = 0
  BY <1>1
<1> HIDE DEF l
<1>5. m.next[h] = At(s, h, 1)
  BY <1>1, <1>3
<1>6. list_empty(m, h) <=> l = 0
  BY <1>1, <1>2, <1>3, <1>5 DEF list_empty
<1>7. list_singular(m, h) <=> l <= 1
  <2>1. CASE l = 0
    BY <1>3, <1>5, <2>1 DEF list_singular
  <2>2. CASE l # 0
    <3>1. m.next[m.next[h]] = At(s, h, 2)
      BY <1>1, <1>5, <2>2
    <3>2. CASE l = 1
      BY <1>3, <3>1, <3>2 DEF list_singular
    <3>3. CASE l # 1
      <4>1. 2 \in 1 .. l
        BY <1>1, <2>2, <3>3
      <4>2. At(s, h, 2) # h
        BY <1>2, <4>1
      <4> QED
        BY <1>1, <2>2, <3>1, <3>3, <4>2 DEF list_singular
    <3> QED
      BY <3>2, <3>3
  <2> QED
    BY <2>1, <2>2
<1>8. ASSUME NEW i \in 1 .. l
      PROVE  list_is_last(m, s[i], h) <=> i = l
  <2>1. m.next[s[i]] = At(s, h, i + 1)
    BY <1>1, <1>2
  <2>2. CASE i = l
    BY <1>3, <2>1, <2>2 DEF list_is_last
  <2>3. CASE i # l
    <3>1. i + 1 \in 1 .. l
      BY <1>1, <2>3
    <3>2. At(s, h, i + 1) # h
      BY <1>2, <3>1
    <3> QED
      BY <2>1, <2>3, <3>2 DEF list_is_last
  <2> QED
    BY <2>2, <2>3
<1> QED
  BY <1>4, <1>6, <1>7, <1>8 DEF l

(* The queries answer for the whole ring.                                  *)
LEMMA RInvQueries == RInv => QueriesAgree
<1> SUFFICES ASSUME RInv
             PROVE  QueriesAgree
  OBVIOUS
<1> DEFINE reversed == [mem EXCEPT !.next = mem.prev]
<1>1. Sound(mem, on) /\ Represents(mem, on, Lists)
  BY RInvGives
<1>2. reversed.next = mem.prev
  BY <1>1 DEF Sound, Memory
<1> HIDE DEF reversed
<1>3. ASSUME NEW h \in Heads
      PROVE  LET s == Lists[h] IN
             /\ list_foreach(reversed, h) = [i \in 1 .. Len(s) |-> s[Len(s) + 1 - i]]
             /\ list_empty(mem, h) <=> s = <<>>
             /\ list_singular(mem, h) <=> Len(s) <= 1
             /\ \A i \in 1 .. Len(s) : list_is_last(mem, s[i], h) <=> i = Len(s)
  <2> DEFINE s == Lists[h]
  <2>1. Ring(mem, on, h, s)
    BY <1>1 DEF Represents
  <2> HIDE DEF s
  <2>2. Follows(reversed.next, h, Backwards(s))
    BY <1>1, <1>2, <2>1, BackwardsFollows
  <2>3. list_foreach(reversed, h) = Backwards(s)
    BY <2>2, ForeachIs
  <2>4. Follows(mem.next, h, s)
    BY <2>1 DEF Ring
  <2>5. /\ list_empty(mem, h) <=> s = <<>>
        /\ list_singular(mem, h) <=> Len(s) <= 1
        /\ \A i \in 1 .. Len(s) : list_is_last(mem, s[i], h) <=> i = Len(s)
    BY <2>4, QueriesAre
  <2> QED
    BY <2>3, <2>5 DEF s, Backwards
<1> QED
  BY <1>3 DEF QueriesAgree, reversed

(* The queries, which look at one or two pointers, answer for the whole    *)
(* list, and a ring is the same list forwards and backwards.               *)
THEOREM QueriesTell ==
  ASSUME MoveLast = FALSE
  PROVE  Spec => []QueriesAgree
<1>1. Init => RInv
  BY InitRInv
<1>2. RInv /\ [Next]_vars => RInv'
  BY StepRefines
<1>3. RInv => QueriesAgree
  BY RInvQueries
<1> QED
  BY <1>1, <1>2, <1>3, PTL DEF Spec

=============================================================================
