------------------------------- MODULE List --------------------------------
(***************************************************************************)
(* list.h: the intrusive, circular, doubly linked list.                    *)
(*                                                                         *)
(* A list is a ring of list_head structures; one of them, the head, is not *)
(* part of an object and marks where the ring starts.  The operations are  *)
(* sequences of pointer assignments, so they are written here as operators *)
(* that take the memory "m" before the call and return the memory after    *)
(* it, one EXCEPT clause per assignment, in the order of the assignments.  *)
(* That order matters: list_move_tail() reads root->prev before            *)
(* list_del() changes it.                                                  *)
(*                                                                         *)
(* "on" is not in the code.  It is what a correct caller knows of its own  *)
(* calls: the list every list_head was last put on.  The operations never  *)
(* read it; the guards of the actions do, to state the calls a caller may  *)
(* make.                                                                   *)
(***************************************************************************)

CONSTANTS
  Heads,         \* the list_heads that are used as list roots
  Entries,       \* the list_heads that are members of objects
  LIST_POISON0,
  LIST_POISON1,
  NoList,        \* "on" of an entry after list_del()
  NoCall,        \* "op" before the first call
  DEBUG_LIST,    \* is the code built with DEBUG_LIST?
  MoveLast       \* do callers list_move_tail() the entry that is last?

Node   == Heads \cup Entries
Poison == {LIST_POISON0, LIST_POISON1}

ASSUME NodeAssumption ==
  /\ Heads \cap Entries = {}
  /\ Poison \cap Node = {}
  /\ LIST_POISON0 # LIST_POISON1
  /\ NoList \notin Node

ASSUME BuildAssumption == DEBUG_LIST \in BOOLEAN /\ MoveLast \in BOOLEAN

VARIABLES
  mem,  \* the next and prev pointers; "ok" until an assertion aborts
  on,   \* the list each list_head is on; a list_init()ed one is on its own
  op    \* the last call and its arguments

vars == <<mem, on, op>>

Memory == [next : [Node -> Node \cup Poison],
           prev : [Node -> Node \cup Poison],
           ok   : BOOLEAN]

-----------------------------------------------------------------------------
(* The assertions of a DEBUG_LIST build.                                   *)

Poisoned(m, n) == m.next[n] \in Poison \/ m.prev[n] \in Poison

(* list_validate() follows next from head until it is back.  It succeeds   *)
(* if no poison is met and prev undoes next all the way: around a set of   *)
(* nodes that head is in and next does not leave.                          *)
list_validate(m, head) ==
  \E S \in SUBSET Node :
    head \in S /\ \A x \in S : m.next[x] \in S /\ m.prev[m.next[x]] = x

(* The assertion at the top of list_empty(), list_singular() and so on.    *)
AloneBothWays(m, h) ==
  /\ ~ Poisoned(m, h)
  /\ m.next[h] = h <=> m.prev[h] = h

(* assert(): a failed one aborts the program.                              *)
assert(m, cond) == IF DEBUG_LIST /\ ~ cond THEN [m EXCEPT !.ok = FALSE] ELSE m

-----------------------------------------------------------------------------
(* The queries.                                                            *)

list_empty(m, h) == m.next[h] = h

list_singular(m, h) == m.next[m.next[h]] = h

(* Seeded fault: the previous pointer is compared.                         *)
list_is_first(m, e, root) == m.prev[e] = root

list_is_last(m, e, root) == m.next[e] = root

-----------------------------------------------------------------------------
(* The updates.  After an assertion failed nothing else is executed.       *)

list_init(m, h) == [m EXCEPT !.next[h] = h, !.prev[h] = h]

list_add(m, head, root) ==
  LET tmp     == m.next[root]
      checked == assert(m, /\ ~ Poisoned(m, root)
                           /\ \/ m.prev[head] = LIST_POISON0 /\ m.next[head] = LIST_POISON1
                              \/ AloneBothWays(m, head) /\ list_empty(m, head))
      linked  == [checked EXCEPT !.prev[tmp]  = head,
                                 !.next[head] = tmp,
                                 !.prev[head] = root,
                                 !.next[root] = head]
  IN IF checked.ok THEN assert(linked, list_validate(linked, root)) ELSE checked

list_add_tail(m, head, root) ==
  LET checked == assert(m, ~ Poisoned(m, root))
      added   == list_add(checked, head, checked.prev[root])
  IN IF ~ checked.ok THEN checked
     ELSE IF added.ok THEN assert(added, list_validate(added, root)) ELSE added

(* Seeded fault: the DEBUG_LIST build does not poison the removed entry.   *)
list_del_keeps_pointers(m, r) ==
  [m EXCEPT !.next[m.prev[r]] = m.next[r], !.prev[m.next[r]] = m.prev[r]]

(* Seeded fault: the removed entry is poisoned in every build.             *)
list_del_always_poisons(m, r) ==
  [m EXCEPT !.next[m.prev[r]] = m.next[r], !.prev[m.next[r]] = m.prev[r],
            !.prev[r] = LIST_POISON0, !.next[r] = LIST_POISON1]

list_del(m, r) ==
  LET before  == m.prev[r]
      after   == m.next[r]
      cut     == [m EXCEPT !.next[before] = after, !.prev[after] = before]
      checked == assert(cut, list_validate(cut, before) /\ list_validate(cut, after))
  IN IF DEBUG_LIST /\ checked.ok
     THEN [checked EXCEPT !.prev[r] = LIST_POISON0, !.next[r] = LIST_POISON1]
     ELSE checked

list_del_init(m, r) ==
  LET deleted == list_del(m, r)
  IN IF deleted.ok THEN list_init(deleted, r) ELSE deleted

list_move(m, head, root) ==
  LET deleted == list_del(m, head)
  IN IF deleted.ok THEN list_add(deleted, head, root) ELSE deleted

(* root->prev is an argument: it is read before list_del() runs.           *)
list_move_tail(m, head, root) == list_move(m, head, m.prev[root])

(* Seeded fault: the first spliced entry keeps its old predecessor.        *)
list_splice_half(m, list, root) ==
  IF list_empty(m, list) THEN m
  ELSE LET last == m.prev[list] first == m.next[list]
       IN list_init([m EXCEPT !.next[last]         = m.next[root],
                              !.prev[m.next[root]] = last,
                              !.next[root]         = first], list)

(* root->next is read again for the third assignment, after the second     *)
(* one: prev->next = root->next changes it when prev is root.              *)
list_splice(m, list, root) ==
  LET checked == assert(m, AloneBothWays(m, list))
      last    == m.prev[list]
      first   == m.next[list]
      joined  == [m EXCEPT !.prev[first] = root, !.next[last] = m.next[root]]
  IN IF ~ checked.ok \/ list_empty(m, list) THEN checked
     ELSE list_init([joined EXCEPT !.prev[joined.next[root]] = last,
                                   !.next[root] = first], list)

(* Seeded fault: the entries go behind root.                               *)
list_splice_at_root(m, list, root) == list_splice(m, list, root)

list_splice_tail(m, list, root) == list_splice(m, list, m.prev[root])

-----------------------------------------------------------------------------
(* The calls.  A caller adds an entry that is on no list, removes or moves *)
(* one that is linked, and names a root that is on a list.                 *)

Listed(n)  == on[n] \in Heads
Addable(e) == on[e] \in {NoList, e}

Calls(name, a, b) == mem.ok /\ op' = <<name, a, b>>

PutOn(e, list) == on' = [on EXCEPT ![e] = list]

Init ==
  /\ mem = [next |-> [n \in Node |-> n], prev |-> [n \in Node |-> n], ok |-> TRUE]
  /\ on  = [n \in Node |-> n]
  /\ op  = NoCall

ListInit(n) ==
  /\ IF n \in Heads THEN \A e \in Entries : on[e] # n ELSE Addable(n)
  /\ Calls("list_init", n, n)
  /\ mem' = list_init(mem, n)
  /\ PutOn(n, n)

ListAdd(e, root) ==
  /\ Addable(e) /\ Listed(root)
  /\ Calls("list_add", e, root)
  /\ mem' = list_add(mem, e, root)
  /\ PutOn(e, on[root])

ListAddTail(e, root) ==
  /\ Addable(e) /\ Listed(root)
  /\ Calls("list_add_tail", e, root)
  /\ mem' = list_add_tail(mem, e, root)
  /\ PutOn(e, on[root])

ListDel(e) ==
  /\ on[e] # NoList
  /\ Calls("list_del", e, e)
  /\ mem' = list_del(mem, e)
  /\ PutOn(e, NoList)

ListDelInit(e) ==
  /\ on[e] # NoList
  /\ Calls("list_del_init", e, e)
  /\ mem' = list_del_init(mem, e)
  /\ PutOn(e, e)

ListMove(e, root) ==
  /\ on[e] # NoList /\ Listed(root) /\ e # root
  /\ Calls("list_move", e, root)
  /\ mem' = list_move(mem, e, root)
  /\ PutOn(e, on[root])

(* The call that the code does not survive is made only if MoveLast says   *)
(* so: e already stands right before root.                                 *)
ListMoveTail(e, root) ==
  /\ on[e] # NoList /\ Listed(root) /\ e # root
  /\ mem.prev[root] # e \/ MoveLast
  /\ Calls("list_move_tail", e, root)
  /\ mem' = list_move_tail(mem, e, root)
  /\ PutOn(e, on[root])

SplicedTo(list, root) ==
  on' = [n \in Node |-> IF on[n] = list /\ n # list THEN on[root] ELSE on[n]]

ListSplice(list, root) ==
  /\ Listed(root) /\ on[root] # list
  /\ Calls("list_splice", list, root)
  /\ mem' = list_splice(mem, list, root)
  /\ SplicedTo(list, root)

ListSpliceTail(list, root) ==
  /\ Listed(root) /\ on[root] # list
  /\ Calls("list_splice_tail", list, root)
  /\ mem' = list_splice_tail(mem, list, root)
  /\ SplicedTo(list, root)

Next ==
  \/ \E n \in Node : ListInit(n)
  \/ \E e \in Entries : ListDel(e) \/ ListDelInit(e)
  \/ \E e \in Entries, root \in Node :
       \/ ListAdd(e, root)
       \/ ListAddTail(e, root)
       \/ ListMove(e, root)
       \/ ListMoveTail(e, root)
  \/ \E list \in Heads, root \in Node :
       \/ ListSplice(list, root)
       \/ ListSpliceTail(list, root)

Spec == Init /\ [][Next]_vars

-----------------------------------------------------------------------------
(* Properties.                                                             *)

(* The pointers and the caller's bookkeeping have their types.  A poison   *)
(* pointer is met only in a DEBUG_LIST build and only in an entry that the *)
(* caller removed and has not added again.                                 *)
Ownership == {o \in [Node -> Node \cup {NoList}] :
                /\ \A h \in Heads : o[h] = h
                /\ \A e \in Entries : o[e] \in Heads \cup {e, NoList}}

TypeOK ==
  /\ mem \in Memory
  /\ on \in Ownership
  /\ \A n \in Node : Poisoned(mem, n) => DEBUG_LIST /\ on[n] = NoList

(* Around every ring, whatever was added, moved or spliced into it, next   *)
(* and prev undo each other and never leave the ring.  In particular no    *)
(* listed node points at an entry that was removed: after list_del() or    *)
(* list_del_init() the object can be freed.                                *)
WellLinkedIn(m, o) ==
  \A n \in Node : o[n] # NoList =>
    /\ m.next[n] \in Node /\ o[m.next[n]] = o[n] /\ m.prev[m.next[n]] = n
    /\ m.prev[n] \in Node /\ o[m.prev[n]] = o[n] /\ m.next[m.prev[n]] = n

WellLinked == WellLinkedIn(mem, on)

(* No legal sequence of calls trips one of the assertions that a           *)
(* DEBUG_LIST build compiles into list_add(), list_del(), list_splice()    *)
(* and list_validate().                                                    *)
NoAssertionFails == mem.ok

============================================================================
