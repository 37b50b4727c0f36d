------------------------------ MODULE ListSpec ------------------------------
(***************************************************************************)
(* What list.h promises: every head owns a sequence of entries, an entry   *)
(* is in at most one of them, and each call changes the sequences as its   *)
(* name says.  The call and its arguments are visible, so an               *)
(* implementation must not only do some insertion or removal but the one   *)
(* that was asked for.                                                     *)
(***************************************************************************)
EXTENDS Sequences, SequencesExt

CONSTANTS Heads, Entries, NoCall

VARIABLES lists, op

vars == <<lists, op>>

Node == Heads \cup Entries

IsListed(n) == n \in Heads \/ \E h \in Heads : n \in ToSet(lists[h])

(* The list n is on in the sequences "ls", and where in it: a head is at 0. *)
ListOf(ls, n)   == IF n \in Heads THEN n ELSE CHOOSE h \in Heads : n \in ToSet(ls[h])
Place(s, n)     == CHOOSE i \in 1 .. Len(s) : s[i] = n
Position(ls, n) == IF n \in Heads THEN 0 ELSE Place(ls[ListOf(ls, n)], n)

Without(ls, e) ==
  [h \in Heads |-> IF e \in ToSet(ls[h]) THEN RemoveAt(ls[h], Place(ls[h], e)) ELSE ls[h]]

(* The sequence "s" put into "ls" right behind root, or right before it.   *)
PutAt(t, at, s) == SubSeq(t, 1, at) \o s \o SubSeq(t, at + 1, Len(t))

InsertAfter(ls, s, root) ==
  [ls EXCEPT ![ListOf(ls, root)] = PutAt(@, Position(ls, root), s)]

InsertBefore(ls, s, root) ==
  [ls EXCEPT ![ListOf(ls, root)] =
     PutAt(@, IF root \in Heads THEN Len(@) ELSE Position(ls, root) - 1, s)]

Call(name, a, b) == op' = <<name, a, b>>

-----------------------------------------------------------------------------
Init == lists = [h \in Heads |-> <<>>] /\ op = NoCall

(* list_init() of something that is on no list, or heads an empty one.     *)
Reset(n) ==
  /\ Call("list_init", n, n)
  /\ IF n \in Heads THEN lists[n] = <<>> ELSE ~ IsListed(n)
  /\ UNCHANGED lists

Delete(e) ==
  /\ Call("list_del", e, e) \/ Call("list_del_init", e, e)
  /\ lists' = Without(lists, e)

Add(e, root) ==
  /\ \/ Call("list_add", e, root) /\ lists' = InsertAfter(lists, <<e>>, root)
     \/ Call("list_add_tail", e, root) /\ lists' = InsertBefore(lists, <<e>>, root)
  /\ ~ IsListed(e) /\ IsListed(root)

Move(e, root) ==
  /\ \/ Call("list_move", e, root) /\ lists' = InsertAfter(Without(lists, e), <<e>>, root)
     \/ Call("list_move_tail", e, root) /\ lists' = InsertBefore(Without(lists, e), <<e>>, root)
  /\ IsListed(root) /\ e # root

Splice(list, root) ==
  /\ LET emptied == [lists EXCEPT ![list] = <<>>]
     IN \/ Call("list_splice", list, root)
           /\ lists' = InsertAfter(emptied, lists[list], root)
        \/ Call("list_splice_tail", list, root)
           /\ lists' = InsertBefore(emptied, lists[list], root)
  /\ IsListed(root) /\ ListOf(lists, root) # list

Next ==
  \/ \E n \in Node : Reset(n)
  \/ \E e \in Entries : Delete(e)
  \/ \E e \in Entries, root \in Node : Add(e, root) \/ Move(e, root)
  \/ \E list \in Heads, root \in Node : Splice(list, root)

Spec == Init /\ [][Next]_vars

============================================================================
