----------------------------- MODULE ListRings ------------------------------
(***************************************************************************)
(* The refinement of ListSpec by List: the abstract sequence of a head is  *)
(* what list_foreach() visits when it follows the next pointers.           *)
(***************************************************************************)
EXTENDS List, Naturals, Sequences, FiniteSetsExt

(* A program has finitely many list_heads.                                 *)
ASSUME FiniteAssumption == IsFiniteSet(Node)

(* list_foreach(): from head->next until head is met again.  A ring that   *)
(* does not lead back is shown as <<NoList>>, which is no list of entries. *)
list_foreach(m, head) ==
  LET node[k \in 0 .. Cardinality(Node)] ==
        IF k = 0 THEN head
        ELSE IF node[k - 1] \in Node THEN m.next[node[k - 1]] ELSE node[k - 1]
      back == {k \in 1 .. Cardinality(Node) : node[k] = head}
  IN IF back = {} THEN <<NoList>> ELSE [k \in 1 .. Min(back) - 1 |-> node[k]]

Lists == [h \in Heads |-> list_foreach(mem, h)]

Abstract == INSTANCE ListSpec WITH lists <- Lists

(* Every call does to the sequences exactly what its name says, to the     *)
(* list it names, at the place it names, and to nothing else.              *)
Refinement == Abstract!Spec

(* Walking a ring backwards gives the entries in reverse, and the three    *)
(* queries, which look at one or two pointers only, answer for the whole   *)
(* list: list_empty() and list_is_last() exactly, list_singular() for at   *)
(* most one entry (it holds of an empty list, too).                        *)
QueriesAgree ==
  LET reversed == [mem EXCEPT !.next = mem.prev]
  IN \A h \in Heads :
       LET s == Lists[h] IN
       /\ list_foreach(reversed, h) = [i \in 1 .. Len(s) |-> s[Len(s) + 1 - i]]
       /\ list_empty(mem, h) <=> s = <<>>
       /\ list_singular(mem, h) <=> Len(s) <= 1
       /\ \A i \in 1 .. Len(s) : list_is_last(mem, s[i], h) <=> i = Len(s)

============================================================================
