------------------------------ MODULE ListLoop ------------------------------
(***************************************************************************)
(* list.h: the loops over a list, list_foreach() and list_foreach_save()   *)
(* (and the _entry variants, which follow the same pointers), with bodies  *)
(* that change lists while the loop runs.                                  *)
(*                                                                         *)
(* The macros do not say which bodies they allow; the code does.  It reads *)
(* it->next when list_foreach() advances, so the body must leave "it" on   *)
(* the list; list_foreach_save() has read it before the body, so the body  *)
(* may do what it likes with "it" but must leave "tmp" on the list.        *)
(***************************************************************************)
EXTENDS ListRings, SequencesExt

CONSTANT Nothing       \* the loop pointers while no loop runs

ASSUME NothingAssumption == Nothing \notin Node \cup Poison

VARIABLE loop

loopVars == <<mem, on, op, loop>>

NoLoop == [saving |-> FALSE, quiet |-> FALSE, head |-> Nothing, it |-> Nothing,
           tmp |-> Nothing, seen |-> <<>>, start |-> <<>>]

Running == loop.head # Nothing

-----------------------------------------------------------------------------
(* A loop whose body does nothing to a list, or takes "it" away from it,   *)
(* is called quiet.                                                        *)
Begin(head, saving, quiet) ==
  /\ ~ Running /\ mem.ok
  /\ loop' = [saving |-> saving, quiet |-> quiet, head |-> head, it |-> mem.next[head],
              tmp |-> IF saving THEN mem.next[mem.next[head]] ELSE Nothing,
              seen |-> <<>>, start |-> IF quiet THEN list_foreach(mem, head) ELSE <<>>]
  /\ UNCHANGED vars

(* Seeded fault: the saving loop advances like the other one.  A poison    *)
(* pointer leads nowhere.                                                  *)
forgets_tmp(l) == IF l.it \in Node THEN [l EXCEPT !.it = mem.next[l.it]] ELSE l

(* Seeded fault: the two assignments of the saving loop are swapped.       *)
advance_swapped(l) ==
  IF l.saving THEN [l EXCEPT !.it = l.tmp, !.tmp = mem.next[l.it]]
  ELSE [l EXCEPT !.it = mem.next[l.it]]

(* Seeded fault: "tmp" is set only once.                                   *)
tmp_not_read_again(l) ==
  IF l.saving THEN [l EXCEPT !.it = l.tmp] ELSE [l EXCEPT !.it = mem.next[l.it]]

advance(l) ==
  IF l.saving THEN [l EXCEPT !.it = l.tmp, !.tmp = mem.next[l.tmp]]
  ELSE [l EXCEPT !.it = mem.next[l.it]]

(* What a quiet loop has visited, bounded to one more than there was.      *)
Visited(l) ==
  IF l.quiet /\ Len(l.seen) <= Len(l.start) THEN Append(l.seen, l.it) ELSE l.seen

Advance ==
  /\ Running /\ loop.it # loop.head
  /\ loop' = [advance(loop) EXCEPT !.seen = Visited(loop)]
  /\ UNCHANGED vars

End ==
  /\ Running /\ loop.it = loop.head
  /\ loop' = NoLoop
  /\ UNCHANGED vars

(* A call in the body of the loop.                                         *)
Body ==
  /\ Running /\ loop.it \in Entries
  /\ Next
  /\ IF loop.saving THEN on'[loop.tmp] = loop.head ELSE on'[loop.it] = loop.head
  /\ loop.quiet => on' = [on EXCEPT ![loop.it] = on'[loop.it]] /\ on'[loop.it] # loop.head
                   /\ on[loop.it] = loop.head
  /\ UNCHANGED loop

Outside == ~ Running /\ Next /\ UNCHANGED loop

LoopInit == Init /\ loop = NoLoop

LoopNext ==
  \/ \E head \in Heads, saving, quiet \in BOOLEAN : Begin(head, saving, quiet)
  \/ Advance
  \/ End
  \/ Body
  \/ Outside

(* A loop goes on: its bodies return.                                      *)
LoopSpec == LoopInit /\ [][LoopNext]_loopVars /\ WF_loopVars(Advance \/ End)

-----------------------------------------------------------------------------
(* Properties.                                                             *)

(* The loop stands on a node of its list whenever it tests for the end,    *)
(* and a saving loop on two: it never follows a pointer of an entry that   *)
(* is gone, even if the body removed, re-added and moved entries.  "it"    *)
(* may be gone only while the body of a saving loop runs.                  *)
OnItsList ==
  Running =>
    /\ loop.saving => loop.tmp \in Node /\ on[loop.tmp] = loop.head
    /\ loop.it \in Node
    /\ ~ loop.saving => on[loop.it] = loop.head

(* A quiet loop visits the entries that were on the list when it began,    *)
(* every one, once and in order, also those it removes on the way.         *)
VisitsAll ==
  Running /\ loop.quiet =>
    /\ IsPrefix(loop.seen, loop.start)
    /\ loop.it = IF loop.seen = loop.start THEN loop.head ELSE loop.start[Len(loop.seen) + 1]

(* A quiet loop ends.                                                      *)
QuietLoopEnds == Running /\ loop.quiet ~> ~ Running

============================================================================
