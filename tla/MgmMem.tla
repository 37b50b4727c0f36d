------------------------------- MODULE MgmMem -------------------------------
(***************************************************************************)
(* mgmmem.c: a pool that owns blocks and frees them when it is destroyed.  *)
(*                                                                         *)
(* Its array grows with recalloc(); numbers are those of a size_t with     *)
(* SIZE_BITS bits.                                                         *)
(***************************************************************************)
EXTENDS Heap, SafeCalloc

VARIABLES
  pool,      \* its fields, and the room in bytes that its array has
  missing    \* has a call on the pool returned NULL since mgmmem_init()?

mgmmemVars == <<pool, missing>>

ENTRY == 8    \* sizeof(struct mgmmem_entry)

(* What sizeof() gives is a size_t.                                        *)
ASSUME EntryAssumption == ENTRY <= SIZE_MAX

EmptyPool == [ready |-> TRUE, entries |-> <<>>, cnt_allocated |-> 0, room |-> 0, flags |-> {}]

MgmMemInit == pool = EmptyPool /\ missing = FALSE

mgmmem_init ==
  /\ Idle /\ ~ pool.ready
  /\ pool' = EmptyPool /\ missing' = FALSE
  /\ UNCHANGED heapVars

Entries == {pool.entries[i] : i \in DOMAIN pool.entries}

(* Seeded fault: the loop ends before the first entry.                     *)
destroy_but_first ==
  /\ Idle /\ pool.ready
  /\ live' = live \ {pool.entries[i] : i \in 2 .. Len(pool.entries)}
  /\ pool' = [pool EXCEPT !.ready = FALSE, !.entries = <<>>]
  /\ UNCHANGED <<held, temps, doing, abused, failed, missing>>

(* The fields keep their values, which nothing may use before the next     *)
(* mgmmem_init(): the model forgets the entries.                           *)
mgmmem_destroy ==
  /\ Idle /\ pool.ready
  /\ live' = live \ Entries
  /\ abused' = (abused \/ ~ (Entries \subseteq live) \/ Cardinality(Entries) # Len(pool.entries))
  /\ pool' = [pool EXCEPT !.ready = FALSE, !.entries = <<>>]
  /\ UNCHANGED <<held, temps, doing, failed, missing>>

(* Seeded fault: the number of entries is not looked at before it grows.   *)
always_grows(num) == TRUE

MayGrow(num) == num <= SIZE_MAX \div 150

new_cnt == Cast(size_t, Len(pool.entries) * 150) \div 100 + 2

Store(p, b) == pool' = [p EXCEPT !.entries = Append(@, b)] /\ Returns /\ UNCHANGED missing

(* The return of the NULL that Xrecalloc() might hand out is dead code.    *)
_mgmmem_xfer(b) ==
  \/ /\ b = NULL
     /\ pool' = [pool EXCEPT !.flags = @ \cup {"NULL_PTR"}] /\ missing' = TRUE
     /\ Returns
  \/ /\ b # NULL /\ Len(pool.entries) < pool.cnt_allocated
     /\ Store(pool, b)
  \/ /\ b # NULL /\ Len(pool.entries) >= pool.cnt_allocated /\ MayGrow(Len(pool.entries))
     /\ \E builtin \in Builtins :
          LET r == recalloc(builtin, new_cnt, ENTRY) IN
          r.ok /\ Store([pool EXCEPT !.cnt_allocated = new_cnt, !.room = r.size], b)
  \/ /\ b # NULL /\ Len(pool.entries) >= pool.cnt_allocated    \* too many, or no memory
     /\ UNCHANGED mgmmemVars /\ Goes("stopped")

(* The macro, with a block of the program or with NULL.                    *)
mgmmem_xfer(b) ==
  /\ Idle /\ pool.ready /\ b \in held \cup {NULL}
  /\ _mgmmem_xfer(b) /\ held' = held \ {b}
  /\ UNCHANGED <<live, temps, abused, failed>>

(* Seeded fault: the caller sees that the text is missing, the pool not.   *)
printf_unnoticed ==
  /\ Idle /\ pool.ready
  /\ \/ missing' = TRUE /\ Fails /\ Keeps /\ UNCHANGED <<pool, doing>>
     \/ New /\ _mgmmem_xfer(Fresh) /\ Succeeds /\ UNCHANGED held
  /\ UNCHANGED temps

mgmmem_printf ==
  /\ Idle /\ pool.ready
  /\ \/ /\ pool' = [pool EXCEPT !.flags = @ \cup {"BAD_ALLOC"}] /\ missing' = TRUE
        /\ Fails /\ Keeps /\ Returns
     \/ New /\ _mgmmem_xfer(Fresh) /\ Succeeds /\ UNCHANGED held
  /\ UNCHANGED temps

MgmMemNext ==
  \/ mgmmem_init \/ mgmmem_destroy \/ mgmmem_printf
  \/ \E b \in Blocks \cup {NULL} : mgmmem_xfer(b)

-----------------------------------------------------------------------------
(* A program that makes many calls and looks at the flags once learns      *)
(* whether all of them have succeeded since mgmmem_init().                 *)
FlagsTell == pool.ready => (missing <=> pool.flags # {})

=============================================================================
