------------------------------ MODULE Logging ------------------------------
(***************************************************************************)
(* logging.c and logging.h: processes that write to one log.               *)
(*                                                                         *)
(* _log_msg() takes a lock with lockf(F_LOCK, 0), writes the message with  *)
(* several calls of dprintf(), and gives the lock back with                *)
(* lockf(F_ULOCK, 0).  Both calls of lockf() are about the section from    *)
(* the file's CURRENT position to infinity; the position moves meanwhile   *)
(* if the log is a file, and stays at 0 if it is a pipe or a terminal.     *)
(* A position is counted in calls of dprintf().                            *)
(*                                                                         *)
(* The second subject is the indentation: the macros log_push() and        *)
(* log_pop() with their flag in the enclosing block, which is cleaned up   *)
(* when the block is left, and the flags L_PUSH and L_POP of a message.    *)
(***************************************************************************)
EXTENDS Integers, FiniteSets, Sequences

CONSTANTS
  Procs,        \* the processes
  Kinds,        \* of logs: a "stream" (pipe, terminal), a file that the processes "inherited",
                \* or that each of them "opened" to append to it
  Failures,     \* may lockf() be interrupted, or fail for want of memory?
  Dynamics,     \* is CONFIG_DYNAMIC_DEBUG_LEVEL set, and the level changed?
  Flags,        \* what messages are called with: "plain", "push", "pop"
  Calls,        \* bound: messages per process
  Pieces,       \* bound: calls of dprintf() per message
  Depth,        \* bound: nested blocks
  Losses        \* bound: pushes of a process that are never undone

ASSUME LoggingAssumption ==
  /\ Kinds \subseteq {"stream", "inherited", "opened"} /\ Failures \subseteq BOOLEAN
  /\ Dynamics \subseteq BOOLEAN
  /\ Flags \subseteq {"plain", "push", "pop"}
  /\ {Calls, Pieces, Depth, Losses} \subseteq Nat

VARIABLES
  kind,     \* the log's
  dynamic,  \* the build's
  fails,    \* the system's, that of Failures
  log,      \* what was written: the message of every piece
  offset,   \* the position of each process's file
  tail,     \* where the section starts that a process locked up to infinity
  left,     \* the places that it holds besides
  pc,       \* idle, locking, writing, unlocking, gone
  start,    \* where the section starts that it asks for
  todo,     \* the pieces of its message that are not written yet
  flag,     \* the flag of its message
  calls,    \* the messages it began
  intent,   \* its intent_level
  blocks,   \* the flags of the blocks it is in, the innermost last
  pushed,   \* its messages with L_PUSH for which there was none with L_POP
  unpopped, \* its blocks whose flag log_pop() cleared without undoing their push
  enabled   \* log_enabled() for the level of all these calls

system == <<kind, dynamic, fails>>
lockVars == <<tail, left>>
indentVars == <<intent, blocks, pushed, unpopped, enabled>>
vars == <<system, log, offset, lockVars, pc, start, todo, flag, calls, indentVars>>

Unlocked == -1

-----------------------------------------------------------------------------
(* lockf(), and write() on the log                                         *)

(* Another process holds a part of the section from start[p] to infinity.  *)
Conflict(p) ==
  \E q \in Procs \ {p} :
    \/ tail[q] # Unlocked
    \/ \E x \in left[q] : x >= start[p]

(* Seeded fault: one place is locked and not all.                          *)
lock_one(p) ==
  /\ left' = [left EXCEPT ![p] = @ \cup {start[p]}]
  /\ UNCHANGED tail

Lock(p) ==
  /\ tail' = [tail EXCEPT ![p] = start[p]]
  /\ UNCHANGED left

(* Seeded fault: nothing is unlocked.                                      *)
unlock_nothing(p) == UNCHANGED lockVars

(* Seeded fault: what lies before the position is unlocked.                *)
unlock_before(p) ==
  /\ tail' = [tail EXCEPT ![p] = Unlocked]
  /\ left' = [left EXCEPT ![p] = offset[p] .. offset[p] + Pieces]

(* The section from the position to infinity: what was locked before it    *)
(* remains.                                                                *)
Unlock(p) ==
  /\ tail' = [tail EXCEPT ![p] = Unlocked]
  /\ left' = [left EXCEPT ![p] =
       {x \in 0 .. offset[p] - 1 : x \in left[p] \/ (tail[p] # Unlocked /\ tail[p] <= x)}]

(* When a process ends, its locks end.                                     *)
Release(p) ==
  /\ tail' = [tail EXCEPT ![p] = Unlocked]
  /\ left' = [left EXCEPT ![p] = {}]

Move(p) ==
  offset' = [q \in Procs |-> IF kind = "inherited" \/ (kind = "opened" /\ q = p)
                              THEN Len(log') ELSE offset[q]]

-----------------------------------------------------------------------------
(* _log_msg()                                                              *)

_log_pop(n) == IF n > 0 THEN n - 1 ELSE 0

(* log_msg() with a level that is enabled, and the code up to lockf().     *)
LogMsg(p) ==
  /\ pc[p] = "idle" /\ enabled /\ calls[p] < Calls
  /\ \E f \in Flags, n \in 0 .. Pieces :
       /\ f = "pop" => pushed[p] > 0
       /\ intent' = [intent EXCEPT ![p] = IF f = "pop" THEN _log_pop(@) ELSE @]
       /\ pushed' = [pushed EXCEPT ![p] = IF f = "pop" THEN @ - 1 ELSE @]
       /\ flag' = [flag EXCEPT ![p] = f]
       /\ todo' = [todo EXCEPT ![p] = n]
  /\ start' = [start EXCEPT ![p] = offset[p]]
  /\ calls' = [calls EXCEPT ![p] = @ + 1]
  /\ pc' = [pc EXCEPT ![p] = "locking"]
  /\ UNCHANGED <<system, log, offset, lockVars, blocks, unpopped, enabled>>

(* "writing" also if there is nothing to write: a NULL format goes to the  *)
(* label finish.                                                           *)
Locked(p) ==
  /\ pc[p] = "locking" /\ ~ Conflict(p)
  /\ Lock(p)
  /\ pc' = [pc EXCEPT ![p] = "writing"]
  /\ UNCHANGED <<system, log, offset, start, todo, flag, calls, indentVars>>

(* The result of lockf() is ignored.                                       *)
LockFails(p) ==
  /\ fails /\ pc[p] = "locking"
  /\ pc' = [pc EXCEPT ![p] = "writing"]
  /\ UNCHANGED <<system, log, offset, lockVars, start, todo, flag, calls, indentVars>>

Write(p) ==
  /\ pc[p] = "writing" /\ todo[p] > 0
  /\ log' = Append(log, <<p, calls[p]>>)
  /\ Move(p)
  /\ todo' = [todo EXCEPT ![p] = @ - 1]
  /\ UNCHANGED <<system, lockVars, pc, start, flag, calls, indentVars>>

Finish(p) ==
  /\ pc[p] = "writing" /\ todo[p] = 0
  /\ Unlock(p)
  /\ intent' = [intent EXCEPT ![p] = IF flag[p] = "push" THEN @ + 1 ELSE @]
  /\ pushed' = [pushed EXCEPT ![p] = IF flag[p] = "push" THEN @ + 1 ELSE @]
  /\ pc' = [pc EXCEPT ![p] = "idle"]
  /\ UNCHANGED <<system, log, offset, start, todo, flag, calls, blocks, unpopped, enabled>>

Gone(p) ==
  /\ pc' = [pc EXCEPT ![p] = "gone"]
  /\ Release(p)
  /\ UNCHANGED <<system, log, offset, start, todo, flag, calls, indentVars>>

Exit(p) == pc[p] = "idle" /\ Gone(p)

(* It is killed, or log_transform_fmt() fails and _log_msg() aborts.       *)
Abort(p) == pc[p] \in {"locking", "writing"} /\ Gone(p)

-----------------------------------------------------------------------------
(* The macros for blocks                                                   *)

Indents(p) == pc[p] = "idle" /\ UNCHANGED <<system, log, offset, lockVars, pc, start, todo, flag, calls>>

(* log_push(): the level is looked at twice, once for the push and once    *)
(* for the flag; nothing changes it in between.                            *)
log_push(p) ==
  /\ Indents(p) /\ Len(blocks[p]) < Depth
  /\ intent' = [intent EXCEPT ![p] = IF enabled THEN @ + 1 ELSE @]
  /\ blocks' = [blocks EXCEPT ![p] = Append(@, enabled)]
  /\ UNCHANGED <<pushed, unpopped, enabled>>

Innermost(p) == blocks[p][Len(blocks[p])]

(* Seeded fault: the flag stays, the block is left with a second pop.      *)
pop_twice(p) ==
  /\ Indents(p) /\ blocks[p] # <<>>
  /\ intent' = [intent EXCEPT ![p] = IF enabled THEN _log_pop(@) ELSE @]
  /\ UNCHANGED <<blocks, pushed, unpopped, enabled>>

(* log_pop(), once in a block unless the level changes.  The flag is       *)
(* cleared whatever the level is, the indentation goes back only if the    *)
(* level is enabled now: a block that pushed when it was enabled, and      *)
(* calls this when it is not, leaves its push behind.                      *)
log_pop(p) ==
  /\ Indents(p) /\ blocks[p] # <<>>
  /\ dynamic \/ Innermost(p) = enabled
  /\ Innermost(p) /\ ~ enabled => unpopped[p] < Losses
  /\ intent' = [intent EXCEPT ![p] = IF enabled THEN _log_pop(@) ELSE @]
  /\ unpopped' = [unpopped EXCEPT ![p] = IF Innermost(p) /\ ~ enabled THEN @ + 1 ELSE @]
  /\ blocks' = [blocks EXCEPT ![p][Len(blocks[p])] = FALSE]
  /\ UNCHANGED <<pushed, enabled>>

(* Seeded fault: the level decides again when the block is left.           *)
destruct_if_enabled(p) ==
  /\ Indents(p) /\ blocks[p] # <<>>
  /\ intent' = [intent EXCEPT ![p] = IF enabled /\ Innermost(p) THEN _log_pop(@) ELSE @]
  /\ blocks' = [blocks EXCEPT ![p] = SubSeq(@, 1, Len(@) - 1)]
  /\ UNCHANGED <<pushed, unpopped, enabled>>

_trace_destructor(p) ==
  /\ Indents(p) /\ blocks[p] # <<>>
  /\ intent' = [intent EXCEPT ![p] = IF Innermost(p) THEN _log_pop(@) ELSE @]
  /\ blocks' = [blocks EXCEPT ![p] = SubSeq(@, 1, Len(@) - 1)]
  /\ UNCHANGED <<pushed, unpopped, enabled>>

_log_reset(p) ==
  /\ dynamic /\ Indents(p)
  /\ intent' = [intent EXCEPT ![p] = 0]
  /\ unpopped' = [unpopped EXCEPT ![p] = 0]
  /\ UNCHANGED <<blocks, pushed, enabled>>

(* The program changes the level that _log_get_debug_level() returns.      *)
SetLevel ==
  /\ dynamic
  /\ enabled' = ~ enabled
  /\ UNCHANGED <<system, log, offset, lockVars, pc, start, todo, flag, calls, intent, blocks, pushed, unpopped>>

-----------------------------------------------------------------------------
Init ==
  /\ kind \in Kinds /\ dynamic \in Dynamics /\ fails \in Failures
  /\ log = <<>> /\ offset = [p \in Procs |-> 0]
  /\ tail = [p \in Procs |-> Unlocked] /\ left = [p \in Procs |-> {}]
  /\ pc = [p \in Procs |-> "idle"] /\ start = [p \in Procs |-> 0]
  /\ todo = [p \in Procs |-> 0] /\ flag = [p \in Procs |-> "plain"]
  /\ calls = [p \in Procs |-> 0]
  /\ intent = [p \in Procs |-> 0] /\ blocks = [p \in Procs |-> <<>>]
  /\ pushed = [p \in Procs |-> 0] /\ unpopped = [p \in Procs |-> 0] /\ enabled \in BOOLEAN

Next ==
  \/ SetLevel
  \/ \E p \in Procs :
       \/ LogMsg(p) \/ Locked(p) \/ LockFails(p) \/ Write(p) \/ Finish(p)
       \/ Exit(p) \/ Abort(p)
       \/ log_push(p) \/ log_pop(p) \/ _trace_destructor(p) \/ _log_reset(p)

Spec == Init /\ [][Next]_vars

(* Processes go on with a message, and the system grants a lock that       *)
(* nobody holds.                                                           *)
FairSpec ==
  Spec /\ \A p \in Procs : WF_vars(Locked(p)) /\ WF_vars(Write(p)) /\ WF_vars(Finish(p))

(* Besides, processes that log to a file end some time.                    *)
EndingSpec == FairSpec /\ \A p \in Procs : WF_vars(kind # "stream" /\ Exit(p))

-----------------------------------------------------------------------------
(* Properties                                                              *)

Flagged(p) == Cardinality({i \in DOMAIN blocks[p] : blocks[p][i]})

(* What the variables hold; a process asks for a section that does not     *)
(* start behind the end of the log, and keeps no place that does.          *)
TypeOK ==
  /\ log \in Seq(Procs \X (1 .. Calls))
  /\ \A p \in Procs :
       /\ pc[p] \in {"idle", "locking", "writing", "gone"} /\ flag[p] \in Flags \cup {"plain"}
       /\ todo[p] \in 0 .. Pieces /\ calls[p] \in 0 .. Calls
       /\ start[p] \in 0 .. Len(log) /\ offset[p] \in 0 .. Len(log)
       /\ \A x \in left[p] : x < Len(log)
       /\ tail[p] \in (0 .. Len(log)) \cup {Unlocked}
       /\ blocks[p] \in Seq(BOOLEAN) /\ Len(blocks[p]) <= Depth

(* The pieces of a message follow each other in the log, whatever the kind *)
(* of log and whoever died in the middle, unless lockf() itself failed.    *)
LinesDoNotMix ==
  ~ fails =>
    \A i, j \in DOMAIN log : i < j /\ log[i] = log[j] => \A k \in i .. j : log[k] = log[i]

(* If the level does not change, the indentation is that of the open       *)
(* blocks and messages: every push has its pop, on every way out of a      *)
(* block.  If it changes, what a block or a message pushed is undone when  *)
(* it ends all the same, and only the blocks remain that called log_pop()  *)
(* while the level was off.                                                *)
IndentSound ==
  \A p \in Procs :
    /\ intent[p] <= Flagged(p) + pushed[p] + unpopped[p]
    /\ ~ dynamic => intent[p] = Flagged(p) + pushed[p]

(* A message is finished, and no two processes wait for each other.  For a *)
(* file this takes the end of the processes that wrote before: F_ULOCK     *)
(* does not unlock what F_LOCK locked once the position has moved.         *)
CallReturns == \A p \in Procs : (pc[p] \in {"locking", "writing"}) ~> (pc[p] \in {"idle", "gone"})

(* With a NULL format, _log_msg() is to "skip output and honor L_POP and   *)
(* L_PUSH only": it waits for nobody.                                      *)
NullOnlyPushesAndPops ==
  \A p \in Procs : (pc[p] = "locking" /\ todo[p] = 0) ~> (pc[p] \in {"idle", "gone"})

=============================================================================
