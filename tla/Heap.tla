-------------------------------- MODULE Heap --------------------------------
(***************************************************************************)
(* The memory of a program that uses mgmmem.c, ldap.c, iniparser.c,        *)
(* http-i18n.c and ipaddress.c, and xalloc.h, with which they allocate.    *)
(*                                                                         *)
(* Results are blocks with a number, so that their owner can be followed.  *)
(* What a function allocates for itself has a name; a name that is left    *)
(* when the function has returned is a block that nobody frees any more.   *)
(***************************************************************************)
EXTENDS Integers, Sequences, FiniteSets

CONSTANTS
  MaxBlocks,   \* bound: results in memory
  MaxHeld      \* bound: those that the program has not freed or handed on

ASSUME HeapAssumption == {MaxBlocks, MaxHeld} \subseteq Nat

VARIABLES
  live,      \* the results that are allocated
  held,      \* those that the program has to free itself
  temps,     \* what functions have allocated for themselves
  doing,     \* the function that runs, "nothing", or "stopped" by alloc_error()
  abused,    \* a block was freed that was not there
  failed     \* a library call or an allocation has failed

heapVars == <<live, held, temps, doing, abused, failed>>

NULL == 0
Blocks == 1 .. MaxBlocks

HasRoom == live # Blocks
Fresh == CHOOSE b \in Blocks \ live : \A c \in Blocks \ live : b <= c

Idle == doing = "nothing"
Goes(f) == doing' = f
Returns == Goes("nothing")
Succeeds == UNCHANGED failed
Fails == failed' = TRUE

(* A new result, whose owner is the caller or something else.              *)
New == HasRoom /\ live' = live \cup {Fresh} /\ UNCHANGED abused
MayHold == Cardinality(held) < MaxHeld
Gives == New /\ MayHold /\ held' = held \cup {Fresh}
Keeps == UNCHANGED <<live, held, abused>>

freec(b) ==
  /\ live' = live \ {b}
  /\ abused' = (abused \/ (b # NULL /\ b \notin live))

(* It does not return: programs call abort().  X...() ends up here when    *)
(* the function that it wraps returns NULL.                                *)
alloc_error == Goes("stopped") /\ Succeeds /\ Keeps /\ UNCHANGED temps

(* The program allocates or frees one of its own blocks.                   *)
Strdup ==
  /\ Idle /\ Gives
  /\ UNCHANGED <<temps, doing, failed>>

Free(b) ==
  /\ Idle /\ b \in held
  /\ freec(b) /\ held' = held \ {b}
  /\ UNCHANGED <<temps, doing, failed>>

HeapInit ==
  /\ live = {} /\ held = {} /\ temps = {}
  /\ doing = "nothing" /\ abused = FALSE /\ failed = FALSE

=============================================================================
