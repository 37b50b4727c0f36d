--------------------------- MODULE LoggingProofs ---------------------------
(***************************************************************************)
(* Proofs about Logging for any number of processes, messages and pieces,  *)
(* and for every kind of log.                                              *)
(***************************************************************************)
EXTENDS Logging, FiniteSetTheorems, TLAPS

Message == Procs \X (1 .. Calls)

States == {"idle", "locking", "writing", "gone"}

(* The functions have their ranges; TypeOK is what remains to be said.     *)
Functions ==
  /\ log \in Seq(Message)
  /\ offset \in [Procs -> Nat] /\ start \in [Procs -> Nat]
  /\ tail \in [Procs -> Nat \cup {Unlocked}] /\ left \in [Procs -> SUBSET Nat]
  /\ pc \in [Procs -> States] /\ flag \in [Procs -> Flags \cup {"plain"}]
  /\ todo \in [Procs -> 0 .. Pieces] /\ calls \in [Procs -> 0 .. Calls]
  /\ blocks \in [Procs -> Seq(BOOLEAN)] /\ enabled \in BOOLEAN

(* Nothing that a position is compared with lies behind the end of the     *)
(* log; a message that is begun is counted.                                *)
Bounds ==
  \A p \in Procs :
    /\ offset[p] <= Len(log) /\ start[p] <= Len(log)
    /\ tail[p] <= Len(log)
    /\ \A x \in left[p] : x < Len(log)
    /\ pc[p] \in {"locking", "writing"} => calls[p] > 0
    /\ Len(blocks[p]) <= Depth

TypeInv == Functions /\ Bounds

(* A section that reaches to infinity excludes all others: at most one     *)
(* process has one, and who writes has one.                                *)
OneWriter ==
  /\ \A p, q \in Procs : tail[p] # Unlocked /\ tail[q] # Unlocked => p = q
  /\ \A p \in Procs : pc[p] = "writing" => tail[p] # Unlocked

Current(p) == <<p, calls[p]>>

(* The pieces of a message are a block; only that of the writer can grow,  *)
(* and it is the last one; a message that waits for the lock has none; and *)
(* no message is in the log before it was begun.                           *)
Blocks ==
  /\ \A i, j \in DOMAIN log : i < j /\ log[i] = log[j] => \A k \in i .. j : log[k] = log[i]
  /\ \A i \in DOMAIN log : log[i][2] <= calls[log[i][1]]
  /\ \A p \in Procs : pc[p] = "locking" => \A i \in DOMAIN log : log[i] # Current(p)
  /\ \A p \in Procs : pc[p] = "writing" =>
       \A i \in DOMAIN log : log[i] = Current(p) => log[Len(log)] = Current(p)

IInv == TypeInv /\ (~ fails => OneWriter /\ Blocks)

-----------------------------------------------------------------------------
LEMMA InitIInv == Init => IInv
<1> SUFFICES ASSUME Init PROVE IInv
  OBVIOUS
<1>1. TypeInv
  BY LoggingAssumption DEF Init, TypeInv, Functions, Bounds, Unlocked, States
<1>2. OneWriter /\ Blocks
  BY DEF Init, OneWriter, Blocks, Unlocked
<1> QED
  BY <1>1, <1>2 DEF IInv

(* The steps between the messages leave all of this alone.                 *)
LEMMA FunctionsStep ==
  ASSUME TypeInv, [Next]_vars
  PROVE  Functions'
<1> USE LoggingAssumption DEF Functions, Bounds, States, Message, Unlocked
<1>1. ASSUME NEW p \in Procs, LogMsg(p)
      PROVE  Functions'
  BY <1>1, SMTT(60) DEF TypeInv, LogMsg, lockVars
<1>2. ASSUME NEW p \in Procs, Locked(p) \/ LockFails(p)
      PROVE  Functions'
  BY <1>2 DEF TypeInv, Locked, LockFails, Lock, lockVars, indentVars
<1>3. ASSUME NEW p \in Procs, Write(p)
      PROVE  Functions'
  <2> DEFINE m == <<p, calls[p]>>
  <2>1. m \in Message
    BY <1>3 DEF TypeInv, Write
  <2> HIDE DEF m, Message
  <2>2. log' = Append(log, m) /\ log' \in Seq(Message) /\ Len(log') \in Nat
    BY <1>3, <2>1 DEF TypeInv, Write, m
  <2>3. offset' \in [Procs -> Nat]
    BY <1>3, <2>2 DEF TypeInv, Write, Move
  <2>4. todo' \in [Procs -> 0 .. Pieces]
    BY <1>3 DEF TypeInv, Write
  <2>5. UNCHANGED <<start, tail, left, pc, flag, calls, blocks, enabled>>
    BY <1>3 DEF Write, lockVars, indentVars
  <2> QED
    BY <2>2, <2>3, <2>4, <2>5 DEF TypeInv
<1>4. ASSUME NEW p \in Procs, Finish(p)
      PROVE  Functions'
  <2> DEFINE L == {x \in 0 .. offset[p] - 1 : x \in left[p] \/ (tail[p] # Unlocked /\ tail[p] <= x)}
  <2>1. L \in SUBSET Nat
    BY DEF TypeInv
  <2>2. left' = [left EXCEPT ![p] = L]
    BY <1>4 DEF Finish, Unlock
  <2> HIDE DEF L, Message
  <2>3. left' \in [Procs -> SUBSET Nat]
    BY <2>1, <2>2 DEF TypeInv
  <2>4. tail' \in [Procs -> Nat \cup {Unlocked}] /\ pc' \in [Procs -> States]
    BY <1>4 DEF TypeInv, Finish, Unlock
  <2>5. UNCHANGED <<log, offset, start, todo, flag, calls, blocks, enabled>>
    BY <1>4 DEF Finish
  <2> QED
    BY <2>3, <2>4, <2>5 DEF TypeInv
<1>5. ASSUME NEW p \in Procs, Exit(p) \/ Abort(p)
      PROVE  Functions'
  BY <1>5 DEF TypeInv, Exit, Abort, Gone, Release, indentVars
<1>6. ASSUME NEW p \in Procs, log_push(p)
      PROVE  Functions'
  <2>1. blocks' \in [Procs -> Seq(BOOLEAN)]
    BY <1>6 DEF TypeInv, log_push
  <2> QED
    BY <1>6, <2>1 DEF TypeInv, log_push, Indents, lockVars
<1>7. ASSUME NEW p \in Procs, log_pop(p) \/ _trace_destructor(p)
      PROVE  Functions'
  <2>1. blocks' \in [Procs -> Seq(BOOLEAN)]
    <3>1. blocks[p] \in Seq(BOOLEAN) /\ blocks[p] # <<>>
      BY <1>7 DEF TypeInv, log_pop, _trace_destructor, Innermost
    <3>2. SubSeq(blocks[p], 1, Len(blocks[p]) - 1) \in Seq(BOOLEAN)
      BY <3>1
    <3>3. [blocks[p] EXCEPT ![Len(blocks[p])] = FALSE] \in Seq(BOOLEAN)
      BY <3>1
    <3> QED
      BY <1>7, <3>2, <3>3, ZenonT(60) DEF TypeInv, log_pop, _trace_destructor, Innermost
  <2> QED
    BY <1>7, <2>1 DEF TypeInv, log_pop, _trace_destructor, Innermost, Indents, lockVars
<1>8. ASSUME NEW p \in Procs, _log_reset(p)
      PROVE  Functions'
  BY <1>8 DEF TypeInv, _log_reset, Indents, lockVars
<1>9. CASE SetLevel
  BY <1>9 DEF TypeInv, SetLevel, lockVars
<1>10. CASE UNCHANGED vars
  BY <1>10 DEF TypeInv, vars, lockVars, indentVars
<1> QED
  BY <1>1, <1>2, <1>3, <1>4, <1>5, <1>6, <1>7, <1>8, <1>9, <1>10 DEF Next

LEMMA BoundsStep ==
  ASSUME TypeInv, [Next]_vars
  PROVE  Bounds'
<1> USE LoggingAssumption DEF Functions, Bounds, States, Message, Unlocked
<1>1. ASSUME NEW p \in Procs, LogMsg(p)
      PROVE  Bounds'
  BY <1>1, SMTT(60) DEF TypeInv, LogMsg, lockVars
<1>2. ASSUME NEW p \in Procs, Locked(p) \/ LockFails(p)
      PROVE  Bounds'
  BY <1>2 DEF TypeInv, Locked, LockFails, Lock, lockVars, indentVars
<1>3. ASSUME NEW p \in Procs, Write(p)
      PROVE  Bounds'
  <2>1. Len(log') = Len(log) + 1
    BY <1>3 DEF TypeInv, Write
  <2>2. \A q \in Procs : offset'[q] <= Len(log')
    BY <1>3, <2>1, SMTT(60) DEF TypeInv, Write, Move
  <2>3. UNCHANGED <<start, tail, left, pc, calls, blocks>>
    BY <1>3 DEF Write, lockVars, indentVars
  <2>4. Len(log) \in Nat
    BY DEF TypeInv
  <2>5. ASSUME NEW q \in Procs
        PROVE  /\ start'[q] <= Len(log') /\ tail'[q] <= Len(log')
               /\ \A x \in left'[q] : x < Len(log')
    <3>1. /\ start[q] \in Nat /\ tail[q] \in Int /\ left[q] \subseteq Nat
          /\ start[q] <= Len(log) /\ tail[q] <= Len(log) /\ \A x \in left[q] : x < Len(log)
      BY SMTT(60) DEF TypeInv
    <3> HIDE DEF Functions, Bounds, Message
    <3> QED
      BY <2>1, <2>3, <2>4, <3>1
  <2>6. ASSUME NEW q \in Procs
        PROVE  /\ pc'[q] \in {"locking", "writing"} => calls'[q] > 0
               /\ Len(blocks'[q]) <= Depth
    BY <2>3 DEF TypeInv
  <2> HIDE DEF Message, Functions
  <2> QED
    BY <2>2, <2>5, <2>6
<1>4. ASSUME NEW p \in Procs, Finish(p)
      PROVE  Bounds'
  BY <1>4, SMTT(60) DEF TypeInv, Finish, Unlock
<1>5. ASSUME NEW p \in Procs, Exit(p) \/ Abort(p)
      PROVE  Bounds'
  <2>1. UNCHANGED <<log, offset, start, calls, blocks>>
    BY <1>5 DEF Exit, Abort, Gone, indentVars
  <2>2. \A q \in Procs : /\ pc'[q] \in {"locking", "writing"} => pc[q] = pc'[q]
                         /\ tail'[q] \in {tail[q], Unlocked} /\ left'[q] \subseteq left[q]
    BY <1>5 DEF TypeInv, Exit, Abort, Gone, Release
  <2> SUFFICES ASSUME NEW q \in Procs
               PROVE  /\ offset[q] <= Len(log) /\ start[q] <= Len(log) /\ tail'[q] <= Len(log)
                      /\ \A x \in left'[q] : x < Len(log)
                      /\ pc'[q] \in {"locking", "writing"} => calls[q] > 0
                      /\ Len(blocks[q]) <= Depth
    BY <2>1
  <2>3. Len(log) \in Nat
    BY DEF TypeInv
  <2>4. /\ offset[q] <= Len(log) /\ start[q] <= Len(log) /\ tail[q] <= Len(log)
        /\ \A x \in left[q] : x < Len(log)
        /\ pc[q] \in {"locking", "writing"} => calls[q] > 0
        /\ Len(blocks[q]) <= Depth
    BY DEF TypeInv
  <2> HIDE DEF Functions, Bounds
  <2> QED
    BY <2>2, <2>3, <2>4
<1>6. ASSUME NEW p \in Procs, log_push(p)
      PROVE  Bounds'
  <2>1. \A q \in Procs : Len(blocks'[q]) <= Depth
    BY <1>6 DEF TypeInv, log_push
  <2> QED
    BY <1>6, <2>1 DEF TypeInv, log_push, Indents, lockVars
<1>7. ASSUME NEW p \in Procs, log_pop(p) \/ _trace_destructor(p)
      PROVE  Bounds'
  <2>1. blocks[p] \in Seq(BOOLEAN) /\ blocks[p] # <<>>
    BY <1>7 DEF TypeInv, log_pop, _trace_destructor, Innermost
  <2>2. Len(SubSeq(blocks[p], 1, Len(blocks[p]) - 1)) <= Depth
    BY <2>1 DEF TypeInv
  <2>3. Len([blocks[p] EXCEPT ![Len(blocks[p])] = FALSE]) <= Depth
    BY <2>1 DEF TypeInv
  <2>4. \A q \in Procs : Len(blocks'[q]) <= Depth
    BY <1>7, <2>2, <2>3 DEF TypeInv, log_pop, _trace_destructor, Innermost
  <2> QED
    BY <1>7, <2>4 DEF TypeInv, log_pop, _trace_destructor, Innermost, Indents, lockVars
<1>8. ASSUME NEW p \in Procs, _log_reset(p)
      PROVE  Bounds'
  BY <1>8 DEF TypeInv, _log_reset, Indents, lockVars
<1>9. CASE SetLevel
  BY <1>9 DEF TypeInv, SetLevel, lockVars
<1>10. CASE UNCHANGED vars
  BY <1>10 DEF TypeInv, vars, lockVars, indentVars
<1> QED
  BY <1>1, <1>2, <1>3, <1>4, <1>5, <1>6, <1>7, <1>8, <1>9, <1>10 DEF Next

(* Who gets the lock gets it alone.                                        *)
LEMMA OneWriterStep ==
  ASSUME ~ fails, TypeInv, OneWriter, [Next]_vars
  PROVE  OneWriter'
<1> USE DEF TypeInv, Functions, OneWriter, States, Unlocked
<1>1. ASSUME NEW p \in Procs, Locked(p)
      PROVE  OneWriter'
  BY <1>1 DEF Locked, Lock, Conflict
<1>2. ASSUME NEW p \in Procs, LogMsg(p) \/ Write(p)
      PROVE  OneWriter'
  BY <1>2, SMTT(60) DEF LogMsg, Write, lockVars
<1>3. ASSUME NEW p \in Procs, Finish(p)
      PROVE  OneWriter'
  BY <1>3 DEF Finish, Unlock
<1>4. ASSUME NEW p \in Procs, Exit(p) \/ Abort(p)
      PROVE  OneWriter'
  BY <1>4 DEF Exit, Abort, Gone, Release
<1>5. ASSUME NEW p \in Procs, log_push(p) \/ log_pop(p) \/ _trace_destructor(p) \/ _log_reset(p)
      PROVE  OneWriter'
  BY <1>5 DEF log_push, log_pop, _trace_destructor, _log_reset, Indents, lockVars
<1>6. CASE SetLevel \/ UNCHANGED vars
  BY <1>6 DEF SetLevel, vars, lockVars
<1> QED
  BY <1>1, <1>2, <1>3, <1>4, <1>5, <1>6 DEF Next, LockFails

(* Pairs of a process and a number, to be compared by their parts.         *)
LEMMA MessageParts ==
  ASSUME TypeInv, NEW i \in DOMAIN log
  PROVE  /\ log[i] \in Message /\ log[i][1] \in Procs /\ log[i][2] \in 1 .. Calls
         /\ log[i] = <<log[i][1], log[i][2]>>
<1>1. log[i] \in Message
  <2> HIDE DEF Message
  <2> QED
    BY DEF TypeInv, Functions
<1> QED
  BY <1>1 DEF Message

(* A message that has not begun has no pieces.                             *)
LEMMA NewMessage ==
  ASSUME TypeInv, Blocks, NEW p \in Procs, NEW i \in DOMAIN log
  PROVE  log[i] # <<p, calls[p] + 1>>
<1>1. log[i][2] <= calls[log[i][1]]
  BY DEF Blocks
<1>2. calls[p] \in Nat
  BY LoggingAssumption DEF TypeInv, Functions
<1> SUFFICES ASSUME log[i] = <<p, calls[p] + 1>> PROVE FALSE
  OBVIOUS
<1>3. log[i][1] = p /\ log[i][2] = calls[p] + 1
  OBVIOUS
<1> QED
  BY <1>1, <1>2, <1>3

(* Only the last message in the log grows.                                 *)
LEMMA BlocksStep ==
  ASSUME ~ fails, TypeInv, OneWriter, Blocks, [Next]_vars
  PROVE  Blocks'
<1>1. ASSUME NEW p \in Procs, LogMsg(p)
      PROVE  Blocks'
  <2>1. log' = log /\ calls' = [calls EXCEPT ![p] = @ + 1] /\ pc' = [pc EXCEPT ![p] = "locking"]
    BY <1>1 DEF LogMsg
  <2>2. calls \in [Procs -> Nat] /\ pc \in [Procs -> States]
    BY LoggingAssumption DEF TypeInv, Functions
  <2>3. \A i \in DOMAIN log : log[i][2] <= calls'[log[i][1]]
    <3> SUFFICES ASSUME NEW i \in DOMAIN log PROVE log[i][2] <= calls'[log[i][1]]
      OBVIOUS
    <3>1. log[i][1] \in Procs /\ log[i][2] \in Nat /\ log[i][2] <= calls[log[i][1]]
      BY MessageParts DEF Blocks
    <3> QED
      BY <2>1, <2>2, <3>1
  <2>4. \A q \in Procs \ {p} : pc'[q] = pc[q] /\ calls'[q] = calls[q]
    BY <2>1, <2>2
  <2>5. pc'[p] = "locking" /\ calls'[p] = calls[p] + 1
    BY <2>1, <2>2
  <2>6. \A i \in DOMAIN log : log[i] # <<p, calls'[p]>>
    BY <2>5, NewMessage
  <2>7. \A q \in Procs : pc'[q] = "locking" => \A i \in DOMAIN log : log[i] # <<q, calls'[q]>>
    BY <2>4, <2>6 DEF Blocks, Current
  <2>8. \A q \in Procs : pc'[q] = "writing" =>
          \A i \in DOMAIN log : log[i] = <<q, calls'[q]>> => log[Len(log)] = <<q, calls'[q]>>
    BY <2>4, <2>5 DEF Blocks, Current
  <2>9. \A i, j \in DOMAIN log : i < j /\ log[i] = log[j] => \A k \in i .. j : log[k] = log[i]
    BY DEF Blocks
  <2> QED
    BY <2>1, <2>3, <2>7, <2>8, <2>9 DEF Blocks, Current
<1>2. ASSUME NEW p \in Procs, Locked(p)
      PROVE  Blocks'
  <2>1. UNCHANGED <<log, calls>> /\ pc[p] = "locking" /\ \A q \in Procs \ {p} : pc'[q] = pc[q]
    BY <1>2 DEF Locked, TypeInv, Functions
  <2>2. \A q \in Procs : pc'[q] = "locking" => pc[q] = "locking"
    BY <1>2, <2>1
  <2>3. \A q \in Procs : pc'[q] = "writing" => pc[q] \in {"writing", "locking"}
    BY <2>1
  <2> QED
    BY <2>1, <2>2, <2>3 DEF Blocks, Current
<1>3. ASSUME NEW p \in Procs, Write(p)
      PROVE  Blocks'
  <2> DEFINE n == Len(log)
             m == Current(p)
  <2>1. /\ pc[p] = "writing" /\ log' = Append(log, m) /\ UNCHANGED <<pc, calls>>
        /\ \A q \in Procs : pc[q] = "writing" => q = p
    BY <1>3 DEF Write, OneWriter, Current
  <2>2. m[1] = p /\ m[2] = calls[p] /\ calls[p] \in Nat
    BY LoggingAssumption DEF Current, TypeInv, Functions
  <2>3. \A i \in DOMAIN log : log[i] = m => log[n] = m
    BY <2>1 DEF Blocks
  <2>4. /\ \A q \in Procs : pc[q] = "locking" => \A i \in DOMAIN log : log[i] # Current(q)
        /\ \A q \in Procs : pc[q] = "locking" => m # Current(q)
    BY <2>1 DEF Blocks, Current
  <2>5. log \in Seq(Message)
    BY DEF TypeInv, Functions
  <2> HIDE DEF m
  <2>6. /\ n \in Nat /\ DOMAIN log = 1 .. n /\ DOMAIN log' = 1 .. n + 1
        /\ log'[n + 1] = m /\ Len(log') = n + 1
        /\ \A i \in 1 .. n : log'[i] = log[i]
    BY <2>1, <2>5
  <2>7. \A i, j \in 1 .. n : i < j /\ log[i] = log[j] => \A k \in i .. j : log[k] = log[i]
    BY <2>6 DEF Blocks
  <2> HIDE DEF n
  <2>8. \A i, j \in DOMAIN log' : i < j /\ log'[i] = log'[j] => \A k \in i .. j : log'[k] = log'[i]
    <3> SUFFICES ASSUME NEW i \in 1 .. n + 1, NEW j \in 1 .. n + 1, i < j, log'[i] = log'[j],
                        NEW k \in i .. j
                 PROVE  log'[k] = log'[i]
      BY <2>6
    <3>1. CASE j <= n
      <4>1. i \in 1 .. n /\ j \in 1 .. n /\ k \in 1 .. n
        BY <2>6, <3>1
      <4>2. log[k] = log[i]
        BY <2>6, <2>7, <4>1
      <4> QED
        BY <2>6, <4>1, <4>2
    <3>2. CASE j = n + 1
      <4>1. i \in 1 .. n /\ log[i] = m /\ log'[i] = m
        BY <3>2, <2>6
      <4>2. log[n] = m /\ n \in 1 .. n
        BY <4>1, <2>3, <2>6
      <4>3. CASE k = n + 1
        BY <4>1, <4>3, <2>6
      <4>4. CASE k \in i .. n /\ i < n
        <5>1. k \in 1 .. n /\ log[k] = log[i]
          BY <4>1, <4>2, <4>4, <2>6, <2>7
        <5> QED
          BY <5>1, <4>1, <2>6
      <4>5. CASE k = i
        BY <4>5
      <4> QED
        BY <3>2, <4>1, <4>3, <4>4, <4>5, <2>6
    <3> QED
      BY <3>1, <3>2, <2>6
  <2>9. \A i \in DOMAIN log' : log'[i][2] <= calls'[log'[i][1]]
    <3> SUFFICES ASSUME NEW i \in 1 .. n + 1 PROVE log'[i][2] <= calls[log'[i][1]]
      BY <2>1, <2>6
    <3>1. CASE i \in 1 .. n
      BY <3>1, <2>6 DEF Blocks
    <3>2. CASE i = n + 1
      BY <3>2, <2>2, <2>6
    <3> QED
      BY <3>1, <3>2, <2>6
  <2>10. \A q \in Procs : pc[q] = "locking" => \A i \in DOMAIN log' : log'[i] # Current(q)
    <3> SUFFICES ASSUME NEW q \in Procs, pc[q] = "locking", NEW i \in 1 .. n + 1
                 PROVE  log'[i] # Current(q)
      BY <2>6
    <3>1. CASE i \in 1 .. n
      BY <3>1, <2>4, <2>6
    <3>2. CASE i = n + 1
      BY <3>2, <2>4, <2>6
    <3> QED
      BY <3>1, <3>2, <2>6
  <2>11. \A q \in Procs : pc[q] = "writing" => log'[Len(log')] = Current(q)
    BY <2>1, <2>6 DEF m
  <2>12. \A q \in Procs : Current(q)' = Current(q)
    BY <2>1 DEF Current
  <2> QED
    BY <2>1, <2>8, <2>9, <2>10, <2>11, <2>12 DEF Blocks
<1>4. ASSUME NEW p \in Procs, Finish(p) \/ Exit(p) \/ Abort(p)
      PROVE  Blocks'
  BY <1>4, ZenonT(60) DEF Finish, Exit, Abort, Gone, Blocks, TypeInv, Functions, Current
<1>5. ASSUME NEW p \in Procs, log_push(p) \/ log_pop(p) \/ _trace_destructor(p) \/ _log_reset(p)
      PROVE  Blocks'
  BY <1>5 DEF log_push, log_pop, _trace_destructor, _log_reset, Indents, Blocks, Current
<1>6. CASE SetLevel \/ UNCHANGED vars
  BY <1>6 DEF SetLevel, vars, Blocks, Current
<1> QED
  BY <1>1, <1>2, <1>3, <1>4, <1>5, <1>6 DEF Next, LockFails

LEMMA Invariance == Spec => []IInv
<1>1. [Next]_vars => UNCHANGED fails
  BY DEF Next, vars, system, LogMsg, Locked, LockFails, Write, Finish, Exit, Abort, Gone,
     Indents, log_push, log_pop, _trace_destructor, _log_reset, SetLevel
<1>2. IInv /\ [Next]_vars => IInv'
  BY <1>1, FunctionsStep, BoundsStep, OneWriterStep, BlocksStep DEF IInv, TypeInv
<1> QED
  BY InitIInv, <1>2, PTL DEF Spec

-----------------------------------------------------------------------------
(* Positions, sections and messages stay in their ranges: in particular no *)
(* process asks for, or keeps, a section behind the end of the log.        *)
THEOREM TypeCorrect == Spec => []TypeOK
<1>1. IInv => TypeOK
  BY DEF IInv, TypeInv, Functions, Bounds, TypeOK, Message, States, Unlocked
<1> QED
  BY Invariance, <1>1, PTL

(* As long as lockf() does not fail, messages do not mix: not in a pipe,   *)
(* not in an inherited file and not in one that everybody opened, however  *)
(* the position moves while the lock is held, and whoever ends meanwhile.  *)
THEOREM MessagesDoNotMix == Spec => []LinesDoNotMix
<1>1. IInv => LinesDoNotMix
  BY DEF IInv, Blocks, LinesDoNotMix
<1> QED
  BY Invariance, <1>1, PTL

-----------------------------------------------------------------------------
(* The indentation                                                         *)

(* The open blocks whose flag is set: Flagged(p) counts those of p.        *)
Set(s) == {i \in DOMAIN s : s[i]}

LEMMA SetFacts ==
  ASSUME NEW s \in Seq(BOOLEAN)
  PROVE  IsFiniteSet(Set(s)) /\ Cardinality(Set(s)) \in Nat
<1>1. Len(s) \in Nat /\ Set(s) \in SUBSET (1 .. Len(s))
  BY DEF Set
<1>2. IsFiniteSet(1 .. Len(s))
  BY <1>1, FS_Interval
<1> QED
  BY <1>1, <1>2, FS_Subset, FS_CardinalityType

LEMMA PushedFlag ==
  ASSUME NEW s \in Seq(BOOLEAN), NEW b \in BOOLEAN
  PROVE  Cardinality(Set(Append(s, b))) = Cardinality(Set(s)) + (IF b THEN 1 ELSE 0)
<1> DEFINE n == Len(s) + 1   t == Append(s, b)
<1>1. n \in Nat \ {0} /\ n \notin Set(s)
  BY DEF Set
<1>2. DOMAIN t = 1 .. n /\ DOMAIN s = 1 .. n - 1 /\ t[n] = b /\ \A i \in 1 .. n - 1 : t[i] = s[i]
  OBVIOUS
<1> HIDE DEF n, t
<1>3. CASE b
  <2>1. ASSUME NEW i
        PROVE  i \in Set(t) <=> i \in Set(s) \/ i = n
    <3>1. i \in 1 .. n <=> i \in 1 .. n - 1 \/ i = n
      BY <1>1
    <3>2. t[n]
      BY <1>2, <1>3
    <3>3. i \in 1 .. n - 1 => (t[i] <=> s[i])
      BY <1>2
    <3> QED
      BY <1>2, <3>1, <3>2, <3>3 DEF Set
  <2>2. Set(t) = Set(s) \cup {n}
    BY <2>1
  <2> QED
    BY <1>1, <1>3, <2>2, SetFacts, FS_AddElement DEF t
<1>4. CASE ~ b
  <2>1. Set(t) = Set(s)
    BY <1>1, <1>2, <1>4 DEF Set
  <2> QED
    BY <1>4, <2>1, SetFacts DEF t
<1> QED
  BY <1>3, <1>4

(* The innermost block is left, or its flag is taken back.                 *)
LEMMA PoppedFlag ==
  ASSUME NEW s \in Seq(BOOLEAN), s # <<>>, NEW t,
         t = SubSeq(s, 1, Len(s) - 1) \/ t = [s EXCEPT ![Len(s)] = FALSE]
  PROVE  /\ Cardinality(Set(t)) = Cardinality(Set(s)) - (IF s[Len(s)] THEN 1 ELSE 0)
         /\ s[Len(s)] => Cardinality(Set(s)) >= 1
<1> DEFINE n == Len(s)
<1>1. n \in Nat /\ n >= 1 /\ DOMAIN s = 1 .. n
  OBVIOUS
<1>2. Set(t) = Set(s) \ {n}
  <2>1. CASE t = SubSeq(s, 1, n - 1)
    <3>1. DOMAIN t = 1 .. n - 1 /\ \A i \in 1 .. n - 1 : t[i] = s[i]
      BY <1>1, <2>1
    <3> HIDE DEF n
    <3> QED
      BY <1>1, <3>1 DEF Set
  <2>2. CASE t = [s EXCEPT ![n] = FALSE]
    <3>1. DOMAIN t = 1 .. n /\ ~ t[n]
      BY <1>1, <2>2
    <3> HIDE DEF n
    <3>2. ASSUME NEW i \in 1 .. n - 1
          PROVE  t[i] = s[i]
      <4>1. i # n /\ i \in DOMAIN s
        BY <1>1
      <4> QED
        BY <2>2, <4>1, Zenon
    <3> QED
      BY <1>1, <3>1, <3>2 DEF Set
  <2> QED
    BY <2>1, <2>2
<1>3. n \in Set(s) <=> s[n]
  BY <1>1 DEF Set
<1>4. IsFiniteSet(Set(s)) /\ Cardinality(Set(s)) \in Nat
  BY SetFacts
<1> HIDE DEF n
<1>5. Cardinality(Set(s) \ {n}) = IF n \in Set(s) THEN Cardinality(Set(s)) - 1 ELSE Cardinality(Set(s))
  BY <1>4, FS_RemoveElement
<1>6. CASE s[n]
  <2>1. Cardinality(Set(s)) # 0
    BY <1>3, <1>4, <1>6, FS_EmptySet
  <2> QED
    BY <1>2, <1>3, <1>4, <1>5, <1>6, <2>1 DEF n
<1>7. CASE ~ s[n]
  BY <1>2, <1>3, <1>4, <1>5, <1>7 DEF n
<1> QED
  BY <1>6, <1>7

(* The counters are numbers, of all processes.                             *)
Counts ==
  intent \in [Procs -> Nat] /\ pushed \in [Procs -> Nat] /\ unpopped \in [Procs -> Nat]

LEMMA CountsStep ==
  ASSUME TypeInv, Counts, [Next]_vars
  PROVE  Counts'
<1> USE DEF Counts
<1>1. \A n \in Nat : _log_pop(n) \in Nat
  BY DEF _log_pop
<1>2. ASSUME NEW p \in Procs, LogMsg(p) \/ Finish(p)
      PROVE  Counts'
  BY <1>1, <1>2 DEF LogMsg, Finish
<1>3. ASSUME NEW p \in Procs, log_push(p) \/ log_pop(p) \/ _trace_destructor(p) \/ _log_reset(p)
      PROVE  Counts'
  <2>1. intent' \in [Procs -> Nat] /\ pushed' \in [Procs -> Nat]
    <3>1. CASE log_pop(p)
      <4>1. intent' = [intent EXCEPT ![p] = IF enabled THEN _log_pop(@) ELSE @] /\ UNCHANGED pushed
        BY <3>1, Zenon DEF log_pop
      <4> QED
        BY <1>1, <4>1
    <3>2. CASE log_push(p) \/ _log_reset(p)
      BY <3>2 DEF log_push, _log_reset
    <3>3. CASE _trace_destructor(p)
      <4>1. intent' = [intent EXCEPT ![p] = IF Innermost(p) THEN _log_pop(@) ELSE @] /\ UNCHANGED pushed
        BY <3>3, Zenon DEF _trace_destructor
      <4> QED
        BY <1>1, <4>1
    <3> QED
      BY <1>3, <3>1, <3>2, <3>3
  <2>2. unpopped[p] + 1 \in Nat /\ unpopped[p] \in Nat /\ 0 \in Nat
    OBVIOUS
  <2>3. \E n \in Nat : unpopped' = [unpopped EXCEPT ![p] = n]
    <3>1. CASE log_pop(p) /\ Innermost(p) /\ ~ enabled
      BY <2>2, <3>1, Zenon DEF log_pop
    <3>2. CASE log_pop(p) /\ ~ (Innermost(p) /\ ~ enabled)
      BY <2>2, <3>2, Zenon DEF log_pop
    <3>3. CASE log_push(p) \/ _trace_destructor(p)
      BY <2>2, <3>3 DEF log_push, _trace_destructor
    <3>4. CASE _log_reset(p)
      BY <2>2, <3>4 DEF _log_reset
    <3> QED
      BY <1>3, <3>1, <3>2, <3>3, <3>4
  <2> QED
    BY <2>1, <2>3
<1>4. ASSUME NEW p \in Procs, Locked(p) \/ LockFails(p) \/ Write(p) \/ Exit(p) \/ Abort(p)
      PROVE  Counts'
  BY <1>4 DEF Locked, LockFails, Write, Exit, Abort, Gone, indentVars
<1>5. CASE SetLevel \/ UNCHANGED vars
  BY <1>5 DEF SetLevel, vars, indentVars
<1> QED
  BY <1>2, <1>3, <1>4, <1>5 DEF Next

(* What IndentSound says of a process.                                     *)
Indented(i, s, n, u) ==
  /\ i <= Cardinality(Set(s)) + n + u
  /\ ~ dynamic => i = Cardinality(Set(s)) + n

LEMMA IndentParts == IndentSound <=> \A p \in Procs : Indented(intent[p], blocks[p], pushed[p], unpopped[p])
BY DEF IndentSound, Indented, Flagged, Set

(* Only the counters of one process change.                                *)
LEMMA OthersStay ==
  ASSUME Counts, Functions, IndentSound, NEW p \in Procs, NEW i, NEW s, NEW n, NEW u,
         intent' = [intent EXCEPT ![p] = i], blocks' = [blocks EXCEPT ![p] = s],
         pushed' = [pushed EXCEPT ![p] = n], unpopped' = [unpopped EXCEPT ![p] = u],
         dynamic' = dynamic, Indented(i, s, n, u)
  PROVE  IndentSound'
<1>1. ASSUME NEW q \in Procs
      PROVE  Indented(intent'[q], blocks'[q], pushed'[q], unpopped'[q])
  <2>1. CASE q = p
    <3>1. intent'[p] = i /\ blocks'[p] = s /\ pushed'[p] = n /\ unpopped'[p] = u
      BY DEF Counts, Functions
    <3> QED
      BY <2>1, <3>1
  <2>2. CASE q # p
    <3>1. intent'[q] = intent[q] /\ blocks'[q] = blocks[q] /\ pushed'[q] = pushed[q] /\ unpopped'[q] = unpopped[q]
      BY <2>2 DEF Counts, Functions
    <3> QED
      BY <3>1, IndentParts
  <2> QED
    BY <2>1, <2>2
<1>2. \A q \in Procs : Indented(intent[q], blocks[q], pushed[q], unpopped[q])'
  BY <1>1 DEF Indented
<1> QED
  BY <1>2 DEF IndentSound, Indented, Flagged, Set

LEMMA IndentStep ==
  ASSUME TypeInv, Counts, IndentSound, [Next]_vars
  PROVE  IndentSound'
<1> DEFINE i(p) == intent[p]   s(p) == blocks[p]   n(p) == pushed[p]   u(p) == unpopped[p]   c(p) == Cardinality(Set(blocks[p]))
<1>0. Functions /\ dynamic' = dynamic
  BY DEF TypeInv, Next, vars, system, LogMsg, Locked, LockFails, Write, Finish, Exit, Abort, Gone,
     Indents, log_push, log_pop, _trace_destructor, _log_reset, SetLevel
<1>1. ASSUME NEW p \in Procs
      PROVE  /\ i(p) \in Nat /\ n(p) \in Nat /\ u(p) \in Nat /\ c(p) \in Nat /\ s(p) \in Seq(BOOLEAN)
             /\ intent \in [Procs -> Nat] /\ pushed \in [Procs -> Nat] /\ unpopped \in [Procs -> Nat]
             /\ blocks \in [Procs -> Seq(BOOLEAN)] /\ enabled \in BOOLEAN
             /\ i(p) <= c(p) + n(p) + u(p) /\ (~ dynamic => i(p) = c(p) + n(p))
  BY <1>0, SetFacts, IndentParts DEF Counts, Functions, Indented
<1>2. ASSUME NEW p \in Procs, NEW flagged \in {0, 1}, flagged <= c(p), NEW pop \in BOOLEAN,
             NEW lost \in {0, 1}, flagged = 1 /\ ~ pop => lost = 1,
             ~ dynamic => (pop <=> flagged = 1), NEW t,
             Cardinality(Set(t)) = c(p) - flagged
      PROVE  Indented(IF pop THEN _log_pop(i(p)) ELSE i(p), t, n(p), u(p) + lost)
  <2> DEFINE a == i(p)   b == n(p)   d == c(p)   e == u(p)
  <2>1. a \in Nat /\ b \in Nat /\ d \in Nat /\ e \in Nat /\ a <= d + b + e /\ (~ dynamic => a = d + b)
    BY <1>1
  <2>2. Cardinality(Set(t)) = d - flagged /\ flagged <= d
    BY <1>2
  <2> HIDE DEF a, b, d, e
  <2>3. Indented(IF pop THEN _log_pop(a) ELSE a, t, b, e + lost)
    BY <1>2, <2>1, <2>2 DEF Indented, _log_pop
  <2> QED
    BY <2>3 DEF a, b, e
<1>3. ASSUME NEW p \in Procs, LogMsg(p)
      PROVE  IndentSound'
  <2>1. UNCHANGED <<blocks, unpopped>>
    BY <1>3 DEF LogMsg
  <2>2. PICK f \in Flags :
          /\ f = "pop" => pushed[p] > 0
          /\ intent' = [intent EXCEPT ![p] = IF f = "pop" THEN _log_pop(@) ELSE @]
          /\ pushed' = [pushed EXCEPT ![p] = IF f = "pop" THEN @ - 1 ELSE @]
    BY <1>3 DEF LogMsg
  <2>3. Indented(IF f = "pop" THEN _log_pop(i(p)) ELSE i(p), s(p), IF f = "pop" THEN n(p) - 1 ELSE n(p),
               u(p))
    BY <1>1, <2>2 DEF Indented, _log_pop
  <2>4. blocks' = [blocks EXCEPT ![p] = s(p)] /\ unpopped' = [unpopped EXCEPT ![p] = u(p)]
    BY <1>1, <2>1
  <2> QED
    BY <1>0, <1>1, <2>2, <2>3, <2>4, OthersStay
<1>4. ASSUME NEW p \in Procs, Finish(p)
      PROVE  IndentSound'
  <2> DEFINE f == flag[p]
  <2>1. /\ intent' = [intent EXCEPT ![p] = IF f = "push" THEN i(p) + 1 ELSE i(p)]
        /\ pushed' = [pushed EXCEPT ![p] = IF f = "push" THEN n(p) + 1 ELSE n(p)]
        /\ blocks' = [blocks EXCEPT ![p] = s(p)] /\ unpopped' = [unpopped EXCEPT ![p] = u(p)]
    BY <1>1, <1>4 DEF Finish
  <2>2. Indented(IF f = "push" THEN i(p) + 1 ELSE i(p), s(p), IF f = "push" THEN n(p) + 1 ELSE n(p),
               u(p))
    BY <1>1 DEF Indented
  <2> QED
    BY <1>0, <2>1, <2>2, OthersStay
<1>5. ASSUME NEW p \in Procs, log_push(p)
      PROVE  IndentSound'
  <2>1. /\ intent' = [intent EXCEPT ![p] = IF enabled THEN i(p) + 1 ELSE i(p)]
        /\ blocks' = [blocks EXCEPT ![p] = Append(s(p), enabled)]
        /\ pushed' = [pushed EXCEPT ![p] = n(p)] /\ unpopped' = [unpopped EXCEPT ![p] = u(p)]
    BY <1>1, <1>5 DEF log_push
  <2>2. Cardinality(Set(Append(s(p), enabled))) = c(p) + (IF enabled THEN 1 ELSE 0)
    BY <1>1, PushedFlag
  <2>3. Indented(IF enabled THEN i(p) + 1 ELSE i(p), Append(s(p), enabled), n(p), u(p))
    BY <1>1, <2>2 DEF Indented
  <2> QED
    BY <1>0, <2>1, <2>3, OthersStay
<1>6. ASSUME NEW p \in Procs, log_pop(p) \/ _trace_destructor(p)
      PROVE  IndentSound'
  <2> DEFINE l == s(p)[Len(s(p))]
             t == IF log_pop(p) THEN [s(p) EXCEPT ![Len(s(p))] = FALSE] ELSE SubSeq(s(p), 1, Len(s(p)) - 1)
             pop == IF log_pop(p) THEN enabled ELSE l
             flagged == IF l THEN 1 ELSE 0
             lost == IF log_pop(p) /\ l /\ ~ enabled THEN 1 ELSE 0
  <2>1. s(p) # <<>> /\ (log_pop(p) => dynamic \/ l = enabled)
    BY <1>6 DEF log_pop, _trace_destructor, Innermost
  <2>2. /\ blocks' = [blocks EXCEPT ![p] = t]
        /\ intent' = [intent EXCEPT ![p] = IF pop THEN _log_pop(i(p)) ELSE i(p)]
        /\ pushed' = [pushed EXCEPT ![p] = n(p)]
        /\ unpopped' = [unpopped EXCEPT ![p] = u(p) + lost]
    <3>1. CASE log_pop(p)
      <4>1. /\ t = [s(p) EXCEPT ![Len(s(p))] = FALSE] /\ pop = enabled
            /\ lost = IF l /\ ~ enabled THEN 1 ELSE 0
        BY <3>1
      <4>2. /\ blocks' = [blocks EXCEPT ![p] = t]
            /\ intent' = [intent EXCEPT ![p] = IF pop THEN _log_pop(i(p)) ELSE i(p)]
            /\ pushed' = [pushed EXCEPT ![p] = n(p)]
        BY <1>1, <3>1, <4>1 DEF log_pop
      <4>3. unpopped' = [unpopped EXCEPT ![p] = IF l /\ ~ enabled THEN u(p) + 1 ELSE u(p)]
        BY <3>1, Zenon DEF log_pop, Innermost
      <4>4. u(p) + lost = IF l /\ ~ enabled THEN u(p) + 1 ELSE u(p)
        <5> HIDE DEF l
        <5> QED
          BY <1>1, <4>1
      <4> QED
        BY <4>2, <4>3, <4>4
    <3>2. CASE ~ log_pop(p)
      BY <1>1, <1>6, <3>2 DEF _trace_destructor, Innermost
    <3> QED
      BY <3>1, <3>2
  <2>3. Cardinality(Set(t)) = c(p) - flagged /\ (l => c(p) >= 1)
    BY <1>1, <2>1, PoppedFlag
  <2>4. flagged <= c(p)
    BY <1>1, <2>3
  <2>5. /\ pop \in BOOLEAN /\ flagged \in {0, 1} /\ lost \in {0, 1}
        /\ ~ dynamic => (pop <=> flagged = 1)
        /\ flagged = 1 /\ ~ pop => lost = 1
    BY <1>1, <2>1
  <2>6. Indented(IF pop THEN _log_pop(i(p)) ELSE i(p), t, n(p), u(p) + lost)
    <3> HIDE DEF pop, flagged, lost, t
    <3> QED
      BY <1>2, <2>3, <2>4, <2>5
  <2> HIDE DEF pop, t, lost
  <2> QED
    BY <1>0, <2>2, <2>6, OthersStay
<1>7. ASSUME NEW p \in Procs, _log_reset(p)
      PROVE  IndentSound'
  <2>1. /\ intent' = [intent EXCEPT ![p] = 0] /\ blocks' = [blocks EXCEPT ![p] = s(p)]
        /\ pushed' = [pushed EXCEPT ![p] = n(p)] /\ unpopped' = [unpopped EXCEPT ![p] = 0] /\ dynamic
    BY <1>1, <1>7 DEF _log_reset
  <2>2. Indented(0, s(p), n(p), 0)
    BY <1>1, <2>1 DEF Indented
  <2> QED
    BY <1>0, <2>1, <2>2, OthersStay
<1>8. ASSUME UNCHANGED <<intent, blocks, pushed, unpopped>>
      PROVE  IndentSound'
  BY <1>0, <1>8 DEF IndentSound, Flagged
<1> QED
  BY <1>3, <1>4, <1>5, <1>6, <1>7, <1>8
  DEF Next, Locked, LockFails, Write, Exit, Abort, Gone, SetLevel, vars, indentVars

(* While the level stays what it is, every push of the indentation has its *)
(* pop, on each way out of a block and for blocks of any depth.  While it  *)
(* changes, the indentation exceeds that of the open blocks and messages   *)
(* by no more than the blocks whose flag log_pop() cleared with the level  *)
(* off: the destructor undoes what was pushed, whatever the level is then. *)
THEOREM Balanced == Spec => []IndentSound
<1>1. Init => Counts /\ IndentSound
  <2> SUFFICES ASSUME Init PROVE Counts /\ IndentSound
    OBVIOUS
  <2>1. \A p \in Procs : {k \in DOMAIN blocks[p] : blocks[p][k]} = {}
    BY DEF Init
  <2> QED
    BY <2>1, FS_EmptySet DEF Init, Counts, IndentSound, Flagged
<1>2. IInv /\ Counts /\ IndentSound /\ [Next]_vars => (Counts /\ IndentSound)'
  BY CountsStep, IndentStep DEF IInv
<1> QED
  BY Invariance, <1>1, <1>2, PTL DEF Spec

=============================================================================
