# A TLA+ verification of ensc-lib

ensc-lib is a collection of small C helpers that other programs link or include:
an intrusive list, a growing string buffer, serialisation of values into memory
and back, reading and writing of strings over file descriptors, socket
activation and notification of systemd, a little of LDAP, configuration files
and logging.  Most of it has no threads.  What makes it hard to test is the
rest: long sequences of calls on pointer structures, sums of `size_t` that wrap,
transfers that are cut into pieces by the kernel, calls that fail in the middle
of others, and processes that fork, share a log, and end at any point.

The modules in this directory are translated from the C source.  Comments name
the file; the lines of every definition are in `PROJECT.json` under `map`, what
is hard to test under `hazards`, each at its line and with the properties that
are about it.

## Components

| component | state | operations | what is hard | what makes it correct |
|---|---|---|---|---|
| `list.h` | the `next` and `prev` pointers of all `list_head`s | init, add, add_tail, del, del_init, move, move_tail, splice, splice_tail, empty, singular, is_last | order of pointer reads and writes; callers that reuse removed entries; assertions of `DEBUG_LIST` | rings stay linked both ways, every call does to the sequence what its name says, no assertion fails |
| loops of `list.h` | the loop pointers `it`, `tmp` | `list_foreach`, `list_foreach_save` and the `_entry` forms | bodies that change the list | the loop never stands on an entry that is gone, visits every entry once, ends |
| `strbuf.h`, `xalloc.h` | `len`, `alloc`, `b` and the block | init, assign, allocate, shrink, append, to_str, xfer, clear, destroy | arithmetic in `size_t`, allocations that fail, ownership | memory safety, text intact, one owner per block, terminated strings |
| `io.c` | position of writer and reader, bytes in the pipe | write_str, read_str, read_stra, read_eof | short transfers, failures and end of file at every byte, a size computed in 32 bits | a FIFO channel of whole strings, no byte behind a buffer (with one exception, see Remarks) |
| `serialize.h` | base, cnt, allocated | serialize_{u32,u64,time_t,buf,str}, destroy | unchecked sums | what is written is what is read |
| `unserialize.h` | position in memory, or the descriptor | unserialize_{u16,u32,u64,time_t,buf,str,bufa,stra} over memory, descriptor, socket, callback | lengths that are read, failures after a part was consumed | never reads or writes outside, round trip |
| `sd-listen.c` | `LISTEN_PID`, `LISTEN_FDS`, descriptor flags | sd_listen_fds | a failure half way, inheritance of variables and descriptors | only the addressed process takes the descriptors, they are passed on to nobody |
| `sd-notify.c`, `sd-notifyf.c` | `NOTIFY_SOCKET`, a socket for the time of the call | sd_notify, sd_notifyf | every error path, a fork at the wrong time | the socket is never left behind, and no program inherits it |
| `logging.c`, `logging.h` | indentation, lock on the log file, flags of the open blocks | `_log_msg`, log_push, log_pop, the cleanup of a block | a lock that several processes share and a position that moves under it; levels that change inside of a block | messages do not mix, calls return, indentation is balanced while the level stays, and off by no more than is accounted for otherwise |
| `mgmmem.c` | an array of pointers to free, its size, flags | init, destroy, xfer, printf | growth by sizes that are computed, callers that look at no result, rounds of init and destroy | every block has one owner and is freed once, the array has room, the flags tell of every failure |
| `safe_calloc.h`, `type-utils.h` | none | product, sum and conversion with overflow checks, allocation of arrays and of flexible arrays | widths, signs, two implementations (with and without builtins) | the result is exact or refused |
| `ldap-open.c`, `ldap.c`, `ldap.h` | a connection, its uri, a string to be escaped | connect, error string, escape, the variants with a pool | six calls that fail in the middle, each with other things to release; a size that is counted and then filled | nothing is leaked or freed twice, the uri fits, a success is a connection |
| `iniparser.c`, `iniparser-pwdb.c` | the program's uid and gid | strings, expanded strings, booleans, numbers, user, group | results with two kinds of owner, conversions, words that are left over | what is allocated has an owner; an entry that is an int is returned as it is, one that is no number is the default |
| `http-i18n.c` | the locale of the process | select a language | `setlocale()` that succeeded before it is known whether there is a translation | the first language of the request that is supported is selected |
| `ipaddress.c` | none | parse an address | a string that is cut at three characters in a row | node and service are those of the text |

They interact by calls: `unserialize.h` fills a `strbuf`, `strbuf.h` and
`serialize.h` allocate through `xalloc.h`, `mgmmem.c` grows its array with
`safe_calloc.h`, `ldap.h` puts its results into a pool, `sd-notifyf.c` calls
`sd_notify()`.  State is shared between
processes: the pipe of `io.c`, the log file, the inherited descriptors and
environment.

## Modules

| module | what it is |
|---|---|
| `List` | `list.h`.  Every function is an operator on the memory `m`, with one `EXCEPT` per assignment in the order of the code; every call is an action whose guard is what the interface allows.  `on` is the caller's knowledge of where an entry is; no operation reads it. |
| `ListRings` | reads a list as the sequence from its head along `next`; the queries of the code against that sequence |
| `ListSpec` | the abstract specification: lists are sequences.  `List` implements it (`Refinement`). |
| `ListLoop` | extends `List` by a loop whose body performs any of the calls that leave it the node it needs next |
| `StrBuf` | `strbuf.h` with the heap below it; numbers wrap beyond `SizeMax`.  Text is not kept byte by byte: the model records how many leading bytes of the block are the text, and where a NUL byte is known to be. |
| `StrBufSpec` | the abstract specification: a text that grows, is handed over, is cleared.  `StrBuf` implements it. |
| `Io` | `io.c`: one step per `read()` and `write()`, a bounded pipe between the processes, failures and a close at any point |
| `StringChannel` | the abstract specification of a FIFO channel of whole strings.  `Io` implements it. |
| `Serialize`, `Unserialize` | extend `StrBuf` by a writer into memory and a reader over memory, a descriptor or a callback; `unserialize_bufa()` calls the operators of `StrBuf` |
| `SdDaemon` | `sd-listen.c`, `sd-notify.c`, `sd-notifyf.c` in a tree of processes with `fork()`, `exec()`, `open()`, `close()`, `exit()` |
| `Logging` | `logging.c` and the macros of `logging.h`: processes with the sections of the log that they hold, the pieces of a message, indentation |
| `ListProofs`, `ListLoopProofs`, `StrBufProofs`, `UnserializeProofs`, `IoProofs`, `SdDaemonProofs`, `LoggingProofs`, `ProgramProofs` | the theorems with their proofs |
| `TypeUtils` | `type-utils.h`: types as width and sign, casts, and the macros over them, once as the builtins compute and once as the fallback does |
| `SafeCalloc` | `safe_calloc.h` over a `size_t` of `SIZE_BITS` bits; every call is an action that leaves its result in `sized` |
| `Heap` | blocks with their owners (the program, or what a function allocated for itself), for the modules that follow; `alloc_error()` stops the program |
| `MgmMem` | `mgmmem.c`: the pool as the owner of its blocks, with an array whose size in bytes is that which `SafeCalloc` computed |
| `Ldap` | `ldap-open.c`, `ldap.c`, `ldap.h`: one step per call that may fail, with what is allocated at each; `ldap_escape_query()` as an operator that counts and then writes |
| `IniParser` | `iniparser.c`, `iniparser-pwdb.c`: the same for the getters, over the kinds of text that the conversions tell apart |
| `HttpI18n` | `http-i18n.c`: requests in a row, a step per language |
| `IpAddress` | `ipaddress.c` as an operator over the characters that it looks for, and what it leaves allocated |
| `Program` | a program that uses these parts, with one heap.  Every behaviour is about one subject, so that the states of unrelated parts add up; a connection and the pool for its results are one subject. |
| `MC*` | the instances for TLC |

Definitions have the names of the source where TLA+ permits it.  Those named in
a comment as a seeded fault are variants of the definition that follows them
with a plausible bug; each breaks a property of a run (`mutants` in
`PROJECT.json`).  They are part of no specification.

## What the runs check

| run | question | instance |
|---|---|---|
| `list_release` | Do the rings stay linked, do the calls change sequences as their names say (`Refinement`), do the queries answer for the whole list? | 2 heads, 3 entries, no `DEBUG_LIST` |
| `list_loop` | In a `DEBUG_LIST` build: does any legal sequence of calls trip an assertion or follow a poison pointer? Do loops stay on their list, visit every entry, end? | the same, bodies that change both lists |
| `list_movelast` | the same question, if callers may move the last entry to the tail: an assertion fails | see Findings |
| `strbuf` | memory safety, text, ownership, and refinement of `StrBufSpec` | `SIZE_MAX` = 40 |
| `io` | order, buffers, refinement of the channel, delivery of what was acknowledged, notice of the end | pipe of 3 bytes, header of 2, strings of 0, 1, 3 and 4, the greatest `uint32_t` is 4 |
| `stream` | round trip, bounds, refusals, leaks, and that a call returns | two values, strings of 0 and 2, all kinds of streams |
| `stream_empty` | does a reader that keeps to the order ever stop the program while there is memory? It does. | see Findings |
| `daemon` | who gets the sockets, what later programs inherit | a service, a child that is forked again and again, 2 descriptors |
| `log_lock` | Do messages mix, does every call return? Is the indentation that of the open blocks, or how far can it be off when the level changes? | 2 processes, 3 messages of up to 2 pieces, 3 kinds of logs; or one process with 2 nested blocks, messages that push and pop, levels that change |
| `log_null` | does a message without text wait for anybody? It does. | see Findings |
| `program` | Who owns every block, when any call fails? Do the uri and the pool's array fit? Do flags, return values, numbers, users, languages and addresses say what they should? | below |
| `ldap_escape` | does `ldap_escape_query()` escape its argument? It does not. | see Findings |

Why the bounds are enough:

- *Lists.* A call writes to at most six nodes.  Two lists of up to three entries
  have every coincidence of these nodes: empty, one entry, first, last, between
  neighbours, another list, the same list.  Beyond this size the theorems below
  hold for any set of nodes.
- *String buffer.* `strbuf.h` compares with `SIZE_MAX`, `SIZE_MAX / 3` and with
  a growth of half the size and 8.  With `SIZE_MAX` = 40 the lengths 0, 1, 2, 9,
  10, 13, 14, 39 and 40 lie on both sides of all of these.  The theorems hold for
  any `SIZE_MAX` above 17.
- *io.c.* A pipe of three bytes holds neither a header with a string nor two
  headers, so both processes block in the middle of everything.  Buffers are
  absent, one byte, as long as the longest string (one byte too small for it), and one
  byte longer.  The longest string has the greatest length that a header can hold, for
  which `slen + 1` is 0.
- *Streams.* A number of two parts, a string of two parts, two values in a row:
  a transfer may be cut in each and between them.
- *Daemon.* Two sockets let the second be missing when the first is marked; one
  pid besides the service's suffices because a pid is reused after `exit()`.
  LISTEN_FDS also takes values that are 0, negative, more than are open, more
  than `INT_MAX` - 3 and more than `INT_MAX`.
- *Logging.* Positions are counted in pieces: only their order matters.  Three
  messages let what the first left locked meet a later one of each process.  At
  most `Losses` = 2 calls of `log_pop()` find the level off and leave a push behind:
  those of two blocks, nested or one after the other.  The
  constraint `OneSubject` keeps the indentation to one process and to streams:
  it depends on nothing else.
- *Program.*  A `size_t` has 9 bits: `SIZE_MAX / 150` is 3, so the array of the pool
  grows from 0 to 2 and to 5 entries and the sixth is refused.  Six blocks, of which the
  program holds one, reach each of these.  An `int` has 3 bits and a `long` 5;
  numbers lie on both sides of either limit, and products and sums are
  checked for every pair of values of unsigned types that are narrower than an `int`, as
  wide, and wider, assignments between all of these and the signed ones, sizes for
  values around the square root and the limit.  Lists of one and of two
  hosts have the uri grow once and twice.  Addresses are all strings of
  up to five of the characters that `ipaddress.c` looks for, and one other.  A
  request has up to three languages: one that the table maps, one that the system
  lacks, one without a translation, ones that are no language.  Queries to escape are
  empty here, for the others see `ldap_escape`.

`CHECK_DEADLOCK FALSE` stands where programs end: after `strbuf_destroy()` or
`alloc_error()`, when the writer has closed and the reader has read all, when
every process that logs has ended, and in `Program` when the bounds are used up.

### Fairness

- `Io`: the writer goes on with a call it began; the reader calls and goes on.
  Both are processes that the kernel schedules, and a `read()` or `write()` that
  can transfer a byte does.  Nothing is assumed about failures, the close, or
  new calls of the writer.
- `ListLoop`: the test and the step of a loop are executed; bodies return.
- `Unserialize`: a reader that can copy goes on.  The arrival of bytes is not
  fair, so `CallReturns` excludes a reader that waits for a descriptor that is
  still open.
- `Logging`: a process that holds the lock writes and unlocks, and a lock that
  nobody holds is granted.  The number of messages is bounded, so this needs no
  strong fairness.  Only for files it is assumed that idle processes end some
  time; without it `CallReturns` does not hold there, as `log_null` shows.

## What is proved

TLAPS proves the following for every value of the constants that the named
assumptions admit.  What the assumptions say is in the modules that declare the
constants.  Most are about the platform, and hold wherever the code is built: a `size_t`
holds every `uint32_t` (`ReaderAssumption`), an `int` has more than its sign
(`TypeAssumption`), one entry of the pool's array fits into a `size_t`
(`EntryAssumption`), a pipe holds at least a byte (`LengthAssumption` of `Io`), no pid is
above `INT_MAX` (`ProcessAssumption`), a program has finitely many list_heads
(`FiniteAssumption`).  These are about callers, and the code does not check them:

- the length of what is given to `write_str()` fits in its header, and so do those
  given to `serialize_buf()` (`LengthAssumption`, `ReaderAssumption`);
- all values that are written to one stream fit into memory together, so that no sum in
  `serialize.h` wraps (`StreamAssumption`);
- `MoveLast = FALSE`: nobody moves the last entry of a list to its tail.

`ListProofs`: `TypeCorrect`, `RingsStayLinked` (`next` and `prev` undo each
other around every ring), `AssertionsHold` (no assertion of a `DEBUG_LIST` build
fails).  All assume `MoveLast = FALSE`, which excludes the call of
`list_movelast`, and `NodeAssumption`.  The inductive invariant is
`IInv == Sound(mem, on)`: types, the absence of a failed assertion, and
`WellLinkedIn(mem, on)`, that `next` and `prev` of a listed node lead to nodes
of the same list and undo each other.  `RingsStayLinked` alone is not inductive,
because a call on one list could reach another through a stale pointer; that
listed nodes point into their own list only is what excludes it.  One lemma per
operation (`InitSound`, `DelSound`, `AddSound`, `SpliceSound`, ...) shows that
it takes a sound memory to a sound memory with `on` changed as the caller
expects; compound calls cite the lemmas of those that they are made of.

The second half of `ListProofs` is the refinement of `ListSpec` (`Implements`)
and the queries (`QueriesTell`).  Their invariant is
`RInv == IInv /\ Represents(mem, on, Lists)`: for every head `h`, `next` leads from
`h` through the entries of the sequence `Lists[h]`, which are all different,
and back to `h` (`Follows`), and these entries are the ones that `on` says are on
the list (`Holds`).  `IInv` is not enough for it: that `next` and `prev` undo each other
also holds of a ring that the head is not in.  The argument has four steps.

- `ForeachIs`: if `next` follows `s`, then `list_foreach()` visits `s`.  It is the
  one place that needs an induction, over the number of steps.  The library's
  induction theorems take an operator and cannot be used; `Induction` states it
  for a set of numbers and follows from `NatLessThanWellFounded` and
  `WFMin`.  That the walk is back after at most `Cardinality(Node)` steps
  (`RingFits`) needs `FiniteAssumption`: there are finitely many list_heads.
- `RemoveFollows` and `PutFollows`: what the three pointers that a call changes do to
  the sequence that `next` follows.
- `DelRings`, `AddRings`, `SpliceRings`, ...: every call takes `Represents` to `Represents`, for the
  sequences that `ListSpec` makes, and `PositionIs` and `BeforeIs` say that
  `ListSpec` finds the place that the pointers name.  `list_move_tail()` reads
  `root->prev` before the removal; `MoveTailRings` is where it matters that this is not the entry.
- One lemma per action (`AddStep`, `MoveStep`, ...), which also holds that the abstract
  guards are met, and `StepRefines`.

That `prev` follows the reversed sequence (`BackwardsFollows`) gives `QueriesTell`.

`ListLoopProofs`: `LoopsStayOnTheirList`.  The invariant adds to `IInv` that the
nodes a loop holds are on its list, and in a body that the node it needs next is.
`QuietLoopsVisitAll` is `VisitsAll`, with `Course`: of the list as it was when the loop
began the first `k` entries were visited, the loop stands on the next one, a saving
loop also on the one behind it, and from there on the list is as it was.
Entries that were visited may be anywhere.  `QuietLeaves` shows that no call that takes the visited entry
away changes the rest, whichever call it is and wherever the entry goes.

`StrBufProofs`: type correctness, memory safety, intact text and the absence of
leaks, from `SizeAssumption` (`SIZE_MAX` > 17) and `CallerAssumption`.  The
inductive invariant `Good` relates `len`, `alloc` and the size of the block.
The arithmetic is in `WrapFits` and `ExtraFits`: what `strbuf_allocate()` adds
does not wrap for a length up to a third of `SIZE_MAX`, and is left out beyond.
`Implements` is the refinement: `Init` and every step map to `StrBufSpec`.

`UnserializeProofs`, about `StreamSpec` (the run adds fairness to it): `StaysInBlocks`,
`ReadsBack`, `RefusesForAReason`, `KeepsBlocks`.  The inductive invariant
`StreamIInv` has a part for each of the actors:

- `WriterInv`: every value begins where the one before it ends (`Chained`), and the
  bytes that are written are at most as many as that number of the longest
  string takes (`Complete`).  Without the second no sum in `serialize.h`, which checks none,
  could be shown not to wrap.  One lemma, `WriterStep`, serves all writers
  through `Adds`, which says what each of them does to the buffer.
- `SourceInv`: the reader is within what was written or has arrived.
- `CallInv`: the part of a value that is copied is the one behind what was copied
  before, the length that was read is that of the string which starts there
  (`LengthIs`), and the caller's buffer has room for the rest (`Ready`, which cites the
  lemmas of `StrBufProofs` about `strbuf_allocate()`).  `RoundTrip` alone speaks
  of calls that have returned and is not inductive.
- `RefusalInv`: why a call failed.  It is about the place where the call began,
  because the reader went back to it.
- `OrderInv`: as long as the caller reads what was written, the reader is at the start of the
  value that comes next (`AtNext`); so results are numbered in order.

`IoProofs`: `StaysInBuffer`, `BytesInOrder`, and the refinement of
`StringChannel` (`Implements`), for headers, strings, buffers and pipes of any size.  A
reader that met a string of the greatest length in `read_stra()` got no memory for it
(`"overrun"`); what it does then is undefined and not followed, and `BufferFits` says that
no other call and no other length leads there (`AllocatedFacts`).  The
bytes in the reader's buffer and in the pipe are one stream.  `Ordered` says of it
that a byte stands at the distance from another at which both were
written.  It says so of all pairs and not only of neighbours,
because the reader takes a number of bytes at once, and what it took is a string if its
first and its last byte are as far apart as the string is long.  `ReaderInv` connects the
number of bytes that the call still wants with the string that they belong to,
`WriterInv` the position of the writer with what it has left.

`SdDaemonProofs`: `NoneIsPassedOn`, `OneProcessOwns`, `EnvironmentIsClean`,
`NotifySocketStays`, `OnlySocketsTaken`, for any pids, descriptors and values of
the variables.  The number of sockets and the pid in the environment were chosen by the one
who started the service and are no state, so the invariant is that there are two such
values for which every process is sound: its variables are those values or were removed
(`Environment`), the socket of `sd_notify()` is open in a call only and marked
(`Notification`), unless the process was forked during one and has started no program since,
what a process took is marked (`Marked`), and a process that took nothing
has the sockets where they were (`Untouched`).  `OneOwner` is not inductive: a child
that was forked before the parent's call must not take the sockets a second time, and it is
the pid in its environment that keeps it from that.

`LoggingProofs`: type correctness, and `MessagesDoNotMix` for any number of
processes, messages and pieces and for every kind of log, from
`LoggingAssumption`.  That messages do not mix is not inductive.  `OneWriter`
adds that at most one process holds a section that reaches to infinity and that
who writes holds one: two such sections always conflict, wherever they start,
which is why it does no harm that the position moves.  `Blocks` adds which
message may still grow, that it is the last one in the log, and that a message
which waits for the lock has no piece there.  Both only hold while `lockf()` does
not fail, so the invariant has them under `~ fails`.  `Balanced` is about the
indentation, for blocks of any depth: the number of flags that are set changes by one when
a block with a flag is opened, popped or left, and the counter with it.  Not so for
`log_pop()` while the level is off, which clears the flag and does not pop; `unpopped`
counts these and is what the indentation exceeds the open blocks by at most.

`ProgramProofs`, for types of any width, any heap, pool, text, request and
address: `OwnedOnce`, `WithinBlocks`, `FlagsAreRight`, `SizesRight`,
`FailuresReported`, `Configured`, `FirstIsChosen`, `AddressesParsed`.  The parts of
`IInv` are `TempsInv` (what a function has allocated for itself, by the function and how
far it is), `PoolInv` (the pool's array has room for the number that it counts),
`OwnersInv` (a block that is allocated is the program's or in one entry of the pool),
`ConnInv`, `IniInv`, `HttpInv` and `AddressInv` (what a call has found out when the next
one of it runs).  `HeapSound` is not inductive without `TempsInv`: a function that
fails releases what it believes to have.  `SizesRight` rests on lemmas about the checks
of `type-utils.h`: the fallbacks without builtins refuse exactly what does not fit.  The
provers know nothing of powers, so `2 ^ n` is treated as the number of subsets of `1 .. n`
(`PowersGrow`, `PowerDoubles`).  The lemmas on addresses determine where the
two characters are that `ipaddress.c` cuts at.

Only model-checked is liveness, which is beyond the prover: `AckedIsDelivered`,
`EndIsNoticed`, `CallReturns`, `QuietLoopEnds`.

## Findings

- `list_move_tail()` of the entry that is last uses the entry itself as the
  place to insert after (`list_movelast`).
- Reading an empty buffer with `optimize` into a buffer that was used stops the
  program (`stream_empty`).
- `_log_msg()` unlocks from the position after the message and not from the one
  where it locked: on a file a part stays locked, and a process that asked for
  the lock meanwhile waits until the other ends, even with nothing to write
  (`log_null`).

- `ldap_escape_query()` does not go back to the start of its argument between its two
  passes, and escapes what lies behind it (`ldap_escape`).

`PROJECT.json` quotes the comment, assertion or test that each contradicts.

Remarks without a run, because no text in the repository says otherwise or because
one step shows them.  The models have the code's behaviour, but for the one that says so;
no property is about most of these, as the notes of the hazards in `PROJECT.json` say:

- `sd_listen_fds()` returns -1 on some ways and a negative errno code on others.
- `ldap_error_string()` compares the result of `asprintf()`, a length, with 0
  (`ldap.c:79`): the text that explains why there is no message is left behind, and
  NULL is returned instead.
- `iniparser_getstring_exp()` does not free the words that `wordexp()` may have
  allocated when it ran out of memory (`iniparser.c:71`).
- A blank entry is the user 0 (`iniparser-pwdb.c:41`); a `long` is cut to an `int`
  (`iniparser.c:177`).
- A string getter hands out the default itself, or an allocated string; the
  caller compares pointers to know what to free.
- `read_stra()` computes `slen + 1` in 32 bits (`io.c:100`): for a length of 2^32 - 1
  it calls `malloc(0)`.  `BufferFits` names this case as its only exception.
- `log_pop()` while the level is off clears the flag of its block and does not pop
  (`logging.h:93`): the push of that block stays until `_log_reset()`.
- `unserialize_stra()` does not destroy its buffer when it fails (`unserialize.h:331`).
- `http_set_locale()` leaves the locale of a language without a translation if no better
  one follows (`http-i18n.c:95`).
- `variable_is_signed()` has its two branches inverted where the compiler has no
  `_Generic` (`type-utils.h:28`).  This is not in the models: its one use, in
  `sd-listen.c`, is modelled with `_Generic`.
- `ensc_ldap_connect()` takes positive result codes of the bind for success
  (`ldap-open.c:169`).
- In an address without brackets the first `:` ends the node, also one in a path.
- `http_set_locale()` does not look at the weights of languages, only at their order.

## What is not modelled, and why

- Repetitions after `EINTR` and `EAGAIN` change no state: they are stuttering.
- The second call of a reader of `io.c` after a failure: nobody knows then where
  the next string begins.  `Unserialize` has such calls, and returns to a copy.
- `strbuf_append_strbuf(b, b)`, a reader from memory while the writer goes on,
  strings of 2^32 bytes and more, lists whose head is removed, loops whose body removes
  the entry that the loop needs next: callers cannot make these calls correctly, and the
  code does not check for them.
- In `Logging`, threads of one process: a lock of `lockf()` belongs to the
  process and `intent_level` is not protected; the code is not made for them.
- Text: what is sent to systemd, what is logged, colors, dates.
- The comparison of the first bytes of an address with the families, which looks at up
  to seven bytes of shorter strings, too: `IpAddress` starts behind it, with the family
  and the rest.
- Compiler attributes and build files: no behaviour.
- The LDAP protocol, the syntax of configuration files, the database of users: the
  libraries'.  They are results that the models choose from.
- The options that `ldap-open.c` sets on a connection: they fail or do not.

## Plan

All parts with behaviour are modelled and checked, and every safety property that a run
checks is proved, every refinement included.  What is left:

1. An abstract specification of the stream of values that `Unserialize` implements, in
   the way that `StringChannel` is one of `Io`.
2. For the liveness properties, the safety half of the argument: a number that every step of
   the fair action makes smaller and no other step makes larger.
