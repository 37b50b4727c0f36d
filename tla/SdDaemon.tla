------------------------------ MODULE SdDaemon ------------------------------
(***************************************************************************)
(* sd-listen.c, sd-notify.c and sd-notifyf.c: a service that gets sockets  *)
(* from systemd, tells systemd about its state, and starts other programs. *)
(*                                                                         *)
(* What these functions are for shows only in what they leave to others:   *)
(* fork() copies the descriptors and the environment, exec() keeps those   *)
(* descriptors that are not marked FD_CLOEXEC, and all of the environment. *)
(*                                                                         *)
(* sd_listen_fds() is one step: nothing it does depends on the time.       *)
(* sd_notify() is two, because another thread of the process may fork()    *)
(* while its socket is open.                                               *)
(***************************************************************************)
EXTENDS Integers, FiniteSets

CONSTANTS
  Pids,          \* the processes
  Service,       \* the one that systemd starts
  LastFd,        \* the descriptors are 0 .. LastFd
  IntMax,        \* INT_MAX
  ULongMax,      \* ULONG_MAX
  PidValues,     \* what LISTEN_PID may be, and LISTEN_FDS
  FdsValues,     \* unless it is their true number
  Absent,        \* no variable of that name
  Malformed,     \* one that is not a number, or not an address
  Path,          \* NOTIFY_SOCKET with an address
  UnsetChoices   \* what callers pass for unset_environment

SD_LISTEN_FDS_START == 3

ASSUME ProcessAssumption ==
  /\ Pids \subseteq 1 .. IntMax /\ Service \in Pids
  /\ LastFd \in Nat /\ IntMax \in Nat /\ SD_LISTEN_FDS_START < IntMax
  /\ ULongMax \in Nat /\ IntMax <= ULongMax
  /\ PidValues \subseteq Int \cup {Absent, Malformed}
  /\ FdsValues \subseteq (Int \ 1 .. LastFd) \cup {Absent, Malformed}
  /\ UnsetChoices \subseteq BOOLEAN

EPERM == 1   EBADF == 9   ENOMEM == 12   EINVAL == 22   ERANGE == 34

VARIABLE proc   \* every process; "none" before it is forked

FD == SD_LISTEN_FDS_START .. LastFd

Files == {"none", "socket", "own", "notify"}

Fd(file, cloexec) == [file |-> file, cloexec |-> cloexec]
Closed == Fd("none", FALSE)

NoFd == -1

(* The environment (names: is LISTEN_FDNAMES set) and the descriptors;     *)
(* sock: the one that a thread which is in sd_notify() opened; ret, why:   *)
(* what sd_listen_fds() returned, and the errno if it failed.              *)
(* The other fields record the past and steer nothing: took, the           *)
(* descriptors that sd_listen_fds() returned to this program; announced,   *)
(* all that it returned in this process or to one it was forked from;      *)
(* sealed, those that it had returned when this program was started;       *)
(* unset, kept: was it called with and without unset_environment; shared,  *)
(* was this process, or one it was forked from, forked during sd_notify()  *)
(* since this program was started.                                         *)
Fresh == [state |-> "none", listenPid |-> Absent, listenFds |-> Absent, names |-> FALSE,
          notify |-> Absent, fd |-> [f \in FD |-> Closed], sock |-> NoFd, ret |-> 0, why |-> 0,
          took |-> {}, announced |-> {}, sealed |-> {},
          unset |-> FALSE, kept |-> FALSE, shared |-> FALSE]

Runs(p) == proc[p].state = "runs"

Set(p, q) == proc' = [proc EXCEPT ![p] = q]

-----------------------------------------------------------------------------
(* sd-listen.c                                                             *)

Cleaned(q) == [q EXCEPT !.listenPid = Absent, !.listenFds = Absent, !.names = FALSE]

(* Seeded fault: the environment is left alone if the call succeeds.       *)
unset_on_failure(q, unset) ==
  LET r == [q EXCEPT !.unset = @ \/ unset, !.kept = @ \/ ~ unset] IN
  IF unset /\ q.ret <= 0 THEN Cleaned(r) ELSE r

(* Seeded fault: the environment is left alone if the call fails.          *)
unset_on_success(q, unset) ==
  LET r == [q EXCEPT !.unset = @ \/ unset, !.kept = @ \/ ~ unset] IN
  IF unset /\ q.ret >= 0 THEN Cleaned(r) ELSE r

unsetenv_all(q, unset) ==
  LET r == [q EXCEPT !.unset = @ \/ unset, !.kept = @ \/ ~ unset] IN
  IF unset THEN Cleaned(r) ELSE r

(* The errno that safe_atoi() and parse_pid() fail with, 0 if they do not. *)
safe_atoi(v) ==
  IF v = Malformed THEN EINVAL ELSE IF v \notin -IntMax - 1 .. IntMax THEN ERANGE ELSE 0

parse_pid(v) ==
  IF v = Malformed THEN EINVAL
  ELSE IF v \notin -ULongMax .. ULongMax THEN ERANGE
  ELSE IF v \notin 0 .. IntMax THEN EINVAL ELSE 0

Passed(n) == SD_LISTEN_FDS_START .. SD_LISTEN_FDS_START + n - 1

IsOpen(q, f) == f \in FD /\ q.fd[f].file # "none"

(* Seeded fault: the last descriptor is forgotten.                         *)
cloexec_but_last(q, n) ==
  [q EXCEPT !.fd = [f \in FD |-> IF f \in Passed(n - 1) THEN [q.fd[f] EXCEPT !.cloexec = TRUE] ELSE q.fd[f]]]

(* fd_cloexec() for one after the other, up to the first that is not open. *)
fd_cloexec(q, n) ==
  [q EXCEPT !.fd = [f \in FD |->
     IF f \in Passed(n) /\ \A g \in SD_LISTEN_FDS_START .. f : IsOpen(q, g)
     THEN [q.fd[f] EXCEPT !.cloexec = TRUE] ELSE q.fd[f]]]

Returns(q, r, why) == [q EXCEPT !.ret = r, !.why = why, !.took = {}]

Takes(q, n) == [Returns(q, n, 0) EXCEPT !.took = Passed(n), !.announced = @ \cup Passed(n)]

(* Seeded fault: everybody may take the descriptors.                       *)
for_anybody(v, pid) == TRUE

IsForUs(v, pid) == v = pid

take_fds(q) ==
  LET n == q.listenFds IN
  IF n = Absent THEN Returns(q, 0, 0)
  ELSE IF safe_atoi(n) # 0 THEN Returns(q, -1, safe_atoi(n))
  ELSE IF n <= 0 \/ n > IntMax - SD_LISTEN_FDS_START THEN Returns(q, -EINVAL, EINVAL)
  ELSE IF \A f \in Passed(n) : IsOpen(q, f) THEN Takes(fd_cloexec(q, n), n)
  ELSE Returns(fd_cloexec(q, n), -1, EBADF)

listen_fds(q, pid) ==
  IF q.listenPid = Absent THEN Returns(q, 0, 0)
  ELSE IF parse_pid(q.listenPid) # 0 THEN Returns(q, -1, parse_pid(q.listenPid))
  ELSE IF IsForUs(q.listenPid, pid) THEN take_fds(q)
  ELSE Returns(q, 0, 0)

SdListenFds(p, unset) ==
  /\ Runs(p)
  /\ Set(p, unsetenv_all(listen_fds(proc[p], p), unset))

-----------------------------------------------------------------------------
(* sd-notify.c and sd-notifyf.c                                            *)

Free(q) == {f \in FD : q.fd[f].file = "none"}

Lowest(fds) == CHOOSE f \in fds : \A g \in fds : f <= g

Finish(q, unset) ==
  [q EXCEPT !.notify = IF unset THEN Absent ELSE @]

(* It is over before a socket is open: there is no state to tell, no       *)
(* address or a bad one, or socket() fails.  sd_notifyf() is out of memory *)
(* before it looks at anything.                                            *)
SdNotifyFails(p, unset) ==
  /\ Runs(p) /\ proc[p].sock = NoFd
  /\ Set(p, Finish(proc[p], unset))

SdNotifyf(p) ==
  /\ Runs(p) /\ proc[p].sock = NoFd
  /\ UNCHANGED proc

Opened(q, f, cloexec) == [q EXCEPT !.sock = f, !.fd[f] = Fd("notify", cloexec)]

(* Seeded fault: the socket is not marked.                                 *)
socket_kept(p) ==
  /\ Runs(p) /\ proc[p].sock = NoFd /\ proc[p].notify = Path /\ Free(proc[p]) # {}
  /\ Set(p, Opened(proc[p], Lowest(Free(proc[p])), FALSE))

SdNotify(p) ==
  /\ Runs(p) /\ proc[p].sock = NoFd /\ proc[p].notify = Path /\ Free(proc[p]) # {}
  /\ Set(p, Opened(proc[p], Lowest(Free(proc[p])), TRUE))

(* close() of the socket that this call opened; one that was inherited in  *)
(* the middle of another process's call stays open.                        *)
Shut(q) == [q EXCEPT !.sock = NoFd, !.fd[q.sock] = Closed]

(* sendmsg(), whether it fails or not, unsetenv() and close().             *)
SdNotifySent(p, unset) ==
  /\ Runs(p) /\ proc[p].sock # NoFd
  /\ Set(p, Shut(Finish(proc[p], unset)))

-----------------------------------------------------------------------------
(* The service and its children                                            *)

OpenFile(p) ==
  /\ Runs(p) /\ Free(proc[p]) # {}
  /\ Set(p, [proc[p] EXCEPT !.fd[Lowest(Free(proc[p]))] = Fd("own", FALSE)])

(* Programs close what they opened or got from sd_listen_fds().            *)
CloseFile(p) ==
  /\ Runs(p)
  /\ \E f \in FD :
       /\ proc[p].fd[f].file \in {"own"} \cup (IF f \in proc[p].announced THEN {"socket"} ELSE {})
       /\ Set(p, [proc[p] EXCEPT !.fd[f] = Closed])

(* The thread that is in sd_notify() stays behind, its socket does not.    *)
Fork(p) ==
  /\ Runs(p)
  /\ \E c \in Pids :
       /\ proc[c].state = "none"
       /\ proc' = [proc EXCEPT ![c] = [proc[p] EXCEPT !.sock = NoFd, !.ret = 0, !.why = 0, !.took = {},
                                            !.shared = @ \/ proc[p].sock # NoFd]]

Exec(p) ==
  /\ Runs(p)
  /\ Set(p, [proc[p] EXCEPT
       !.fd = [f \in FD |-> IF proc[p].fd[f].cloexec THEN Closed ELSE proc[p].fd[f]],
       !.sock = NoFd, !.ret = 0, !.why = 0, !.took = {}, !.sealed = proc[p].announced, !.shared = FALSE])

Exit(p) ==
  /\ Runs(p) /\ p # Service
  /\ Set(p, Fresh)

(* systemd announces the sockets that it passes, or something that is not  *)
(* a number of sockets.                                                    *)
Init ==
  \E s \in 0 .. LastFd - SD_LISTEN_FDS_START + 1, pid \in PidValues, addr \in {Absent, Malformed, Path} :
    \E n \in FdsValues \cup {s} :
      proc = [p \in Pids |-> IF p # Service THEN Fresh ELSE
               [Fresh EXCEPT !.state = "runs", !.listenPid = pid, !.listenFds = n, !.names = TRUE, !.notify = addr,
                  !.fd = [f \in FD |-> IF f \in Passed(s) THEN Fd("socket", FALSE) ELSE Closed]]]

Next ==
  \E p \in Pids :
    \/ \E unset \in UnsetChoices : SdListenFds(p, unset) \/ SdNotifyFails(p, unset) \/ SdNotifySent(p, unset)
    \/ SdNotifyf(p) \/ SdNotify(p)
    \/ OpenFile(p) \/ CloseFile(p) \/ Fork(p) \/ Exec(p) \/ Exit(p)

Spec == Init /\ [][Next]_proc

-----------------------------------------------------------------------------
(* Properties                                                              *)

(* sd_listen_fds() "ensures that the FD_CLOEXEC flag is set for the passed *)
(* file descriptors, to make sure they are not passed on": a program that  *)
(* is started by a process that took the sockets, or by one of the         *)
(* processes it forked since, has none of them.                            *)
NotPassedOn == \A p \in Pids : \A f \in proc[p].sealed : f \in FD => proc[p].fd[f].file # "socket"

(* As long as every caller has the environment cleaned, no file that the   *)
(* program opened itself is taken for a socket, however often it asks, and *)
(* whichever descriptors it closed and opened in between.                  *)
OwnFilesNotTaken ==
  [][\A p \in Pids : ~ proc'[p].kept /\ proc[p].ret <= 0 /\ proc'[p].ret > 0
       => \A f \in proc'[p].took : proc[p].fd[f].file = "socket"]_proc

(* The sockets have one owner, although forked processes inherit both the  *)
(* descriptors and the environment and may ask for them first.             *)
OneOwner == \A p, r \in Pids : p # r => proc[p].took = {} \/ proc[r].took = {}

(* Who was asked to clean the environment does so on every path: no        *)
(* program that is started later sees the variables.                       *)
EnvironmentClean ==
  \A p \in Pids : proc[p].unset =>
    proc[p].listenPid = Absent /\ proc[p].listenFds = Absent /\ ~ proc[p].names

(* A socket that sd_notify() opened is open in the process whose call has  *)
(* not returned yet, and in processes that were forked in the middle of a  *)
(* call; but in no program that any of them starts, then or later.         *)
NotifySocketOurs ==
  \A p \in Pids : \A f \in FD :
    proc[p].fd[f].file = "notify" => f = proc[p].sock \/ proc[p].shared

=============================================================================
