--------------------------- MODULE SdDaemonProofs ---------------------------
(***************************************************************************)
(* Proofs about SdDaemon for any tree of processes, any number of          *)
(* descriptors and every value of the environment's variables.             *)
(***************************************************************************)
EXTENDS SdDaemon, WellFoundedInduction, TLAPS

Descriptor == [file : Files, cloexec : BOOLEAN]

Fields ==
  {"state", "listenPid", "listenFds", "names", "notify", "fd", "sock", "ret", "why",
   "took", "announced", "sealed", "unset", "kept", "shared"}

IsProcess(q) ==
  /\ DOMAIN q = Fields /\ q.fd \in [FD -> Descriptor] /\ q.ret \in Int
  /\ q.unset \in BOOLEAN /\ q.kept \in BOOLEAN /\ q.shared \in BOOLEAN

(* The variables are what systemd set them to, LISTEN_PID to pid and       *)
(* LISTEN_FDS to the number n of sockets or to something that is not one,  *)
(* or they are gone; and gone if a caller had them removed.                *)
Environment(q, n, pid) ==
  /\ q.listenPid \in {pid, Absent} /\ q.listenFds \in FdsValues \cup {n, Absent}
  /\ q.unset => q.listenPid = Absent /\ q.listenFds = Absent /\ ~ q.names

(* A socket for a notification is marked, and open for as long as the call *)
(* lasts, or in a child that was forked meanwhile.  The call closes what   *)
(* it opened, nobody has put anything in its place.                        *)
Notification(q) ==
  /\ \A f \in FD : q.fd[f].file = "notify" => q.fd[f].cloexec /\ (f = q.sock \/ q.shared)
  /\ q.sock # NoFd => q.sock \in FD /\ q.fd[q.sock].file = "notify"

(* Sockets are marked once they were returned, and none was passed on.     *)
Marked(q) ==
  /\ \A f \in q.announced \cap FD : q.fd[f].file = "socket" => q.fd[f].cloexec
  /\ \A f \in q.sealed \cap FD : q.fd[f].file # "socket"

(* Before the first call of sd_listen_fds() all n sockets are there.       *)
Untouched(q, n) ==
  q.state = "runs" /\ ~ q.kept /\ ~ q.unset =>
    /\ q.announced = {}
    /\ \A f \in Passed(n) : f \in FD /\ q.fd[f] = Fd("socket", FALSE)

Sound(q, n, pid) ==
  Environment(q, n, pid) /\ Notification(q) /\ Marked(q) /\ Untouched(q, n)

(* Only the process that LISTEN_PID names takes sockets.                   *)
AllSound(n, pid) ==
  \A p \in Pids : Sound(proc[p], n, pid) /\ (proc[p].took # {} => p = pid)

Counts == 0 .. LastFd - SD_LISTEN_FDS_START + 1

Processes == DOMAIN proc = Pids /\ \A p \in Pids : IsProcess(proc[p])

IInv ==
  /\ Processes
  /\ \E n \in Counts, pid \in PidValues : AllSound(n, pid)

-----------------------------------------------------------------------------
(* sd_listen_fds()                                                         *)

(* What a call of sd_listen_fds() leaves alone.                            *)
SameBut(q, r) ==
  /\ r.state = q.state /\ r.notify = q.notify /\ r.sock = q.sock
  /\ r.sealed = q.sealed /\ r.shared = q.shared

LEMMA ReturnsEffect ==
  ASSUME NEW q, IsProcess(q), NEW ret \in Int, NEW why \in Int
  PROVE  LET r == Returns(q, ret, why) IN
         /\ IsProcess(r) /\ SameBut(q, r) /\ r.fd = q.fd
         /\ r.listenPid = q.listenPid /\ r.listenFds = q.listenFds /\ r.names = q.names
         /\ r.unset = q.unset /\ r.kept = q.kept
         /\ r.ret = ret /\ r.took = {} /\ r.announced = q.announced
BY DEF Returns, IsProcess, Fields, SameBut

(* fd_cloexec() marks descriptors and closes none.                         *)
LEMMA CloexecEffect ==
  ASSUME NEW q, IsProcess(q), NEW m \in Int
  PROVE  LET r == fd_cloexec(q, m) IN
         /\ IsProcess(r) /\ r = [q EXCEPT !.fd = r.fd]
         /\ \A f \in FD : r.fd[f].file = q.fd[f].file /\ (q.fd[f].cloexec => r.fd[f].cloexec)
         /\ (\A f \in Passed(m) : IsOpen(q, f)) => \A f \in Passed(m) : r.fd[f].cloexec
<1> DEFINE marks(f) == f \in Passed(m) /\ \A g \in SD_LISTEN_FDS_START .. f : IsOpen(q, g)
           fds == [f \in FD |-> IF marks(f) THEN [q.fd[f] EXCEPT !.cloexec = TRUE] ELSE q.fd[f]]
           r == fd_cloexec(q, m)
<1>1. r = [q EXCEPT !.fd = fds]
  BY DEF fd_cloexec
<1>2. q.fd \in [FD -> Descriptor]
  BY DEF IsProcess, Fields
<1> HIDE DEF marks
<1>3. ASSUME NEW f \in FD
      PROVE  /\ fds[f] \in Descriptor /\ fds[f].file = q.fd[f].file
             /\ q.fd[f].cloexec => fds[f].cloexec
             /\ marks(f) => fds[f].cloexec
  BY <1>2 DEF Descriptor
<1>4. fds \in [FD -> Descriptor]
  BY <1>3
<1> HIDE DEF fds
<1>5. IsProcess(r) /\ r.fd = fds
  BY <1>1, <1>4 DEF IsProcess, Fields
<1>6. ASSUME \A f \in Passed(m) : IsOpen(q, f), NEW f \in Passed(m)
      PROVE  f \in FD /\ marks(f)
  BY <1>6 DEF marks, Passed, IsOpen, SD_LISTEN_FDS_START
<1> QED
  BY <1>1, <1>3, <1>5, <1>6

LEMMA TakesEffect ==
  ASSUME NEW q, IsProcess(q), NEW m \in Int
  PROVE  LET r == Takes(q, m) IN
         /\ IsProcess(r) /\ SameBut(q, r) /\ r.fd = q.fd
         /\ r.listenPid = q.listenPid /\ r.listenFds = q.listenFds /\ r.names = q.names
         /\ r.unset = q.unset /\ r.kept = q.kept
         /\ r.took = Passed(m) /\ r.announced = q.announced \cup Passed(m)
BY DEF Takes, Returns, IsProcess, Fields, SameBut

(* A call returns nothing and no more than 0, or it returns what           *)
(* LISTEN_FDS counts, all of it open and marked now, to the process that   *)
(* LISTEN_PID names.                                                       *)
Nothing(q, r) == r.took = {} /\ r.announced = q.announced /\ r.ret <= 0

Something(q, r, pid) ==
  /\ q.listenPid # Absent /\ q.listenPid = pid
  /\ q.listenFds \in Int \ {Absent, Malformed} /\ q.listenFds >= 1
  /\ r.took = Passed(q.listenFds) /\ r.announced = q.announced \cup Passed(q.listenFds)
  /\ \A f \in Passed(q.listenFds) : IsOpen(q, f) /\ r.fd[f].cloexec

MarksOnly(q, r) ==
  \A f \in FD : r.fd[f].file = q.fd[f].file /\ (q.fd[f].cloexec => r.fd[f].cloexec)

LEMMA ListenEffect ==
  ASSUME NEW q, IsProcess(q), NEW pid
  PROVE  LET r == listen_fds(q, pid) IN
         /\ IsProcess(r) /\ SameBut(q, r) /\ MarksOnly(q, r)
         /\ r.listenPid = q.listenPid /\ r.listenFds = q.listenFds /\ r.names = q.names
         /\ r.unset = q.unset /\ r.kept = q.kept
         /\ Nothing(q, r) \/ Something(q, r, pid)
<1> DEFINE r == listen_fds(q, pid)
           Effect == /\ IsProcess(r) /\ SameBut(q, r) /\ MarksOnly(q, r)
                     /\ r.listenPid = q.listenPid /\ r.listenFds = q.listenFds /\ r.names = q.names
                     /\ r.unset = q.unset /\ r.kept = q.kept
                     /\ Nothing(q, r) \/ Something(q, r, pid)
           m == q.listenFds
<1> SUFFICES Effect
  OBVIOUS
<1>1. ASSUME NEW ret \in Int, NEW why \in Int, ret <= 0, r = Returns(q, ret, why)
      PROVE  Effect
  BY <1>1, ReturnsEffect DEF MarksOnly, Nothing
<1>2. CASE r = take_fds(q) /\ q.listenPid # Absent /\ q.listenPid = pid
  <2>1. CASE m = Absent
    BY <1>1, <1>2, <2>1 DEF take_fds
  <2>2. CASE m # Absent /\ safe_atoi(m) # 0
    <3>1. safe_atoi(m) \in Int
      BY DEF safe_atoi, EINVAL, ERANGE
    <3> QED
      BY <1>1, <1>2, <2>2, <3>1 DEF take_fds
  <2>3. CASE m # Absent /\ safe_atoi(m) = 0
    <3>1. m \in Int
      BY <2>3, ProcessAssumption DEF safe_atoi, EINVAL, ERANGE
    <3>2. CASE m <= 0 \/ m > IntMax - SD_LISTEN_FDS_START
      BY <1>1, <1>2, <2>3, <3>2 DEF take_fds, EINVAL
    <3>3. CASE ~ (m <= 0 \/ m > IntMax - SD_LISTEN_FDS_START)
      <4> DEFINE c == fd_cloexec(q, m)
      <4>1. IsProcess(c) /\ c = [q EXCEPT !.fd = c.fd] /\ MarksOnly(q, c)
        BY <3>1, CloexecEffect DEF MarksOnly
      <4>2. (\A f \in Passed(m) : IsOpen(q, f)) => \A f \in Passed(m) : c.fd[f].cloexec
        BY <3>1, CloexecEffect
      <4> HIDE DEF c
      <4>3. /\ SameBut(q, c) /\ c.listenPid = q.listenPid /\ c.listenFds = q.listenFds /\ c.names = q.names
            /\ c.unset = q.unset /\ c.kept = q.kept /\ c.announced = q.announced
        BY <4>1 DEF IsProcess, Fields, SameBut
      <4>4. CASE \A f \in Passed(m) : IsOpen(q, f)
        <5>1. r = Takes(c, m)
          BY <1>2, <2>3, <3>3, <4>4 DEF take_fds, c
        <5>2. /\ IsProcess(r) /\ SameBut(c, r) /\ r.fd = c.fd
              /\ r.listenPid = c.listenPid /\ r.listenFds = c.listenFds /\ r.names = c.names
              /\ r.unset = c.unset /\ r.kept = c.kept
              /\ r.took = Passed(m) /\ r.announced = c.announced \cup Passed(m)
          BY <3>1, <4>1, <5>1, TakesEffect
        <5>3. m \in Int \ {Absent, Malformed} /\ m >= 1
          BY <2>3, <3>1, <3>3 DEF safe_atoi, EINVAL
        <5> HIDE DEF r
        <5>4. Something(q, r, pid)
          BY <1>2, <4>2, <4>3, <4>4, <5>2, <5>3 DEF Something
        <5> QED
          BY <4>1, <4>3, <5>2, <5>4 DEF SameBut, MarksOnly
      <4>5. CASE ~ \A f \in Passed(m) : IsOpen(q, f)
        <5>1. r = Returns(c, -1, EBADF)
          BY <1>2, <2>3, <3>3, <4>5 DEF take_fds, c
        <5>2. /\ IsProcess(r) /\ SameBut(c, r) /\ r.fd = c.fd
              /\ r.listenPid = c.listenPid /\ r.listenFds = c.listenFds /\ r.names = c.names
              /\ r.unset = c.unset /\ r.kept = c.kept
              /\ r.ret = -1 /\ r.took = {} /\ r.announced = c.announced
          BY <4>1, <5>1, ReturnsEffect DEF EBADF
        <5> HIDE DEF r
        <5> QED
          BY <4>1, <4>3, <5>2 DEF SameBut, MarksOnly, Nothing
      <4> QED
        BY <4>4, <4>5
    <3> QED
      BY <3>2, <3>3
  <2> QED
    BY <2>1, <2>2, <2>3
<1>3. parse_pid(q.listenPid) \in Int
  BY DEF parse_pid, EINVAL, ERANGE
<1>4. Effect
  <2>1. CASE q.listenPid = Absent
    BY <1>1, <2>1 DEF listen_fds
  <2>2. CASE q.listenPid # Absent /\ parse_pid(q.listenPid) # 0
    BY <1>1, <1>3, <2>2 DEF listen_fds
  <2>3. CASE q.listenPid # Absent /\ parse_pid(q.listenPid) = 0
    <3>1. CASE q.listenPid = pid
      BY <1>2, <2>3, <3>1 DEF listen_fds, IsForUs
    <3>2. CASE q.listenPid # pid
      BY <1>1, <2>3, <3>2 DEF listen_fds, IsForUs
    <3> QED
      BY <3>1, <3>2
  <2> QED
    BY <2>1, <2>2, <2>3
<1> QED
  BY <1>4

LEMMA UnsetEffect ==
  ASSUME NEW q, IsProcess(q), NEW unset \in BOOLEAN
  PROVE  LET r == unsetenv_all(q, unset) IN
         /\ IsProcess(r) /\ SameBut(q, r) /\ r.fd = q.fd
         /\ r.took = q.took /\ r.announced = q.announced /\ r.ret = q.ret
         /\ r.unset = (q.unset \/ unset) /\ r.kept = (q.kept \/ ~ unset)
         /\ IF unset THEN r.listenPid = Absent /\ r.listenFds = Absent /\ ~ r.names
                     ELSE r.listenPid = q.listenPid /\ r.listenFds = q.listenFds /\ r.names = q.names
BY DEF unsetenv_all, Cleaned, IsProcess, Fields, SameBut

(* A call keeps a process sound; what it returns for the first time are    *)
(* the sockets.                                                            *)
LEMMA ListenSound ==
  ASSUME NEW n \in Counts, NEW pid, NEW p, NEW unset \in BOOLEAN,
         NEW q, IsProcess(q), Sound(q, n, pid)
  PROVE  LET r == unsetenv_all(listen_fds(q, p), unset) IN
         /\ IsProcess(r) /\ Sound(r, n, pid) /\ (r.took # {} => p = pid)
         /\ q.state = "runs" /\ ~ r.kept /\ r.ret > 0 => \A f \in r.took : q.fd[f].file = "socket"
<1> DEFINE s == listen_fds(q, p)
           r == unsetenv_all(s, unset)
<1> SUFFICES /\ IsProcess(r) /\ Sound(r, n, pid) /\ (r.took # {} => p = pid)
             /\ q.state = "runs" /\ ~ r.kept /\ r.ret > 0 => \A f \in r.took : q.fd[f].file = "socket"
  OBVIOUS
<1>1. /\ IsProcess(s) /\ SameBut(q, s) /\ MarksOnly(q, s)
      /\ s.listenPid = q.listenPid /\ s.listenFds = q.listenFds /\ s.names = q.names
      /\ s.unset = q.unset /\ s.kept = q.kept
      /\ Nothing(q, s) \/ Something(q, s, p)
  BY ListenEffect
<1> HIDE DEF s
<1>2. /\ IsProcess(r) /\ SameBut(s, r) /\ r.fd = s.fd
      /\ r.took = s.took /\ r.announced = s.announced /\ r.ret = s.ret
      /\ r.unset = (s.unset \/ unset) /\ r.kept = (s.kept \/ ~ unset)
      /\ IF unset THEN r.listenPid = Absent /\ r.listenFds = Absent /\ ~ r.names
                  ELSE r.listenPid = s.listenPid /\ r.listenFds = s.listenFds /\ r.names = s.names
  BY <1>1, UnsetEffect
<1> HIDE DEF r
<1> USE DEF SameBut
<1>3. Environment(r, n, pid)
  BY <1>1, <1>2 DEF Sound, Environment
<1>4. Notification(r)
  BY <1>1, <1>2 DEF Sound, Notification, MarksOnly
<1>5. \A f \in r.announced \cap FD : r.fd[f].file = "socket" => r.fd[f].cloexec
  BY <1>1, <1>2 DEF Sound, Marked, MarksOnly, Nothing, Something
<1>6. \A f \in r.sealed \cap FD : r.fd[f].file # "socket"
  BY <1>1, <1>2 DEF Sound, Marked, MarksOnly
<1>7. Untouched(r, n)
  BY <1>2 DEF Untouched
<1>8. r.took # {} => p = pid
  BY <1>1, <1>2 DEF Nothing, Something, Sound, Environment
<1>9. ASSUME q.state = "runs", ~ r.kept, r.ret > 0, NEW f \in r.took
      PROVE  q.fd[f].file = "socket"
  <2>1. Something(q, s, p)
    BY <1>1, <1>2, <1>9 DEF Nothing
  <2>2. ~ q.kept /\ ~ q.unset
    BY <1>1, <1>2, <1>9, <2>1 DEF Something, Sound, Environment
  <2>3. \A g \in Passed(n) : g \in FD /\ q.fd[g] = Fd("socket", FALSE)
    BY <1>9, <2>2 DEF Sound, Untouched
  <2> DEFINE m == q.listenFds
  <2>4. m \in Int /\ m >= 1 /\ m # Absent /\ m # Malformed /\ \A g \in Passed(m) : g \in FD
    BY <2>1 DEF Something, IsOpen
  <2>5. m \in FdsValues \cup {n}
    BY <2>4 DEF Sound, Environment
  <2>6. m = n
    <3>1. m <= LastFd
      <4>1. SD_LISTEN_FDS_START + m - 1 \in Passed(m)
        BY <2>4 DEF Passed, SD_LISTEN_FDS_START
      <4>2. SD_LISTEN_FDS_START + m - 1 \in FD
        BY <2>4, <4>1
      <4> HIDE DEF m
      <4> QED
        BY <2>4, <4>2, ProcessAssumption DEF FD, SD_LISTEN_FDS_START
    <3>2. m \notin FdsValues
      <4> HIDE DEF m
      <4> QED
        BY <2>4, <3>1, ProcessAssumption
    <3> QED
      BY <2>5, <3>2
  <2>7. f \in Passed(n)
    BY <1>2, <1>9, <2>1, <2>6 DEF Something
  <2> QED
    BY <2>3, <2>7 DEF Fd
<1> QED
  BY <1>2, <1>3, <1>4, <1>5, <1>6, <1>7, <1>8, <1>9 DEF Sound, Marked

-----------------------------------------------------------------------------
(* The other operations                                                    *)

LEMMA LowestMember ==
  ASSUME NEW fds, fds \subseteq FD, fds # {}
  PROVE  Lowest(fds) \in fds
<1> DEFINE below == OpToRel(<, Nat)
<1>1. fds \subseteq Nat
  BY ProcessAssumption DEF FD, SD_LISTEN_FDS_START
<1>2. IsWellFoundedOn(below, Nat)
  BY NatLessThanWellFounded
<1>3. ASSUME NEW f \in Nat, NEW g \in Nat, g < f
      PROVE  <<g, f>> \in below
  BY <1>3 DEF OpToRel
<1> HIDE DEF below
<1>4. PICK f \in fds : \A g \in fds : ~ (<<g, f>> \in below)
  BY <1>1, <1>2, WFMin
<1>5. ASSUME NEW g \in fds
      PROVE  f <= g
  <2>1. f \in Nat /\ g \in Nat
    BY <1>1
  <2>2. ~ (<<g, f>> \in below)
    BY <1>4
  <2>3. ~ (g < f)
    BY <1>3, <2>1, <2>2
  <2> QED
    BY <2>1, <2>3
<1> QED
  BY <1>5 DEF Lowest

(* The rest changes one process, and nothing of what it took.              *)
LEMMA FinishSound ==
  ASSUME NEW n \in Counts, NEW pid, NEW unset \in BOOLEAN,
         NEW q, IsProcess(q), Sound(q, n, pid)
  PROVE  LET r == Finish(q, unset) IN
         IsProcess(r) /\ Sound(r, n, pid) /\ r.took = q.took /\ r.ret = q.ret
<1> DEFINE r == Finish(q, unset)
<1>1. /\ IsProcess(r) /\ r.fd = q.fd /\ r.sock = q.sock /\ r.state = q.state
      /\ r.listenPid = q.listenPid /\ r.listenFds = q.listenFds /\ r.names = q.names
      /\ r.took = q.took /\ r.announced = q.announced /\ r.sealed = q.sealed /\ r.ret = q.ret
      /\ r.unset = q.unset /\ r.kept = q.kept /\ r.shared = q.shared
  BY DEF Finish, IsProcess, Fields
<1> HIDE DEF r
<1>2. Sound(r, n, pid)
  BY <1>1 DEF Sound, Environment, Notification, Marked, Untouched
<1> QED
  BY <1>1, <1>2 DEF r

Changes(q, sock, l, d) == [q EXCEPT !.sock = sock, !.fd[l] = d]

(* A descriptor is opened that was free, or one is closed that is not a    *)
(* socket nobody was told of; and a call of sd_notify() knows the one that *)
(* it opened, until it closes it.                                          *)
LEMMA DescriptorSound ==
  ASSUME NEW n \in Counts, NEW pid, NEW q, IsProcess(q), Sound(q, n, pid),
         NEW l \in FD, NEW d \in Descriptor, NEW sock,
         q.fd[l].file # "socket" \/ l \in q.announced,
         d.file # "socket", d.file = "notify" => d.cloexec /\ sock = l,
         \/ sock = q.sock /\ q.fd[l].file # "notify"
         \/ q.sock = NoFd /\ sock = l /\ d.file = "notify"
         \/ q.sock = l /\ sock = NoFd,
         NEW r, r = Changes(q, sock, l, d)
  PROVE  IsProcess(r) /\ Sound(r, n, pid) /\ r.took = q.took /\ r.ret = q.ret
<1> DEFINE fds == [q.fd EXCEPT ![l] = d]
<1>1. fds \in [FD -> Descriptor] /\ fds[l] = d /\ \A f \in FD \ {l} : fds[f] = q.fd[f]
  BY DEF IsProcess
<1>2. r = [q EXCEPT !.sock = sock, !.fd = fds]
  BY DEF Changes, IsProcess, Fields
<1> HIDE DEF fds
<1>3. /\ IsProcess(r) /\ r.fd = fds /\ r.sock = sock /\ r.state = q.state
      /\ r.listenPid = q.listenPid /\ r.listenFds = q.listenFds /\ r.names = q.names
      /\ r.took = q.took /\ r.announced = q.announced /\ r.sealed = q.sealed /\ r.ret = q.ret
      /\ r.unset = q.unset /\ r.kept = q.kept /\ r.shared = q.shared
  BY <1>1, <1>2 DEF IsProcess, Fields
<1>4. Environment(r, n, pid)
  BY <1>3 DEF Sound, Environment
<1>5. Notification(r)
  <2>1. NoFd \notin FD
    BY DEF FD, NoFd, SD_LISTEN_FDS_START
  <2>2. /\ \A f \in FD : q.fd[f].file = "notify" => q.fd[f].cloexec /\ (f = q.sock \/ q.shared)
        /\ q.sock # NoFd => q.sock \in FD /\ q.fd[q.sock].file = "notify"
    BY DEF Sound, Notification
  <2>3. ASSUME NEW f \in FD, fds[f].file = "notify"
        PROVE  fds[f].cloexec /\ (f = sock \/ q.shared)
    <3>1. CASE f = l
      BY <1>1, <2>3, <3>1
    <3>2. CASE f # l
      <4>1. q.fd[f].cloexec /\ (f = q.sock \/ q.shared) /\ fds[f] = q.fd[f]
        BY <1>1, <2>2, <2>3, <3>2
      <4> QED
        BY <2>1, <3>2, <4>1
    <3> QED
      BY <3>1, <3>2
  <2>4. ASSUME sock # NoFd
        PROVE  sock \in FD /\ fds[sock].file = "notify"
    <3>1. CASE sock = l /\ d.file = "notify"
      BY <1>1, <3>1
    <3>2. CASE sock = q.sock /\ q.fd[l].file # "notify"
      <4>1. sock \in FD /\ q.fd[sock].file = "notify" /\ sock # l
        BY <2>2, <2>4, <3>2
      <4> QED
        BY <1>1, <4>1
    <3> QED
      BY <2>4, <3>1, <3>2
  <2> QED
    BY <1>3, <2>3, <2>4 DEF Notification
<1>6. Marked(r)
  BY <1>1, <1>3 DEF Sound, Marked
<1>7. Untouched(r, n)
  BY <1>1, <1>3 DEF Sound, Untouched, Fd
<1> QED
  BY <1>3, <1>4, <1>5, <1>6, <1>7 DEF Sound

Forked(q) ==
  [q EXCEPT !.sock = NoFd, !.ret = 0, !.why = 0, !.took = {}, !.shared = @ \/ q.sock # NoFd]

(* The child is what its parent is, without the thread in sd_notify().     *)
LEMMA ForkSound ==
  ASSUME NEW n \in Counts, NEW pid, NEW q, IsProcess(q), Sound(q, n, pid),
         NEW r, r = Forked(q)
  PROVE  IsProcess(r) /\ Sound(r, n, pid) /\ r.took = {} /\ r.ret = 0
<1>1. /\ IsProcess(r) /\ r.fd = q.fd /\ r.sock = NoFd /\ r.state = q.state
      /\ r.listenPid = q.listenPid /\ r.listenFds = q.listenFds /\ r.names = q.names
      /\ r.took = {} /\ r.announced = q.announced /\ r.sealed = q.sealed /\ r.ret = 0
      /\ r.unset = q.unset /\ r.kept = q.kept /\ r.shared = (q.shared \/ q.sock # NoFd)
  BY DEF Forked, IsProcess, Fields
<1>2. Environment(r, n, pid) /\ Notification(r)
  BY <1>1 DEF Sound, Environment, Notification
<1>3. Marked(r) /\ Untouched(r, n)
  BY <1>1, ZenonT(60) DEF Sound, Marked, Untouched
<1> QED
  BY <1>1, <1>2, <1>3 DEF Sound

Executes(q, fds) ==
  [q EXCEPT !.fd = fds, !.sock = NoFd, !.ret = 0, !.why = 0, !.took = {}, !.sealed = q.announced,
            !.shared = FALSE]

LEMMA ExecFields ==
  ASSUME NEW q, IsProcess(q), NEW fds \in [FD -> Descriptor],
         NEW r, r = Executes(q, fds)
  PROVE  /\ IsProcess(r) /\ r.fd = fds /\ r.sock = NoFd /\ r.state = q.state
         /\ r.listenPid = q.listenPid /\ r.listenFds = q.listenFds /\ r.names = q.names
         /\ r.took = {} /\ r.announced = q.announced /\ r.sealed = q.announced /\ r.ret = 0
         /\ r.unset = q.unset /\ r.kept = q.kept /\ ~ r.shared
BY DEF Executes, IsProcess, Fields

(* The program that is started has none of the descriptors that are marked.*)
LEMMA ExecSound ==
  ASSUME NEW n \in Counts, NEW pid, NEW q, IsProcess(q), Sound(q, n, pid),
         NEW fds, fds = [f \in FD |-> IF q.fd[f].cloexec THEN Closed ELSE q.fd[f]],
         NEW r, r = Executes(q, fds)
  PROVE  IsProcess(r) /\ Sound(r, n, pid) /\ r.took = {} /\ r.ret = 0
<1>1. Closed \in Descriptor /\ Closed.file = "none"
  BY DEF Closed, Fd, Descriptor, Files
<1>2. \A f \in FD : /\ fds[f] \in Descriptor
                    /\ (fds[f] = q.fd[f] /\ ~ q.fd[f].cloexec) \/ (q.fd[f].cloexec /\ fds[f].file = "none")
  BY <1>1 DEF IsProcess
<1>3. fds \in [FD -> Descriptor]
  BY <1>2
<1>4. /\ IsProcess(r) /\ r.fd = fds /\ r.sock = NoFd /\ r.state = q.state
      /\ r.listenPid = q.listenPid /\ r.listenFds = q.listenFds /\ r.names = q.names
      /\ r.took = {} /\ r.announced = q.announced /\ r.sealed = q.announced /\ r.ret = 0
      /\ r.unset = q.unset /\ r.kept = q.kept /\ ~ r.shared
  BY <1>3, ExecFields
<1>5. Environment(r, n, pid) /\ Notification(r)
  BY <1>2, <1>4, ZenonT(60) DEF Sound, Environment, Notification
<1>6. Marked(r)
  <2>1. ASSUME NEW f \in q.announced \cap FD
        PROVE  fds[f].file # "socket"
    BY <1>2 DEF Sound, Marked
  <2> QED
    BY <1>4, <2>1, ZenonT(60) DEF Marked
<1>7. Untouched(r, n)
  BY <1>2, <1>4, SMTT(60) DEF Sound, Untouched, Fd
<1> QED
  BY <1>4, <1>5, <1>6, <1>7 DEF Sound

LEMMA FreshSound ==
  ASSUME NEW n \in Counts, NEW pid \in PidValues
  PROVE  IsProcess(Fresh) /\ Sound(Fresh, n, pid) /\ Fresh.took = {} /\ Fresh.ret = 0
<1>1. /\ DOMAIN Fresh = Fields /\ Fresh.fd = [f \in FD |-> Closed] /\ Fresh.state = "none"
      /\ Fresh.listenPid = Absent /\ Fresh.listenFds = Absent /\ Fresh.names = FALSE
      /\ Fresh.took = {} /\ Fresh.sock = NoFd
      /\ Fresh.announced = {} /\ Fresh.sealed = {} /\ Fresh.ret = 0
      /\ Fresh.unset = FALSE /\ Fresh.kept = FALSE /\ Fresh.shared = FALSE
  BY DEF Fresh, Fields
<1>2. Closed \in Descriptor /\ Closed.file = "none"
  BY DEF Closed, Fd, Descriptor, Files
<1>3. IsProcess(Fresh)
  <2>1. [f \in FD |-> Closed] \in [FD -> Descriptor]
    <3> HIDE DEF Closed
    <3> QED
      BY <1>2, Zenon
  <2> QED
    BY <1>1, <2>1 DEF IsProcess, Fresh
<1>4. Sound(Fresh, n, pid)
  BY <1>1, <1>2 DEF Sound, Environment, Notification, Marked, Untouched
<1> QED
  BY <1>1, <1>3, <1>4

-----------------------------------------------------------------------------
(* All steps                                                               *)

(* What OwnFilesNotTaken says of one process.                              *)
SocketsOnly(p) ==
  ~ proc'[p].kept /\ proc[p].ret <= 0 /\ proc'[p].ret > 0
    => \A f \in proc'[p].took : proc[p].fd[f].file = "socket"

Kept(n, pid) == Processes' /\ AllSound(n, pid)' /\ \A p \in Pids : SocketsOnly(p)

(* It is enough to look at the process that changes.                       *)
LEMMA UpdateKeeps ==
  ASSUME Processes, NEW n \in Counts, NEW pid, AllSound(n, pid),
         NEW p \in Pids, NEW r, proc' = [proc EXCEPT ![p] = r],
         IsProcess(r), Sound(r, n, pid), r.took # {} => p = pid,
         ~ r.kept /\ proc[p].ret <= 0 /\ r.ret > 0
           => \A f \in r.took : proc[p].fd[f].file = "socket"
  PROVE  Kept(n, pid)
<1>1. DOMAIN proc' = Pids /\ proc'[p] = r /\ \A q \in Pids \ {p} : proc'[q] = proc[q]
  BY DEF Processes
<1>2. Processes'
  BY <1>1 DEF Processes
<1>3. AllSound(n, pid)'
  BY <1>1 DEF AllSound
<1>4. ASSUME NEW q \in Pids
      PROVE  SocketsOnly(q)
  BY <1>1 DEF SocketsOnly, Processes, IsProcess
<1> QED
  BY <1>2, <1>3, <1>4 DEF Kept

LEMMA UpdateAside ==
  ASSUME Processes, NEW n \in Counts, NEW pid, AllSound(n, pid),
         NEW p \in Pids, NEW r, proc' = [proc EXCEPT ![p] = r],
         IsProcess(r), Sound(r, n, pid),
         (r.took = proc[p].took /\ r.ret = proc[p].ret) \/ (r.took = {} /\ r.ret = 0)
  PROVE  Kept(n, pid)
<1>1. r.took # {} => p = pid
  BY DEF AllSound
<1>2. ~ (proc[p].ret <= 0 /\ r.ret > 0)
  BY DEF Processes, IsProcess
<1> QED
  BY <1>1, <1>2, UpdateKeeps

LEMMA InitIInv == Init => IInv
<1> SUFFICES ASSUME Init PROVE IInv
  OBVIOUS
<1> DEFINE First(n, pid, addr, m) ==
             [Fresh EXCEPT !.state = "runs", !.listenPid = pid, !.listenFds = m, !.names = TRUE, !.notify = addr,
                !.fd = [f \in FD |-> IF f \in Passed(n) THEN Fd("socket", FALSE) ELSE Closed]]
<1>0. PICK n \in Counts, pid \in PidValues, addr \in {Absent, Malformed, Path} :
        \E m \in FdsValues \cup {n} :
          proc = [p \in Pids |-> IF p # Service THEN Fresh ELSE First(n, pid, addr, m)]
  BY DEF Init, Counts
<1>1. PICK m \in FdsValues \cup {n} :
        proc = [p \in Pids |-> IF p # Service THEN Fresh ELSE First(n, pid, addr, m)]
  BY <1>0
<1> DEFINE fds == [f \in FD |-> IF f \in Passed(n) THEN Fd("socket", FALSE) ELSE Closed]
           r == [Fresh EXCEPT !.state = "runs", !.listenPid = pid, !.listenFds = m, !.names = TRUE, !.notify = addr, !.fd = fds]
<1>2. /\ DOMAIN proc = Pids /\ proc[Service] = r
      /\ \A p \in Pids \ {Service} : proc[p] = Fresh
  BY <1>1, ProcessAssumption
<1>3. /\ Closed \in Descriptor /\ Closed.file = "none"
      /\ Fd("socket", FALSE) \in Descriptor /\ Fd("socket", FALSE).file = "socket"
  BY DEF Closed, Fd, Descriptor, Files
<1>4. fds \in [FD -> Descriptor] /\ \A f \in FD : fds[f].file # "notify"
  <2>1. \A f \in FD : fds[f] \in Descriptor /\ fds[f].file # "notify"
    BY <1>3
  <2> QED
    BY <2>1
<1>5. \A f \in Passed(n) : f \in FD /\ fds[f] = Fd("socket", FALSE)
  <2>1. Passed(n) \subseteq FD
    BY ProcessAssumption DEF Passed, FD, Counts, SD_LISTEN_FDS_START
  <2> QED
    BY <2>1
<1>6. IsProcess(Fresh) /\ Sound(Fresh, n, pid) /\ Fresh.took = {} /\ Fresh.announced = {} /\ Fresh.sealed = {}
  BY FreshSound DEF Fresh
<1>7. Fresh.unset = FALSE /\ Fresh.sock = NoFd
  BY DEF Fresh
<1> HIDE DEF fds
<1>8. /\ IsProcess(r) /\ r.fd = fds /\ r.listenPid = pid /\ r.listenFds = m
      /\ r.took = {} /\ r.announced = {} /\ r.sealed = {} /\ r.unset = FALSE /\ r.sock = NoFd
  BY <1>4, <1>6, <1>7 DEF IsProcess, Fields
<1> HIDE DEF r
<1>9. Sound(r, n, pid)
  BY <1>4, <1>5, <1>8 DEF Sound, Environment, Notification, Marked, Untouched
<1> QED
  BY <1>2, <1>6, <1>8, <1>9 DEF IInv, Processes, AllSound

LEMMA NextKeeps ==
  ASSUME Processes, NEW n \in Counts, NEW pid \in PidValues, AllSound(n, pid), [Next]_proc
  PROVE  Kept(n, pid)
<1>1. CASE UNCHANGED proc
  BY <1>1 DEF Kept, Processes, AllSound, SocketsOnly, IsProcess
<1>2. ASSUME NEW p \in Pids, NEW unset \in UnsetChoices, SdListenFds(p, unset)
      PROVE  Kept(n, pid)
  <2> DEFINE r == unsetenv_all(listen_fds(proc[p], p), unset)
  <2>1. proc' = [proc EXCEPT ![p] = r] /\ proc[p].state = "runs"
    BY <1>2 DEF SdListenFds, Set, Runs
  <2>2. IsProcess(proc[p]) /\ Sound(proc[p], n, pid) /\ unset \in BOOLEAN
    BY ProcessAssumption DEF Processes, AllSound
  <2>3. /\ IsProcess(r) /\ Sound(r, n, pid) /\ (r.took # {} => p = pid)
        /\ ~ r.kept /\ r.ret > 0 => \A f \in r.took : proc[p].fd[f].file = "socket"
    BY <2>1, <2>2, ListenSound
  <2> HIDE DEF r
  <2> QED
    BY <2>1, <2>3, UpdateKeeps
<1>3. ASSUME NEW p \in Pids, NEW unset \in UnsetChoices, SdNotifyFails(p, unset)
      PROVE  Kept(n, pid)
  <2> DEFINE r == Finish(proc[p], unset)
  <2>1. proc' = [proc EXCEPT ![p] = r]
    BY <1>3 DEF SdNotifyFails, Set
  <2>2. IsProcess(proc[p]) /\ Sound(proc[p], n, pid) /\ unset \in BOOLEAN
    BY ProcessAssumption DEF Processes, AllSound
  <2>3. IsProcess(r) /\ Sound(r, n, pid) /\ r.took = proc[p].took /\ r.ret = proc[p].ret
    BY <2>1, <2>2, FinishSound
  <2> HIDE DEF r
  <2> QED
    BY <2>1, <2>2, <2>3, UpdateAside
<1>4. ASSUME NEW p \in Pids, NEW unset \in UnsetChoices, SdNotifySent(p, unset)
      PROVE  Kept(n, pid)
  <2> DEFINE q == Finish(proc[p], unset)
             r == Changes(q, NoFd, q.sock, Closed)
  <2>1. proc' = [proc EXCEPT ![p] = r] /\ proc[p].sock # NoFd
    BY <1>4 DEF SdNotifySent, Set, Shut, Changes
  <2>2. IsProcess(proc[p]) /\ Sound(proc[p], n, pid) /\ unset \in BOOLEAN
    BY ProcessAssumption DEF Processes, AllSound
  <2>3. /\ IsProcess(q) /\ Sound(q, n, pid) /\ q.took = proc[p].took /\ q.ret = proc[p].ret
        /\ q.sock = proc[p].sock
    BY <2>2, FinishSound DEF Finish, IsProcess, Fields
  <2>4. Closed \in Descriptor /\ Closed.file = "none"
    BY DEF Closed, Fd, Descriptor, Files
  <2> HIDE DEF q
  <2>5. q.sock \in FD /\ q.fd[q.sock].file = "notify"
    BY <2>1, <2>3 DEF Sound, Notification
  <2>6. IsProcess(r) /\ Sound(r, n, pid) /\ r.took = q.took /\ r.ret = q.ret
    BY <2>3, <2>4, <2>5, DescriptorSound
  <2> HIDE DEF r
  <2> QED
    BY <2>1, <2>2, <2>3, <2>6, UpdateAside
<1>5. ASSUME NEW p \in Pids, SdNotify(p)
      PROVE  Kept(n, pid)
  <2> DEFINE q == proc[p]
             l == Lowest(Free(q))
             d == Fd("notify", TRUE)
             r == Changes(q, l, l, d)
  <2>1. proc' = [proc EXCEPT ![p] = r] /\ q.sock = NoFd
    BY <1>5 DEF SdNotify, Set, Opened, Changes
  <2>2. IsProcess(q) /\ Sound(q, n, pid)
    BY DEF Processes, AllSound
  <2>3. l \in FD /\ q.fd[l].file = "none" /\ q.fd[l].file # "socket"
    BY <1>5, LowestMember DEF SdNotify, Free
  <2>4. d \in Descriptor /\ d.file = "notify" /\ d.file # "socket" /\ d.cloexec
    BY DEF Fd, Descriptor, Files
  <2> HIDE DEF l, d, q
  <2>5. IsProcess(r) /\ Sound(r, n, pid) /\ r.took = q.took /\ r.ret = q.ret
    BY <2>1, <2>2, <2>3, <2>4, DescriptorSound
  <2> HIDE DEF r
  <2> QED
    BY <2>1, <2>2, <2>5, UpdateAside DEF q
<1>6. ASSUME NEW p \in Pids, OpenFile(p)
      PROVE  Kept(n, pid)
  <2> DEFINE q == proc[p]
             l == Lowest(Free(q))
             d == Fd("own", FALSE)
             r == Changes(q, q.sock, l, d)
  <2>1. proc' = [proc EXCEPT ![p] = [q EXCEPT !.fd[l] = d]]
    BY <1>6 DEF OpenFile, Set
  <2>2. IsProcess(q) /\ Sound(q, n, pid)
    BY DEF Processes, AllSound
  <2>3. l \in FD /\ q.fd[l].file = "none" /\ q.fd[l].file # "socket" /\ q.fd[l].file # "notify"
    BY <1>6, LowestMember DEF OpenFile, Free
  <2>4. d \in Descriptor /\ d.file = "own" /\ d.file # "socket" /\ d.file # "notify"
    BY DEF Fd, Descriptor, Files
  <2> HIDE DEF l, d, q
  <2>5. r = [q EXCEPT !.fd[l] = d]
    BY <2>2 DEF IsProcess, Fields, Changes
  <2>6. IsProcess(r) /\ Sound(r, n, pid) /\ r.took = q.took /\ r.ret = q.ret
    BY <2>2, <2>3, <2>4, DescriptorSound
  <2> HIDE DEF r
  <2>7. proc' = [proc EXCEPT ![p] = r]
    BY <2>1, <2>5
  <2> QED
    BY <2>6, <2>7, UpdateAside DEF q
<1>7. ASSUME NEW p \in Pids, CloseFile(p)
      PROVE  Kept(n, pid)
  <2> DEFINE q == proc[p]
  <2>1. PICK l \in FD :
          /\ q.fd[l].file \in {"own"} \cup (IF l \in q.announced THEN {"socket"} ELSE {})
          /\ proc' = [proc EXCEPT ![p] = [q EXCEPT !.fd[l] = Closed]]
    BY <1>7 DEF CloseFile, Set
  <2> DEFINE r == Changes(q, q.sock, l, Closed)
  <2>2. IsProcess(q) /\ Sound(q, n, pid)
    BY DEF Processes, AllSound
  <2>3. (q.fd[l].file # "socket" \/ l \in q.announced) /\ q.fd[l].file # "notify"
    BY <2>1
  <2>4. Closed \in Descriptor /\ Closed.file = "none" /\ Closed.file # "socket" /\ Closed.file # "notify"
    BY DEF Closed, Fd, Descriptor, Files
  <2> HIDE DEF q
  <2>5. r = [q EXCEPT !.fd[l] = Closed]
    BY <2>2 DEF IsProcess, Fields, Changes
  <2>6. IsProcess(r) /\ Sound(r, n, pid) /\ r.took = q.took /\ r.ret = q.ret
    BY <2>2, <2>3, <2>4, DescriptorSound
  <2> HIDE DEF r
  <2>7. proc' = [proc EXCEPT ![p] = r]
    BY <2>1, <2>5
  <2> QED
    BY <2>6, <2>7, UpdateAside DEF q
<1>8. ASSUME NEW p \in Pids, Fork(p)
      PROVE  Kept(n, pid)
  <2> DEFINE q == proc[p]
             r == Forked(q)
  <2>1. PICK c \in Pids : proc' = [proc EXCEPT ![c] = r]
    BY <1>8 DEF Fork, Forked
  <2>2. IsProcess(q) /\ Sound(q, n, pid)
    BY DEF Processes, AllSound
  <2> HIDE DEF q
  <2>3. IsProcess(r) /\ Sound(r, n, pid) /\ r.took = {} /\ r.ret = 0
    BY <2>2, ForkSound
  <2> HIDE DEF r
  <2> QED
    BY <2>1, <2>3, UpdateAside
<1>9. ASSUME NEW p \in Pids, Exec(p)
      PROVE  Kept(n, pid)
  <2> DEFINE q == proc[p]
             fds == [f \in FD |-> IF q.fd[f].cloexec THEN Closed ELSE q.fd[f]]
             r == Executes(q, fds)
  <2>1. proc' = [proc EXCEPT ![p] = r]
    BY <1>9 DEF Exec, Set, Executes
  <2>2. IsProcess(q) /\ Sound(q, n, pid)
    BY DEF Processes, AllSound
  <2>3. IsProcess(r) /\ Sound(r, n, pid) /\ r.took = {} /\ r.ret = 0
    BY <2>2, ExecSound
  <2> HIDE DEF r
  <2> QED
    BY <2>1, <2>3, UpdateAside
<1>10. ASSUME NEW p \in Pids, Exit(p)
       PROVE  Kept(n, pid)
  <2>1. proc' = [proc EXCEPT ![p] = Fresh]
    BY <1>10 DEF Exit, Set
  <2>2. IsProcess(Fresh) /\ Sound(Fresh, n, pid) /\ Fresh.took = {} /\ Fresh.ret = 0
    BY FreshSound
  <2> QED
    BY <2>1, <2>2, UpdateAside
<1> QED
  BY <1>1, <1>2, <1>3, <1>4, <1>5, <1>6, <1>7, <1>8, <1>9, <1>10 DEF Next, SdNotifyf

LEMMA NextIInv == IInv /\ [Next]_proc => IInv'
<1> SUFFICES ASSUME IInv, [Next]_proc PROVE IInv'
  OBVIOUS
<1>1. PICK n \in Counts, pid \in PidValues : AllSound(n, pid)
  BY DEF IInv
<1>2. Kept(n, pid)
  BY <1>1, NextKeeps DEF IInv
<1> QED
  BY <1>2 DEF IInv, Kept

LEMMA Invariance == Spec => []IInv
BY InitIInv, NextIInv, PTL DEF Spec

-----------------------------------------------------------------------------
(* No program is started with a socket that sd_listen_fds() returned to    *)
(* the process that starts it, or to one that process was forked from:     *)
(* sd_listen_fds() marks all that it returns, and nobody unmarks them.     *)
THEOREM NoneIsPassedOn == Spec => []NotPassedOn
<1>1. IInv => NotPassedOn
  BY DEF IInv, AllSound, Sound, Marked, NotPassedOn
<1> QED
  BY <1>1, Invariance, PTL

(* Two processes never have the sockets from sd_listen_fds() at a time,    *)
(* however many inherited descriptors and environment: LISTEN_PID names    *)
(* one of them.                                                            *)
THEOREM OneProcessOwns == Spec => []OneOwner
<1>1. IInv => OneOwner
  <2> SUFFICES ASSUME IInv, NEW p \in Pids, NEW r \in Pids, p # r
               PROVE  proc[p].took = {} \/ proc[r].took = {}
    BY DEF OneOwner
  <2>1. PICK n \in Counts, pid \in PidValues : AllSound(n, pid)
    BY DEF IInv
  <2> QED
    BY <2>1 DEF AllSound
<1> QED
  BY <1>1, Invariance, PTL

(* Once a caller of sd_listen_fds() asked for it, LISTEN_PID, LISTEN_FDS   *)
(* and LISTEN_FDNAMES are gone, in the process and in all that descend from it,    *)
(* whether the call succeeded or failed.                                   *)
THEOREM EnvironmentIsClean == Spec => []EnvironmentClean
<1>1. IInv => EnvironmentClean
  BY DEF IInv, AllSound, Sound, Environment, EnvironmentClean
<1> QED
  BY <1>1, Invariance, PTL

(* A socket of sd_notify() is the one that the process's own call opened,  *)
(* or the process was forked during such a call and runs the same program  *)
(* still: the socket is marked from the moment it exists, so that exec()   *)
(* closes it in every process that has it.                                 *)
THEOREM NotifySocketStays == Spec => []NotifySocketOurs
<1>1. IInv => NotifySocketOurs
  BY DEF IInv, AllSound, Sound, Notification, NotifySocketOurs
<1> QED
  BY <1>1, Invariance, PTL

(* If every caller of sd_listen_fds() has the environment cleaned, what it *)
(* returns are sockets that systemd passed and never files that the        *)
(* program opened in their place: the first call finds all sockets         *)
(* untouched, and for the others the variables are gone.                   *)
THEOREM OnlySocketsTaken == Spec => OwnFilesNotTaken
<1>1. IInv /\ [Next]_proc =>
        [\A p \in Pids : ~ proc'[p].kept /\ proc[p].ret <= 0 /\ proc'[p].ret > 0
           => \A f \in proc'[p].took : proc[p].fd[f].file = "socket"]_proc
  <2> SUFFICES ASSUME IInv, [Next]_proc, NEW p \in Pids
               PROVE  SocketsOnly(p)
    BY DEF SocketsOnly
  <2>1. PICK n \in Counts, pid \in PidValues : AllSound(n, pid)
    BY DEF IInv
  <2>2. Kept(n, pid)
    BY <2>1, NextKeeps DEF IInv
  <2> QED
    BY <2>2 DEF Kept
<1> QED
  BY <1>1, Invariance, PTL DEF Spec, OwnFilesNotTaken

=============================================================================
