------------------------------- MODULE Epoll -------------------------------
(***************************************************************************)
(* epoll (api/src/imp/fs/io_mpx/epoll.rs): EpollInstance with its map of   *)
(* events under a spin lock, sys_epoll_ctl and sys_epoll_wait, over a      *)
(* descriptor table whose entries come and go.                             *)
(*                                                                         *)
(* poll_all holds the instance's lock while it looks up and polls one      *)
(* descriptor after another; polling an EpollInstance takes its lock too.  *)
(***************************************************************************)
EXTENDS Integers, Sequences, FiniteSets

CONSTANTS Threads, Fds,
          Plain,       \* files other than epoll instances
          Epolls,      \* epoll instances
          Masks,       \* event masks that programs ask for
          MaxEvents,   \* length of the event buffer of epoll_wait
          EpollFds,    \* descriptors at which programs open instances
          WatchFds,    \* descriptors that programs register
          None         \* no file, no thread

ASSUME EpollAssumption ==
  /\ Fds \subseteq Nat /\ Masks \subseteq SUBSET {"in", "out", "err"}
  /\ MaxEvents \in Nat \ {0}
  /\ EpollFds \subseteq Fds /\ EpollFds # {} /\ WatchFds \subseteq Fds
  /\ None \notin Plain \cup Epolls \cup Threads /\ Plain \cap Epolls = {}

VARIABLES files,    \* descriptor -> file
          ready,    \* what each plain file is ready for
          events,   \* EpollInstance::events: descriptor -> mask
          lock,     \* the thread that holds the lock of an instance
          call      \* what each thread is doing

vars == <<files, ready, events, lock, call>>

PCs == {"user", "ctl_check", "ctl_apply", "poll_lock", "poll_get", "poll_file", "yield"}
Idle == [pc |-> "user", ep |-> None, op |-> "add", fd |-> 0, mask |-> {},
         timed |-> FALSE, file |-> None, rest |-> <<>>, found |-> <<>>]

Put(e, fd, mask) == [x \in DOMAIN e \cup {fd} |-> IF x = fd THEN mask ELSE e[x]]
Drop(e, fd) == [x \in DOMAIN e \ {fd} |-> e[x]]
Lowest(S) == {x \in S : \A y \in S : x <= y}

-----------------------------------------------------------------------------
(* Descriptors are opened and closed, and files become ready or not,       *)
(* whatever the calls on an instance are doing.                            *)
OpenFd(t, fd, f) ==
  /\ call[t].pc = "user" /\ files[fd] = None
  /\ f \in Epolls <=> fd \in EpollFds
  /\ files' = [files EXCEPT ![fd] = f]
  /\ UNCHANGED <<ready, events, lock, call>>

CloseFd(t, fd) ==
  /\ call[t].pc = "user" /\ files[fd] # None
  /\ files' = [files EXCEPT ![fd] = None]
  /\ UNCHANGED <<ready, events, lock, call>>

SetReady(f, r) ==
  /\ ready[f] # r
  /\ ready' = [ready EXCEPT ![f] = r]
  /\ UNCHANGED <<files, events, lock, call>>

-----------------------------------------------------------------------------
(* sys_epoll_ctl *)

(* EpollInstance::from_fd; EINVAL or EBADF otherwise.                      *)
Ctl(t, epfd, op, fd, mask) ==
  /\ call[t].pc = "user" /\ files[epfd] \in Epolls
  /\ call' = [call EXCEPT ![t] = [Idle EXCEPT !.pc = "ctl_check", !.ep = files[epfd],
                                  !.op = op, !.fd = fd, !.mask = mask]]
  /\ UNCHANGED <<files, ready, events, lock>>

(* control: the descriptor must be open; EBADF otherwise.                  *)
CtlCheck(t) ==
  /\ call[t].pc = "ctl_check"
  /\ call' = [call EXCEPT ![t] = IF files[call[t].fd] = None THEN Idle
                                 ELSE [@ EXCEPT !.pc = "ctl_apply"]]
  /\ UNCHANGED <<files, ready, events, lock>>

(* Variant: the map is changed without the lock.                           *)
CtlApplyUnlocked(t) ==
  LET c == call[t]
      e == events[c.ep]
  IN  /\ c.pc = "ctl_apply"
      /\ events' = [events EXCEPT ![c.ep] =
           IF (c.op = "add") = (c.fd \in DOMAIN e) THEN e
           ELSE IF c.op = "del" THEN Drop(e, c.fd) ELSE Put(e, c.fd, c.mask)]
      /\ call' = [call EXCEPT ![t] = Idle]
      /\ UNCHANGED <<files, ready, lock>>

(* EEXIST for an add of what is there, ENOENT for a change of what is not. *)
CtlApply(t) ==
  LET c == call[t]
      e == events[c.ep]
  IN  /\ c.pc = "ctl_apply"
      /\ lock[c.ep] = None
      /\ events' = [events EXCEPT ![c.ep] =
           IF (c.op = "add") = (c.fd \in DOMAIN e) THEN e
           ELSE IF c.op = "del" THEN Drop(e, c.fd) ELSE Put(e, c.fd, c.mask)]
      /\ call' = [call EXCEPT ![t] = Idle]
      /\ UNCHANGED <<files, ready, lock>>

-----------------------------------------------------------------------------
(* sys_epoll_wait and poll_all *)

EpollWait(t, epfd, timed) ==
  /\ call[t].pc = "user" /\ files[epfd] \in Epolls
  /\ call' = [call EXCEPT ![t] = [Idle EXCEPT !.pc = "poll_lock", !.ep = files[epfd],
                                              !.timed = timed]]
  /\ UNCHANGED <<files, ready, events, lock>>

PollLock(t) ==
  LET ep == call[t].ep
  IN  /\ call[t].pc = "poll_lock"
      /\ lock[ep] = None
      /\ lock' = [lock EXCEPT ![ep] = t]
      /\ call' = [call EXCEPT ![t] = [@ EXCEPT !.pc = "poll_get", !.rest = events[ep],
                                               !.found = <<>>]]
      /\ UNCHANGED <<files, ready, events>>

(* get_file_like of the next descriptor of the map.                        *)
PollGet(t) ==
  LET c == call[t]
  IN  /\ c.pc = "poll_get" /\ Len(c.found) < MaxEvents
      /\ \E fd \in Lowest(DOMAIN c.rest) :
           call' = [call EXCEPT ![t] = [c EXCEPT !.pc = "poll_file", !.fd = fd,
                     !.mask = c.rest[fd], !.file = files[fd], !.rest = Drop(c.rest, fd)]]
      /\ UNCHANGED <<files, ready, events, lock>>

(* What the poll of a file says; an instance is readable when its map is   *)
(* not empty.                                                              *)
State(f) == IF f \in Epolls THEN {x \in {"in"} : DOMAIN events[f] # {}} ELSE ready[f]

(* The one event reported for a descriptor: input before output.           *)
Reported(f, mask) ==
  IF f = None THEN {"err"} \cap mask
  ELSE IF "in" \in State(f) \cap mask THEN {"in"} ELSE State(f) \cap mask \cap {"out"}

(* FileLike::poll; the poll of an instance waits for its lock.             *)
PollFile(t) ==
  LET c == call[t]
      r == Reported(c.file, c.mask)
  IN  /\ c.pc = "poll_file"
      /\ c.file \in Epolls => lock[c.file] = None
      /\ call' = [call EXCEPT ![t] = [c EXCEPT !.pc = "poll_get", !.file = None,
                   !.found = IF r = {} THEN c.found ELSE Append(c.found, [fd |-> c.fd, ev |-> r])]]
      /\ UNCHANGED <<files, ready, events, lock>>

(* The lock is released; epoll_wait returns what was found, or yields.     *)
PollEnd(t) ==
  LET c == call[t]
  IN  /\ c.pc = "poll_get"
      /\ DOMAIN c.rest = {} \/ Len(c.found) >= MaxEvents
      /\ lock' = [lock EXCEPT ![c.ep] = None]
      /\ call' = [call EXCEPT ![t] = IF c.found # <<>> THEN Idle
                                     ELSE [c EXCEPT !.pc = "yield", !.rest = <<>>]]
      /\ UNCHANGED <<files, ready, events>>

(* Variant: the deadline is set for a negative timeout only.               *)
ExpireUntimed(t) ==
  /\ call[t].pc = "yield" /\ ~call[t].timed
  /\ call' = [call EXCEPT ![t] = Idle]
  /\ UNCHANGED <<files, ready, events, lock>>

(* Back from yield_now the deadline has passed, and 0 is returned, or the  *)
(* loop goes on.                                                           *)
Expire(t) ==
  /\ call[t].pc = "yield" /\ call[t].timed
  /\ call' = [call EXCEPT ![t] = Idle]
  /\ UNCHANGED <<files, ready, events, lock>>

Again(t) ==
  /\ call[t].pc = "yield"
  /\ call' = [call EXCEPT ![t] = [@ EXCEPT !.pc = "poll_lock"]]
  /\ UNCHANGED <<files, ready, events, lock>>

-----------------------------------------------------------------------------
Init ==
  /\ files = [fd \in Fds |-> None]
  /\ ready = [f \in Plain |-> {}]
  /\ events = [e \in Epolls |-> <<>>]
  /\ lock = [e \in Epolls |-> None]
  /\ call = [t \in Threads |-> Idle]

Begin(t) ==
  \/ \E fd \in Fds, f \in Plain \cup Epolls : OpenFd(t, fd, f)
  \/ \E fd \in Fds : CloseFd(t, fd)
  \/ \E epfd \in EpollFds, fd \in WatchFds, op \in {"add", "mod", "del"}, mask \in Masks :
       Ctl(t, epfd, op, fd, mask)
  \/ \E epfd \in EpollFds, timed \in BOOLEAN : EpollWait(t, epfd, timed)

Continue(t) ==
  \/ CtlCheck(t) \/ CtlApply(t)
  \/ PollLock(t) \/ PollGet(t) \/ PollFile(t) \/ PollEnd(t) \/ Again(t)

Next ==
  \/ \E t \in Threads : Begin(t) \/ Continue(t) \/ Expire(t)
  \/ \E f \in Plain, r \in SUBSET {"in", "out"} : SetReady(f, r)

Spec == Init /\ [][Next]_vars

(* The scheduler runs every thread; the lock is handed to a waiter that    *)
(* keeps trying (a thread waits in one of three places); and a deadline    *)
(* passes.                                                                 *)
FairSpec ==
  /\ Spec
  /\ \A t \in Threads : /\ WF_vars(Continue(t) \/ Expire(t))
                        /\ SF_vars(CtlApply(t) \/ PollLock(t) \/ PollFile(t))
                        /\ SF_vars(Expire(t))

-----------------------------------------------------------------------------
(* Every variable keeps its type, and the event buffer is not overrun.     *)
TypeOK ==
  /\ files \in [Fds -> Plain \cup Epolls \cup {None}]
  /\ ready \in [Plain -> SUBSET {"in", "out"}]
  /\ \A e \in Epolls : DOMAIN events[e] \subseteq Fds /\
       \A fd \in DOMAIN events[e] : events[e][fd] \in Masks
  /\ lock \in [Epolls -> Threads \cup {None}]
  /\ \A t \in Threads : call[t].pc \in PCs /\ Len(call[t].found) <= MaxEvents

(* While poll_all collects, and when it is done, everything it has         *)
(* collected is registered at this moment, for the event it reports: no    *)
(* epoll_ctl of another thread comes in between.                           *)
ReportsRegistered ==
  \A t \in Threads : call[t].pc \in {"poll_get", "poll_file"} =>
    \A i \in 1..Len(call[t].found) :
      LET x == call[t].found[i]
      IN  /\ x.fd \in DOMAIN events[call[t].ep]
          /\ x.ev \subseteq events[call[t].ep][x.fd]

(* An epoll_wait with a timeout, and an epoll_ctl, return, as long as no   *)
(* descriptor that is registered can hold an instance.                     *)
TimedWaitReturns ==
  \A t \in Threads :
    (call[t].pc # "user" /\ (call[t].timed \/ call[t].pc \in {"ctl_check", "ctl_apply"}))
      ~> (call[t].pc = "user")
=============================================================================
