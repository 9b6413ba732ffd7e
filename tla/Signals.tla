------------------------------ MODULE Signals ------------------------------
(***************************************************************************)
(* Signals: the system calls of api/src/imp/signal.rs, their delivery      *)
(* after a trap (api/src/signal.rs) and the wait queue that core/src/      *)
(* task.rs hands to axsignal.                                              *)
(*                                                                         *)
(* axsignal keeps a set of pending signals for each thread and for each    *)
(* process, a mask for each thread and the frames of the handlers that     *)
(* run; a signal is taken from the thread's set before the process's, the  *)
(* lowest number first.  A process has one wait queue, for all its threads *)
(* that wait for signals.  The module follows one process; signals come    *)
(* from its own threads and from others.                                   *)
(***************************************************************************)
EXTENDS Integers, Sequences, FiniteSets

CONSTANTS Threads, Process,         \* the process and its threads
          Sigs, SIGKILL, SIGCONT,   \* signal numbers
          Masks, Sets,  \* bound: sets for sigprocmask, and for waiting
          Acts,       \* bound: dispositions that sigaction gives
          Maskers,    \* bound: threads that change masks and dispositions, or use timeouts
          MaxSends    \* bound: calls that send a signal

ASSUME SignalAssumption ==
  /\ Sigs \subseteq Nat /\ {SIGKILL, SIGCONT} \subseteq Sigs
  /\ Masks \cup Sets \subseteq SUBSET Sigs
  /\ Acts \subseteq [sig : Sigs, act : {"default", "ignore", "handler"}]
  /\ IsFiniteSet(Threads) /\ Process \notin Threads /\ MaxSends \in Nat

VARIABLES pending,    \* of each thread and of the process
          blocked,    \* mask of each thread
          actions,    \* disposition of each signal
          frames,     \* handlers a thread is inside of, innermost last
          wq,         \* the queue of the process
          pc, arg,    \* what a thread is doing, and with which set
          expired,    \* the deadline of sigtimedwait has passed
          sends,      \* signals sent so far
          group_exited,  \* Process::is_group_exited
          owed,       \* masks the program has chosen, one more than frames
          kept,       \* sigsuspend has returned without giving its mask back
          excused     \* a wakeup for a thread came too early or went astray

sigVars == <<pending, blocked, actions, frames>>
ghosts == <<owed, kept, excused>>
vars == <<sigVars, wq, pc, arg, expired, sends, group_exited, ghosts>>

NoArg == [set |-> {}, timed |-> FALSE]
Alive(t) == pc[t] # "dead"
Asleep(t) == pc[t] \in {"asleep", "timed_asleep"}
Targets == Threads \cup {Process}
Goto(t, l) == pc' = [pc EXCEPT ![t] = l]
Lowest(S) == CHOOSE s \in S : \A r \in S : s <= r
Front(seq) == SubSeq(seq, 1, Len(seq) - 1)

Init ==
  /\ pending = [x \in Targets |-> {}]
  /\ blocked = [t \in Threads |-> {}]
  /\ actions = [s \in Sigs |-> "default"]
  /\ frames = [t \in Threads |-> <<>>]
  /\ wq = <<>>
  /\ pc = [t \in Threads |-> "user"] /\ arg = [t \in Threads |-> NoArg]
  /\ expired = [t \in Threads |-> FALSE] /\ sends = 0
  /\ group_exited = FALSE
  /\ owed = [t \in Threads |-> <<{}>>] /\ kept = [t \in Threads |-> FALSE]
  /\ excused = [t \in Threads |-> FALSE]

-----------------------------------------------------------------------------
(* axsignal: what is pending, and what is taken *)

(* The signals that end the wait of t: those it leaves unblocked while it  *)
(* is in sigsuspend, those it has asked for in sigtimedwait.               *)
Awaited(t) ==
  IF pc[t] \in {"timed", "timed_enter", "timed_asleep"}
  THEN arg[t].set ELSE Sigs \ blocked[t]
Ready(t) == (pending[t] \cup pending[Process]) \cap Awaited(t)

Ignored(s) == actions[s] = "ignore"

(* The first of the unblocked signals that is not ignored, with the set it *)
(* is taken from; the ignored ones before it are dropped.                  *)
Acting(t, x) == {s \in pending[x] \ blocked[t] : ~Ignored(s)}
From(t) == IF Acting(t, t) # {} THEN t ELSE Process
Taken(t) == Acting(t, From(t))
Rest(t, x) ==
  IF Acting(t, x) = {} THEN pending[x] \cap blocked[t]
  ELSE {s \in pending[x] : s \in blocked[t] \/ s > Lowest(Acting(t, x))}
Dequeue(t) ==
  pending' = IF From(t) = t THEN [pending EXCEPT ![t] = Rest(t, t)]
             ELSE [pending EXCEPT ![t] = Rest(t, t), ![Process] = Rest(t, Process)]

-----------------------------------------------------------------------------
(* Sending *)

(* Variant: the threads taken off the queue are not made ready.            *)
AwakeNone(n) == pc

(* The threads go on when the first n of the queue are woken.              *)
Awake(n) ==
  [t \in Threads |->
     IF \A i \in 1..Len(wq) : wq[i] = t => i > n THEN pc[t]
     ELSE IF pc[t] = "asleep" THEN "suspend" ELSE "timed"]

(* The signal is for t, and the n wakeups find it on its way into the      *)
(* queue, or wake others.                                                  *)
Astray(t, X, s, n) ==
  /\ {t, Process} \cap X # {} /\ s \in Awaited(t)
  /\ \/ pc[t] \in {"suspend_enter", "timed_enter"}
     \/ Asleep(t) /\ \A i \in 1..Len(wq) : wq[i] = t => i > n

(* send_signal of the process or of threads of it: the signal becomes      *)
(* pending, once, and each time the queue is notified.                     *)
Send(X, s) ==
  /\ pending' = [x \in Targets |-> pending[x] \cup (IF x \in X THEN {s} ELSE {})]
  /\ excused' = [t \in Threads |-> excused[t] \/ Astray(t, X, s, Cardinality(X))]
  /\ wq' = SubSeq(wq, Cardinality(X) + 1, Len(wq))

(* sys_kill, sys_tkill, sys_tgkill and the queueing calls, of a thread of  *)
(* the process.  sys_kill of a group or of all processes comes here once   *)
(* for each process.  A call with signal 0 does nothing, and a thread that *)
(* has ended is not found.                                                 *)
Kill(t, x, s) ==
  /\ pc[t] = "user" /\ sends < MaxSends /\ (x \in Threads => Alive(x))
  /\ Send({x}, s) /\ pc' = [Awake(1) EXCEPT ![t] = "trap"]
  /\ sends' = sends + 1
  /\ UNCHANGED <<blocked, actions, frames, arg, expired, group_exited, owed, kept>>

(* The same calls of other processes, and the exit signal of a child.      *)
KillByOther(x, s) ==
  /\ sends < MaxSends /\ (x \in Threads => Alive(x))
  /\ Send({x}, s) /\ pc' = Awake(1)
  /\ sends' = sends + 1
  /\ UNCHANGED <<blocked, actions, frames, arg, expired, group_exited, owed, kept>>

-----------------------------------------------------------------------------
(* Delivery *)

DefaultAction(s) == IF s = SIGCONT THEN "continue" ELSE "terminate"

Replace(seq, m) == [seq EXCEPT ![Len(seq)] = m]

(* check_signals: at most one signal is acted upon.  A handler's frame     *)
(* keeps the mask that its return restores; the handler runs with its own  *)
(* signal blocked.  With no signal, or after its action, the thread goes   *)
(* on at none or at done.                                                  *)
CheckSignals(t, restore, none, done) ==
  LET s == Lowest(Taken(t))
      act == actions[s]
  IN  /\ Dequeue(t)
      /\ IF Taken(t) = {}
         THEN Goto(t, none) /\ UNCHANGED <<blocked, frames, owed, kept>>
         ELSE IF act = "handler"
         THEN /\ frames' = [frames EXCEPT ![t] = Append(@, restore)]
              /\ blocked' = [blocked EXCEPT ![t] = @ \cup {s}]
              /\ owed' = [owed EXCEPT ![t] = Append(@, blocked'[t])]
              /\ Goto(t, done) /\ UNCHANGED kept
         ELSE /\ Goto(t, IF DefaultAction(s) = "terminate" THEN "exit" ELSE done)
              /\ kept' = [kept EXCEPT ![t] = @ \/ pc[t] = "suspend"]
              /\ UNCHANGED <<blocked, frames, owed>>

(* post_trap_callback: on the way back to user mode.                       *)
PostTrap(t) ==
  /\ pc[t] = "trap"
  /\ CheckSignals(t, blocked[t], "user", "user")
  /\ arg' = [arg EXCEPT ![t] = NoArg] /\ expired' = [expired EXCEPT ![t] = FALSE]
  /\ UNCHANGED <<actions, wq, sends, group_exited, excused>>

(* A trap without effect here: an interrupt, or another system call.       *)
Trap(t) ==
  /\ pc[t] = "user" /\ Goto(t, "trap")
  /\ UNCHANGED <<sigVars, wq, arg, expired, sends, group_exited, ghosts>>

(* do_exit with group_exit: the other threads are sent SIGKILL.  (That the *)
(* loop over them is not atomic is followed in ProcessLife.)               *)
Exit(t) ==
  LET others == {u \in Threads \ {t} : Alive(u)}
  IN  /\ pc[t] = "exit"
      /\ IF group_exited THEN Goto(t, "dead") /\ UNCHANGED <<pending, wq, excused>>
         ELSE /\ Send(others, SIGKILL)
              /\ pc' = [Awake(Cardinality(others)) EXCEPT ![t] = "dead"]
      /\ group_exited' = TRUE
      /\ UNCHANGED <<blocked, actions, frames, arg, expired, sends, owed, kept>>

-----------------------------------------------------------------------------
(* Masks and dispositions *)

NewMask(how, old, set) ==
  CASE how = "block" -> old \cup set
    [] how = "unblock" -> old \ set
    [] how = "set" -> set

(* sys_rt_sigprocmask: SIGKILL can be blocked like any other signal.       *)
Sigprocmask(t, how, set) ==
  /\ pc[t] = "user"
  /\ blocked' = [blocked EXCEPT ![t] = NewMask(how, @, set)]
  /\ owed' = [owed EXCEPT ![t] = Replace(@, blocked'[t])]
  /\ Goto(t, "trap")
  /\ UNCHANGED <<pending, actions, frames, wq, arg, expired, sends, group_exited, kept, excused>>

(* sys_rt_sigaction: not for SIGKILL.                                      *)
Sigaction(t, s, act) ==
  /\ pc[t] = "user" /\ s # SIGKILL
  /\ actions' = [actions EXCEPT ![s] = act]
  /\ Goto(t, "trap")
  /\ UNCHANGED <<pending, blocked, frames, wq, arg, expired, sends, group_exited, ghosts>>

(* sys_rt_sigreturn, called by the trampoline when a handler returns.      *)
Sigreturn(t) ==
  /\ pc[t] = "user" /\ frames[t] # <<>>
  /\ blocked' = [blocked EXCEPT ![t] = frames[t][Len(frames[t])]]
  /\ frames' = [frames EXCEPT ![t] = Front(@)]
  /\ owed' = [owed EXCEPT ![t] = Front(@)]
  /\ Goto(t, "trap")
  /\ UNCHANGED <<pending, actions, wq, arg, expired, sends, group_exited, kept, excused>>

-----------------------------------------------------------------------------
(* sys_rt_sigsuspend *)

Sigsuspend(t, set) ==
  /\ pc[t] = "user"
  /\ arg' = [arg EXCEPT ![t] = [NoArg EXCEPT !.set = blocked[t]]]
  /\ blocked' = [blocked EXCEPT ![t] = set \ {SIGKILL}]
  /\ Goto(t, "suspend")
  /\ UNCHANGED <<pending, actions, frames, wq, expired, sends, group_exited, ghosts>>

(* Variant: the handler's return restores the mask of the wait.            *)
SuspendCheckNone(t) ==
  /\ pc[t] = "suspend"
  /\ CheckSignals(t, blocked[t], "suspend_enter", "trap")
  /\ excused' = [excused EXCEPT ![t] = FALSE]
  /\ UNCHANGED <<actions, wq, arg, expired, sends, group_exited>>

(* A signal is looked for; a handler will restore the mask from before the *)
(* call.  SIGCONT's default action ends the call with the mask of the      *)
(* wait still in force.                                                    *)
SuspendCheck(t) ==
  /\ pc[t] = "suspend"
  /\ CheckSignals(t, arg[t].set, "suspend_enter", "trap")
  /\ excused' = [excused EXCEPT ![t] = FALSE]
  /\ UNCHANGED <<actions, wq, arg, expired, sends, group_exited>>

(* wait_signal: the thread enters the queue.                               *)
Sleep(t, l) ==
  /\ wq' = Append(wq, t)
  /\ Goto(t, l)
  /\ UNCHANGED <<sigVars, arg, expired, sends, group_exited, ghosts>>
SuspendSleep(t) == pc[t] = "suspend_enter" /\ Sleep(t, "asleep")

-----------------------------------------------------------------------------
(* sys_rt_sigtimedwait *)

(* Signals that are not blocked are not waited for.                        *)
Sigtimedwait(t, set, timed) ==
  /\ pc[t] = "user"
  /\ arg' = [arg EXCEPT ![t] = [set |-> set \cap blocked[t], timed |-> timed]]
  /\ Goto(t, "timed")
  /\ UNCHANGED <<sigVars, wq, expired, sends, group_exited, ghosts>>

Expire(t) ==
  /\ pc[t] \in {"timed", "timed_enter", "timed_asleep"} /\ arg[t].timed /\ ~expired[t]
  /\ expired' = [expired EXCEPT ![t] = TRUE]
  /\ UNCHANGED <<sigVars, wq, pc, arg, sends, group_exited, ghosts>>

(* One of the signals is taken, or EAGAIN after the deadline.              *)
TimedCheck(t) ==
  /\ pc[t] = "timed"
  /\ IF Ready(t) # {}
     THEN LET x == IF pending[t] \cap Awaited(t) # {} THEN t ELSE Process
          IN  /\ pending' = [pending EXCEPT ![x] = @ \ {Lowest(@ \cap Awaited(t))}]
              /\ Goto(t, "trap")
     ELSE Goto(t, IF expired[t] THEN "trap" ELSE "timed_enter") /\ UNCHANGED pending
  /\ excused' = [excused EXCEPT ![t] = FALSE]
  /\ UNCHANGED <<blocked, actions, frames, wq, arg, expired, sends, group_exited, owed, kept>>

TimedSleep(t) == pc[t] = "timed_enter" /\ Sleep(t, "timed_asleep")

(* Variant: a thread whose time is up stays in the queue.                  *)
TimerWakeNever(t) ==
  /\ pc[t] = "timed_asleep" /\ expired[t] /\ wq = <<>>
  /\ UNCHANGED vars

RemoveAt(i) == [j \in 1..(Len(wq) - 1) |-> wq[IF j < i THEN j ELSE j + 1]]

(* The timer of wait_timeout takes the thread off the queue.               *)
TimerWake(t) ==
  /\ pc[t] = "timed_asleep" /\ expired[t]
  /\ \E i \in 1..Len(wq) : wq[i] = t /\ wq' = RemoveAt(i)
  /\ Goto(t, "timed")
  /\ UNCHANGED <<sigVars, arg, expired, sends, group_exited, ghosts>>

-----------------------------------------------------------------------------
Calls(t) ==
  \/ /\ t \in Maskers
     /\ \/ \E how \in {"block", "unblock", "set"}, set \in Masks : Sigprocmask(t, how, set)
        \/ \E a \in Acts : Sigaction(t, a.sig, a.act)
        \/ \E set \in Sets \ {{}}, b \in BOOLEAN : Sigtimedwait(t, set, b)
  \/ \E set \in Sets : Sigsuspend(t, set)
  \/ \E x \in Targets, s \in Sigs : Kill(t, x, s)
  \/ Sigreturn(t) \/ Trap(t)

Steps(t) ==
  \/ PostTrap(t) \/ Exit(t)
  \/ SuspendCheck(t) \/ SuspendSleep(t)
  \/ TimedCheck(t) \/ TimedSleep(t) \/ TimerWake(t)

Next ==
  \/ \E t \in Threads : Calls(t) \/ Steps(t) \/ Expire(t)
  \/ \E x \in Targets, s \in Sigs : KillByOther(x, s)

(* Threads in the kernel go on, deadlines pass, and a program makes system *)
(* calls or is interrupted.                                                *)
Spec ==
  /\ Init /\ [][Next]_vars
  /\ \A t \in Threads :
       WF_vars(Steps(t)) /\ WF_vars(Expire(t)) /\ WF_vars(Trap(t))

-----------------------------------------------------------------------------
Waits == {"timed", "timed_enter", "timed_asleep"}

(* Masks survive handlers: however handlers nest, each return gives back   *)
(* the mask that the program had chosen when the signal came, also when    *)
(* the signal came in sigsuspend, whose own mask is gone with the call.    *)
(* (SIGCONT's default action ends sigsuspend without that; a thread to     *)
(* which this has happened is not spoken of.)                              *)
MaskRestored ==
  \A t \in Threads : Alive(t) /\ ~kept[t] =>
    /\ \A i \in 1..Len(frames[t]) : frames[t][i] = owed[t][i]
    /\ pc[t] \notin {"suspend", "suspend_enter", "asleep"} =>
         blocked[t] = owed[t][Len(frames[t]) + 1]

(* No thread sleeps in sigsuspend or sigtimedwait over a signal it waits   *)
(* for, except one that was on its way into the queue when the signal came *)
(* or whose process had other waiters, one of which was woken instead.     *)
SleepsWithCause ==
  \A t \in Threads : Asleep(t) /\ Ready(t) # {} => excused[t]

(* sigtimedwait with a timeout returns, whatever wakes it in between; and  *)
(* a thread that is sent SIGKILL, by exit_group or by kill, ends unless it *)
(* blocks the signal or sleeps.                                            *)
WaitsAndKillsEnd ==
  \A t \in Threads :
    /\ []<>~(pc[t] \in Waits /\ arg[t].timed)
    /\ []<>~(Alive(t) /\ SIGKILL \in pending[t] \ blocked[t] /\ ~Asleep(t))
=============================================================================
