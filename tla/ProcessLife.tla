---------------------------- MODULE ProcessLife ----------------------------
(***************************************************************************)
(* The life of processes and threads: sys_clone and sys_fork               *)
(* (api/src/imp/task/clone.rs), do_exit (exit.rs) and sys_waitpid          *)
(* (wait.rs), over the process tree of axprocess.                          *)
(*                                                                         *)
(* Tasks are numbered in the order of their creation and a process has the *)
(* number of its first thread.  Task 1 stands for the kernel's init        *)
(* process, which has no ProcessData and never waits; process 2 is the     *)
(* user program the kernel starts.  The clear_child_tid wakeup of do_exit  *)
(* is in module Futex, the descriptor table it clears in module FdTable.   *)
(***************************************************************************)
EXTENDS Integers, FiniteSets

CONSTANTS MaxTasks,     \* bound: tasks ever created, the kernel's included
          Codes,        \* exit codes of user programs
          KillCode      \* exit code of a task killed by SIGKILL

ASSUME TaskAssumption ==
  /\ MaxTasks \in Nat /\ MaxTasks >= 2
  /\ Codes # {} /\ Codes \subseteq Int /\ KillCode \in Int

VARIABLES proc,      \* process of each task, 0 before it is created
          threads,   \* threads of each process that have not exited
          parent,    \* parent of each process
          children,  \* children of each process
          zombie,    \* Process::is_zombie
          code,      \* Process::exit_code
          grouped,   \* Process::is_group_exited
          wq,        \* ProcessData::child_exit_wq: the threads that wait
          killed,    \* SIGKILL is pending for the thread
          run,       \* what each task is doing
          reaps,     \* how often waitpid has returned and freed a process
          late       \* threads cloned after their process began to exit

vars == <<proc, threads, parent, children, zombie, code, grouped, wq, killed,
          run, reaps, late>>
tree == <<proc, threads, parent, children, reaps, late>>
status == <<zombie, code, grouped>>

Init0 == 1
First == 2
Tasks == 1..MaxTasks
AllCodes == Codes \cup {KillCode, 0}
Processes == {p \in Tasks : proc[p] = p}

PCs == {"none", "user", "clone_build", "wait_look", "wait_block", "waiting",
        "exit_thread", "exit_process", "exit_parent", "exit_notify",
        "exit_again", "exit_group", "exit_mark", "exit_kill", "dead"}

(* A call: the children waitpid has collected and its options; the code    *)
(* and the group_exit argument of do_exit; the parent that clone or exit   *)
(* has read; the children that were alive when the thread went to sleep.   *)
Idle == [pc |-> "user", snap |-> {}, nohang |-> FALSE, nowait |-> FALSE,
         code |-> 0, group |-> FALSE, par |-> 0, slept |-> {}]

Goto(t, l) == run' = [run EXCEPT ![t].pc = l]

-----------------------------------------------------------------------------
(* sys_clone *)

CanClone == \E c \in Tasks : proc[c] = 0
NewTask == CHOOSE c \in Tasks : proc[c] = 0 /\ \A d \in Tasks : proc[d] = 0 => c <= d

(* CLONE_THREAD: a new thread of the caller's process.                     *)
CloneThread(t) ==
  LET c == NewTask
      p == proc[t]
  IN  /\ run[t].pc = "user" /\ CanClone
      /\ proc' = [proc EXCEPT ![c] = p]
      /\ threads' = [threads EXCEPT ![p] = @ \cup {c}]
      /\ late' = IF grouped[p] THEN late \cup {c} ELSE late
      /\ run' = [run EXCEPT ![c] = Idle]
      /\ UNCHANGED <<parent, children, zombie, code, grouped, wq, killed, reaps>>

(* ProcessBuilder::build and Process::new_thread: c is a child of par.     *)
Build(c, par) ==
  /\ proc' = [proc EXCEPT ![c] = c]
  /\ threads' = [threads EXCEPT ![c] = {c}]
  /\ parent' = [parent EXCEPT ![c] = par]
  /\ children' = [children EXCEPT ![par] = @ \cup {c}]

(* A new process whose parent is the caller's process.                     *)
Fork(t) ==
  LET c == NewTask
  IN  /\ run[t].pc = "user" /\ CanClone
      /\ Build(c, proc[t])
      /\ run' = [run EXCEPT ![c] = Idle]
      /\ UNCHANGED <<zombie, code, grouped, wq, killed, reaps, late>>

(* CLONE_PARENT: the caller's parent is read, the address space is copied, *)
(* and only then is the child built.                                       *)
CloneParentGet(t) ==
  /\ run[t].pc = "user" /\ CanClone
  /\ run' = [run EXCEPT ![t] = [Idle EXCEPT !.pc = "clone_build", !.par = parent[proc[t]]]]
  /\ UNCHANGED <<tree, status, wq, killed>>

CloneParentBuild(t) ==
  LET c == NewTask
  IN  /\ run[t].pc = "clone_build" /\ CanClone
      /\ Build(c, run[t].par)
      /\ run' = [run EXCEPT ![c] = Idle, ![t] = Idle]
      /\ UNCHANGED <<status, wq, killed, reaps, late>>

-----------------------------------------------------------------------------
(* sys_waitpid.  Any set of children can be what a pid, a process group    *)
(* and the clone options select; ECHILD when it is empty.                  *)

Waitpid(t, S, nohang, nowait) ==
  /\ run[t].pc = "user"
  /\ S # {} /\ S \subseteq children[proc[t]]
  /\ run' = [run EXCEPT ![t] = [Idle EXCEPT !.pc = "wait_look", !.snap = S,
                                            !.nohang = nohang, !.nowait = nowait]]
  /\ UNCHANGED <<tree, status, wq, killed>>

(* Variant: a zombie is returned without being freed.                      *)
WaitReapNoFree(t, c) ==
  /\ run[t].pc = "wait_look"
  /\ c \in run[t].snap /\ zombie[c]
  /\ reaps' = IF run[t].nowait THEN reaps ELSE [reaps EXCEPT ![c] = @ + 1]
  /\ run' = [run EXCEPT ![t] = Idle]
  /\ UNCHANGED <<proc, threads, parent, children, status, wq, killed, late>>

(* A zombie among the collected children is freed, unless WNOWAIT says     *)
(* otherwise, and returned.                                                *)
WaitReap(t, c) ==
  /\ run[t].pc = "wait_look"
  /\ c \in run[t].snap /\ zombie[c]
  /\ IF run[t].nowait THEN UNCHANGED <<children, reaps>>
     ELSE /\ children' = [children EXCEPT ![parent[c]] = @ \ {c}]
          /\ reaps' = [reaps EXCEPT ![c] = @ + 1]
  /\ run' = [run EXCEPT ![t] = Idle]
  /\ UNCHANGED <<proc, threads, parent, status, wq, killed, late>>

(* No zombie: return 0 with WNOHANG, else go to sleep.                     *)
WaitNone(t) ==
  /\ run[t].pc = "wait_look"
  /\ \A c \in run[t].snap : ~zombie[c]
  /\ run' = [run EXCEPT ![t] = IF run[t].nohang THEN Idle
                               ELSE [@ EXCEPT !.pc = "wait_block"]]
  /\ UNCHANGED <<tree, status, wq, killed>>

(* WaitQueue::wait: the thread enters the queue.                           *)
WaitBlock(t) ==
  /\ run[t].pc = "wait_block"
  /\ wq' = [wq EXCEPT ![proc[t]] = @ \cup {t}]
  /\ run' = [run EXCEPT ![t].pc = "waiting",
                        ![t].slept = {c \in run[t].snap : ~zombie[c]}]
  /\ UNCHANGED <<tree, status, killed>>

-----------------------------------------------------------------------------
(* do_exit *)

(* sys_exit and sys_exit_group.                                            *)
Exit(t, n, group) ==
  /\ run[t].pc = "user"
  /\ run' = [run EXCEPT ![t] = [Idle EXCEPT !.pc = "exit_thread", !.code = n,
                                            !.group = group]]
  /\ UNCHANGED <<tree, status, wq, killed>>

(* check_signals finds a pending SIGKILL on the way back to user mode.     *)
Die(t) ==
  /\ run[t].pc = "user" /\ killed[t]
  /\ run' = [run EXCEPT ![t] = [Idle EXCEPT !.pc = "exit_thread",
                                            !.code = KillCode, !.group = TRUE]]
  /\ UNCHANGED <<tree, status, wq, killed>>

(* Variant: the exit of the first thread is the exit of the process.       *)
ExitThreadLeader(t) ==
  LET p == proc[t]
  IN  /\ run[t].pc = "exit_thread"
      /\ threads' = [threads EXCEPT ![p] = @ \ {t}]
      /\ code' = IF grouped[p] THEN code ELSE [code EXCEPT ![p] = run[t].code]
      /\ Goto(t, IF t = p THEN "exit_process" ELSE "exit_group")
      /\ UNCHANGED <<proc, parent, children, zombie, grouped, wq, killed, reaps, late>>

(* Thread::exit: the code is recorded unless the group has exited; the     *)
(* last thread goes on to end the process.                                 *)
ExitThread(t) ==
  LET p == proc[t]
  IN  /\ run[t].pc = "exit_thread"
      /\ threads' = [threads EXCEPT ![p] = @ \ {t}]
      /\ code' = IF grouped[p] THEN code ELSE [code EXCEPT ![p] = run[t].code]
      /\ Goto(t, IF threads[p] \subseteq {t} THEN "exit_process" ELSE "exit_group")
      /\ UNCHANGED <<proc, parent, children, zombie, grouped, wq, killed, reaps, late>>

(* Process::exit: a zombie, and its children pass to the init process.     *)
exit(p) ==
  /\ zombie' = [zombie EXCEPT ![p] = TRUE]
  /\ parent' = [c \in Tasks |-> IF c \in children[p] THEN Init0 ELSE parent[c]]
  /\ children' = [children EXCEPT ![p] = {}, ![Init0] = @ \cup children[p]]

ExitProcess(t) ==
  /\ run[t].pc = "exit_process"
  /\ exit(proc[t])
  /\ Goto(t, "exit_parent")
  /\ UNCHANGED <<proc, threads, code, grouped, wq, killed, reaps, late>>

(* The parent is read; the exit signal is sent to it.                      *)
ExitParent(t) ==
  /\ run[t].pc = "exit_parent"
  /\ run' = [run EXCEPT ![t].pc = "exit_notify", ![t].par = parent[proc[t]]]
  /\ UNCHANGED <<tree, status, wq, killed>>

(* Variant: the queue of the process that exits is notified.               *)
ExitNotifyOwn(t) ==
  LET q == proc[t]
  IN  /\ run[t].pc = "exit_notify"
      /\ wq' = [wq EXCEPT ![q] = {}]
      /\ run' = [u \in Tasks |->
           IF u \in wq[q] THEN [run[u] EXCEPT !.pc = "wait_look"]
           ELSE IF u = t THEN [run[u] EXCEPT !.pc = "exit_again"] ELSE run[u]]
      /\ UNCHANGED <<tree, status, killed>>

(* child_exit_wq.notify_all of the parent that was read.                   *)
ExitNotify(t) ==
  LET q == run[t].par
  IN  /\ run[t].pc = "exit_notify"
      /\ wq' = [wq EXCEPT ![q] = {}]
      /\ run' = [u \in Tasks |->
           IF u \in wq[q] THEN [run[u] EXCEPT !.pc = "wait_look"]
           ELSE IF u = t THEN [run[u] EXCEPT !.pc = "exit_again"] ELSE run[u]]
      /\ UNCHANGED <<tree, status, killed>>

(* Variant: the second exit records the thread's exit code.                *)
ExitAgainCode(t) ==
  /\ run[t].pc = "exit_again"
  /\ exit(proc[t])
  /\ code' = [code EXCEPT ![proc[t]] = run[t].code]
  /\ Goto(t, "exit_group")
  /\ UNCHANGED <<proc, threads, grouped, wq, killed, reaps, late>>

(* The second Process::exit.                                               *)
ExitAgain(t) ==
  /\ run[t].pc = "exit_again"
  /\ exit(proc[t])
  /\ Goto(t, "exit_group")
  /\ UNCHANGED <<proc, threads, code, grouped, wq, killed, reaps, late>>

(* The group exit: the test, the mark and the signals are separate.        *)
ExitGroup(t) ==
  /\ run[t].pc = "exit_group"
  /\ Goto(t, IF run[t].group /\ ~grouped[proc[t]] THEN "exit_mark" ELSE "dead")
  /\ UNCHANGED <<tree, status, wq, killed>>

ExitMark(t) ==
  /\ run[t].pc = "exit_mark"
  /\ grouped' = [grouped EXCEPT ![proc[t]] = TRUE]
  /\ Goto(t, "exit_kill")
  /\ UNCHANGED <<tree, zombie, code, wq, killed>>

(* Variant: SIGKILL goes to the first thread only.                         *)
ExitKillLeader(t) ==
  /\ run[t].pc = "exit_kill"
  /\ killed' = [u \in Tasks |-> killed[u] \/ u \in threads[proc[t]] \cap {proc[t]}]
  /\ Goto(t, "dead")
  /\ UNCHANGED <<tree, status, wq>>

ExitKill(t) ==
  /\ run[t].pc = "exit_kill"
  /\ killed' = [u \in Tasks |-> killed[u] \/ u \in threads[proc[t]]]
  /\ Goto(t, "dead")
  /\ UNCHANGED <<tree, status, wq>>

-----------------------------------------------------------------------------
(* The kernel has started the first user process as a child of init.       *)
Init ==
  /\ proc = [t \in Tasks |-> IF t \in {Init0, First} THEN t ELSE 0]
  /\ threads = [p \in Tasks |-> IF p = First THEN {First} ELSE {}]
  /\ parent = [p \in Tasks |-> IF p = First THEN Init0 ELSE 0]
  /\ children = [p \in Tasks |-> IF p = Init0 THEN {First} ELSE {}]
  /\ zombie = [p \in Tasks |-> FALSE]
  /\ code = [p \in Tasks |-> 0]
  /\ grouped = [p \in Tasks |-> FALSE]
  /\ wq = [p \in Tasks |-> {}]
  /\ killed = [t \in Tasks |-> FALSE]
  /\ run = [t \in Tasks |-> IF t = First THEN Idle ELSE [Idle EXCEPT !.pc = "none"]]
  /\ reaps = [p \in Tasks |-> 0]
  /\ late = {}

Begin(t) ==
  \/ CloneThread(t) \/ Fork(t) \/ CloneParentGet(t)
  \/ \E S \in SUBSET children[proc[t]], nohang, nowait \in BOOLEAN :
       Waitpid(t, S, nohang, nowait)
  \/ \E n \in Codes, group \in BOOLEAN : Exit(t, n, group)

(* What the kernel does next for a task that is inside a call.             *)
Continue(t) ==
  \/ CloneParentBuild(t)
  \/ \E c \in Tasks : WaitReap(t, c)
  \/ WaitNone(t) \/ WaitBlock(t)
  \/ ExitThread(t) \/ ExitProcess(t) \/ ExitParent(t) \/ ExitNotify(t)
  \/ ExitAgain(t) \/ ExitGroup(t) \/ ExitMark(t) \/ ExitKill(t)

Next == \E t \in Tasks \ {Init0} : proc[t] # 0 /\ (Begin(t) \/ Die(t) \/ Continue(t))

Spec == Init /\ [][Next]_vars

(* The scheduler runs every task that is inside the kernel and can run.    *)
FairSpec == Spec /\ \A t \in Tasks \ {Init0} : WF_vars(proc[t] # 0 /\ Continue(t))

-----------------------------------------------------------------------------
(* Every variable keeps its type.                                          *)
TypeOK ==
  /\ proc \in [Tasks -> 0..MaxTasks]
  /\ threads \in [Tasks -> SUBSET Tasks]
  /\ parent \in [Tasks -> 0..MaxTasks]
  /\ children \in [Tasks -> SUBSET Tasks]
  /\ zombie \in [Tasks -> BOOLEAN] /\ grouped \in [Tasks -> BOOLEAN]
  /\ code \in [Tasks -> AllCodes]
  /\ wq \in [Tasks -> SUBSET Tasks]
  /\ killed \in [Tasks -> BOOLEAN]
  /\ run \in [Tasks -> [pc: PCs, snap: SUBSET Tasks, nohang: BOOLEAN,
       nowait: BOOLEAN, code: AllCodes, group: BOOLEAN, par: 0..MaxTasks,
       slept: SUBSET Tasks]]
  /\ reaps \in [Tasks -> Nat]
  /\ late \subseteq Tasks

(* The children lists and the parent links agree: through forks, exits     *)
(* that pass children on and waitpids that free them, a process is in the  *)
(* list of exactly its parent until a waitpid has freed it.                *)
FamilyTree ==
  \A p \in Processes :
    children[p] = {c \in Processes : parent[c] = p /\ reaps[c] = 0}

(* A process that waitpid can return has no thread left that runs user     *)
(* code or waits: only the thread that is ending it is still in do_exit.   *)
ZombieIsDone ==
  \A p \in Processes : zombie[p] =>
    /\ threads[p] = {}
    /\ \A t \in Tasks : proc[t] = p =>
         run[t].pc \in {"exit_parent", "exit_notify", "exit_again", "exit_group",
                        "exit_mark", "exit_kill", "dead"}

(* The exit code of a zombie does not change, so every waitpid that        *)
(* returns it reports the same one.                                        *)
ExitCodeFinal ==
  [][\A p \in Tasks : zombie[p] => zombie'[p] /\ code'[p] = code[p]]_vars

(* Once the thread that began a group exit has sent its signals, every     *)
(* thread still in the process has SIGKILL pending, except one cloned      *)
(* after the exit began.                                                   *)
KillReaches ==
  \A p \in Processes :
    (grouped[p] /\ \A t \in Tasks : proc[t] = p => run[t].pc # "exit_kill")
      => \A t \in threads[p] : killed[t] \/ t \in late

(* A thread that sleeps in waitpid is woken when a child that was alive    *)
(* as it went to sleep has exited, also when several threads sleep.        *)
SleeperWoken ==
  \A t \in Tasks :
    (run[t].pc = "waiting" /\ \E c \in run[t].slept : zombie[c])
      ~> (run[t].pc # "waiting")

(* A waitpid that is "Wait for the child whose process ID is equal to the  *)
(* value" (wait.rs, WaitPid::Pid) does not sleep for ever when that child  *)
(* has exited.                                                             *)
WaitpidReturns ==
  \A t \in Tasks :
    (run[t].pc = "waiting" /\ \A c \in run[t].snap : zombie[c])
      ~> (run[t].pc # "waiting")
=============================================================================
