------------------------------- MODULE Futex -------------------------------
(***************************************************************************)
(* Futexes of one process: the FutexTable (core/src/futex.rs), sys_futex   *)
(* (api/src/imp/futex.rs) and the wakeup that an exiting thread does on    *)
(* its clear_child_tid word (api/src/imp/task/exit.rs).                    *)
(*                                                                         *)
(* A step ends where a lock is taken or user memory is read: the value     *)
(* test of FUTEX_WAIT, the lookup in the table, the entry into the wait    *)
(* queue, each notify_one and each drop of a WaitQueueGuard are steps of   *)
(* their own.                                                              *)
(***************************************************************************)
EXTENDS Integers, Sequences, FiniteSets, Functions

CONSTANTS Threads,
          Addrs,       \* user addresses of futex words
          Vals,        \* values of a word, 0 among them
          TidAddr,     \* the clear_child_tid of a thread, 0 when it has none
          MaxWake,     \* bound: threads one call asks to wake or move
          MaxQueues    \* bound: wait queues ever allocated

ASSUME FutexAssumption ==
  /\ IsFiniteSet(Threads) /\ IsFiniteSet(Addrs)
  /\ 0 \in Vals /\ 0 \notin Addrs
  /\ TidAddr \in [Threads -> Addrs \cup {0}]
  /\ MaxWake \in Nat \ {0} /\ MaxQueues \in Nat \ {0}

VARIABLES word,    \* user memory: the value of each futex word
          table,   \* FutexTable: address -> wait queue, 0 when absent
          queues,  \* the wait queues: queue -> threads, first in first out
          made,    \* wait queues allocated
          call,    \* what each thread is doing
          unmet    \* threads that were waiting when a wake began and still are

vars == <<word, table, queues, made, call, unmet>>

Queues == 1..MaxQueues
PCs == {"user", "wait_insert", "wait_block", "waiting", "requeue_insert",
        "exit_get", "notify", "drop", "gone"}

(* A call: the address and the guard of the queue it works on, the same    *)
(* for the queue FUTEX_REQUEUE moves threads to, the wakeups and the moves *)
(* still to do, whether a wait has a timeout and whether the thread exits. *)
Idle == [pc |-> "user", addr |-> 0, wq |-> 0, addr2 |-> 0, wq2 |-> 0,
         left |-> 0, move |-> 0, timed |-> FALSE, exits |-> FALSE]
Calls == [pc: PCs, addr: Addrs \cup {0}, wq: Queues \cup {0},
          addr2: Addrs \cup {0}, wq2: Queues \cup {0},
          left: 0..MaxWake, move: 0..MaxWake, timed: BOOLEAN, exits: BOOLEAN]

-----------------------------------------------------------------------------
(* FutexTable and WaitQueueGuard *)

(* FutexTable::get_or_insert: the queue of a, and the tables after it.     *)
get_or_insert(a) == IF table[a] # 0 THEN table[a] ELSE made + 1
Inserted(a) ==
  /\ table[a] = 0 => made < MaxQueues
  /\ table' = [table EXCEPT ![a] = get_or_insert(a)]
  /\ made' = IF table[a] = 0 THEN made + 1 ELSE made

(* Arc::strong_count of a queue: the table's reference and the guards.     *)
strong_count(q) ==
  Cardinality({a \in Addrs : table[a] = q})
    + Cardinality({t \in Threads : call[t].wq = q})
    + Cardinality({t \in Threads : call[t].wq2 = q})

(* Variant: a guard's drop removes any queue that is empty.                *)
drop_if_empty(a, q) ==
  table' = IF queues[q] = <<>> THEN [table EXCEPT ![a] = 0] ELSE table

(* WaitQueueGuard::drop.                                                   *)
drop(a, q) ==
  table' = IF strong_count(q) = 1 /\ queues[q] = <<>>
           THEN [table EXCEPT ![a] = 0] ELSE table

Waiters(q) == Range(queues[q])

(* t leaves its wait queue, and no wake has to reach it any more.          *)
Left(ts) == unmet' = [u \in Threads |-> unmet[u] \ ts]

-----------------------------------------------------------------------------
(* FUTEX_WAIT.  The value is compared before the table is looked at; when  *)
(* it differs the call returns EAGAIN and nothing changes.                 *)

WaitCheck(t, a, v, timed) ==
  /\ call[t].pc = "user"
  /\ word[a] = v
  /\ call' = [call EXCEPT ![t] = [Idle EXCEPT !.pc = "wait_insert", !.addr = a,
                                              !.timed = timed]]
  /\ UNCHANGED <<word, table, queues, made, unmet>>

WaitInsert(t) ==
  LET a == call[t].addr
  IN  /\ call[t].pc = "wait_insert"
      /\ Inserted(a)
      /\ call' = [call EXCEPT ![t] = [@ EXCEPT !.pc = "wait_block", !.wq = get_or_insert(a)]]
      /\ UNCHANGED <<word, queues, unmet>>

(* The timeout cannot be read: the guard is dropped and EFAULT returned.   *)
WaitFault(t) ==
  /\ call[t].pc = "wait_block" /\ call[t].timed
  /\ call' = [call EXCEPT ![t] = [@ EXCEPT !.pc = "drop"]]
  /\ UNCHANGED <<word, table, queues, made, unmet>>

(* WaitQueue::wait and wait_timeout: the thread enters the queue.          *)
WaitBlock(t) ==
  LET q == call[t].wq
  IN  /\ call[t].pc = "wait_block"
      /\ queues' = [queues EXCEPT ![q] = Append(@, t)]
      /\ call' = [call EXCEPT ![t] = [@ EXCEPT !.pc = "waiting"]]
      /\ UNCHANGED <<word, table, made, unmet>>

(* A queue without the entry of t, of which there is one (OneEntry).       *)
Without(s, t) ==
  LET i == CHOOSE j \in DOMAIN s : s[j] = t
  IN  SubSeq(s, 1, i - 1) \o SubSeq(s, i + 1, Len(s))

(* Variant: a wait that times out leaves its entry in the queue.           *)
TimeoutKeepsEntry(t) ==
  /\ call[t].pc = "waiting" /\ call[t].timed
  /\ call' = [call EXCEPT ![t] = [@ EXCEPT !.pc = "drop"]]
  /\ Left({t})
  /\ UNCHANGED <<word, table, queues, made>>

(* wait_timeout returns without a wakeup.                                  *)
Timeout(t) ==
  /\ call[t].pc = "waiting" /\ call[t].timed
  /\ queues' = [q \in Queues |-> IF t \in Waiters(q) THEN Without(queues[q], t) ELSE queues[q]]
  /\ call' = [call EXCEPT ![t] = [@ EXCEPT !.pc = "drop"]]
  /\ Left({t})
  /\ UNCHANGED <<word, table, made>>

-----------------------------------------------------------------------------
(* FUTEX_WAKE, FUTEX_REQUEUE and FUTEX_CMP_REQUEUE, and the exit *)

(* FutexTable::get finds a queue; otherwise FUTEX_WAKE returns 0 at once.  *)
WakeGet(t, a, n) ==
  /\ call[t].pc = "user"
  /\ table[a] # 0
  /\ call' = [call EXCEPT ![t] = [Idle EXCEPT !.pc = "notify", !.addr = a,
                                              !.wq = table[a], !.left = n]]
  /\ unmet' = [unmet EXCEPT ![t] = IF n >= Len(queues[table[a]])
                                   THEN Waiters(table[a]) ELSE {}]
  /\ UNCHANGED <<word, table, queues, made>>

(* The comparison of FUTEX_CMP_REQUEUE has passed, or FUTEX_REQUEUE does   *)
(* none; get of the first address, then get_or_insert of the second.       *)
RequeueGet(t, a, b, n, m) ==
  /\ call[t].pc = "user"
  /\ a # b
  /\ call' = [call EXCEPT ![t] = [Idle EXCEPT !.pc = "requeue_insert", !.addr = a,
                !.wq = table[a], !.addr2 = b, !.left = n, !.move = m]]
  /\ UNCHANGED <<word, table, queues, made, unmet>>

RequeueInsert(t) ==
  LET b == call[t].addr2
  IN  /\ call[t].pc = "requeue_insert"
      /\ Inserted(b)
      /\ call' = [call EXCEPT ![t] = [@ EXCEPT
                    !.pc = IF call[t].wq = 0 THEN "drop" ELSE "notify",
                    !.wq2 = get_or_insert(b)]]
      /\ UNCHANGED <<word, queues, unmet>>

(* do_exit clears the word, then looks the queue up and wakes one thread.  *)
ExitClear(t) ==
  /\ call[t].pc = "user"
  /\ word' = IF TidAddr[t] = 0 THEN word ELSE [word EXCEPT ![TidAddr[t]] = 0]
  /\ call' = [call EXCEPT ![t] =
                [Idle EXCEPT !.pc = IF TidAddr[t] = 0 THEN "gone" ELSE "exit_get",
                             !.addr = TidAddr[t], !.exits = TRUE]]
  /\ UNCHANGED <<table, queues, made, unmet>>

ExitGet(t) ==
  LET q == table[call[t].addr]
  IN  /\ call[t].pc = "exit_get"
      /\ call' = [call EXCEPT ![t] = [@ EXCEPT !.pc = IF q = 0 THEN "gone" ELSE "notify",
                                               !.wq = q, !.left = IF q = 0 THEN 0 ELSE 1]]
      /\ UNCHANGED <<word, table, queues, made, unmet>>

(* Variant: the thread that came last is woken first.                      *)
NotifyLast(t) ==
  LET q == call[t].wq
      u == queues[q][Len(queues[q])]
  IN  /\ call[t].pc = "notify" /\ call[t].left > 0
      /\ queues[q] # <<>>
      /\ queues' = [queues EXCEPT ![q] = SubSeq(@, 1, Len(@) - 1)]
      /\ call' = [v \in Threads |-> [call[v] EXCEPT !.left = IF v = t THEN @ - 1 ELSE @,
                                                    !.pc = IF v = u THEN "drop" ELSE @]]
      /\ Left({u})
      /\ UNCHANGED <<word, table, made>>

(* One notify_one that finds a thread.                                     *)
Notify(t) ==
  LET q == call[t].wq
      u == Head(queues[q])
  IN  /\ call[t].pc = "notify" /\ call[t].left > 0
      /\ queues[q] # <<>>
      /\ queues' = [queues EXCEPT ![q] = Tail(@)]
      /\ call' = [v \in Threads |-> [call[v] EXCEPT !.left = IF v = t THEN @ - 1 ELSE @,
                                                    !.pc = IF v = u THEN "drop" ELSE @]]
      /\ Left({u})
      /\ UNCHANGED <<word, table, made>>

Smaller(m, n) == IF m <= n THEN m ELSE n

(* The loop ends, after as many wakeups as asked for or on an empty queue. *)
(* In the first case FUTEX_REQUEUE moves threads to the other queue.       *)
NotifyEnd(t) ==
  LET c == call[t]
      k == IF c.left = 0 THEN Smaller(c.move, Len(queues[c.wq])) ELSE 0
      moved == SubSeq(queues[c.wq], 1, k)
  IN  /\ c.pc = "notify"
      /\ c.left = 0 \/ queues[c.wq] = <<>>
      /\ IF c.wq2 = 0 THEN UNCHANGED <<queues, unmet>>
         ELSE /\ queues' = [queues EXCEPT
                   ![c.wq] = SubSeq(@, k + 1, Len(@)), ![c.wq2] = queues[c.wq2] \o moved]
              /\ Left(Range(moved))
      /\ call' = [call EXCEPT ![t] = [@ EXCEPT !.pc = "drop"]]
      /\ UNCHANGED <<word, table, made>>

(* The guards are dropped, the first one first; then the call returns, or  *)
(* the thread is gone.                                                     *)
Drop(t) ==
  LET c == call[t]
      return == [Idle EXCEPT !.pc = IF c.exits THEN "gone" ELSE "user"]
  IN  /\ c.pc = "drop"
      /\ IF c.wq # 0
         THEN /\ drop(c.addr, c.wq)
              /\ call' = [call EXCEPT ![t] = IF c.wq2 = 0 THEN return
                                             ELSE [c EXCEPT !.wq = 0]]
         ELSE drop(c.addr2, c.wq2) /\ call' = [call EXCEPT ![t] = return]
      /\ unmet' = [unmet EXCEPT ![t] = {}]
      /\ UNCHANGED <<word, queues, made>>

(* User code stores to a futex word.                                       *)
Store(t, a, v) ==
  /\ call[t].pc = "user"
  /\ word' = [word EXCEPT ![a] = v]
  /\ UNCHANGED <<table, queues, made, call, unmet>>

-----------------------------------------------------------------------------
Init ==
  /\ word \in [Addrs -> Vals]
  /\ table = [a \in Addrs |-> 0]
  /\ queues = [q \in Queues |-> <<>>]
  /\ made = 0
  /\ call = [t \in Threads |-> Idle]
  /\ unmet = [t \in Threads |-> {}]

Begin(t) ==
  \/ \E a \in Addrs, v \in Vals : Store(t, a, v)
  \/ \E a \in Addrs, v \in Vals, timed \in BOOLEAN : WaitCheck(t, a, v, timed)
  \/ \E a \in Addrs, n \in 0..MaxWake : WakeGet(t, a, n)
  \/ \E a, b \in Addrs, n, m \in 0..MaxWake : RequeueGet(t, a, b, n, m)
  \/ ExitClear(t)

(* What the kernel does next for a thread that is inside a call.           *)
Continue(t) ==
  \/ WaitInsert(t) \/ WaitBlock(t) \/ RequeueInsert(t) \/ ExitGet(t)
  \/ Notify(t) \/ NotifyEnd(t) \/ Drop(t)

Next == \E t \in Threads :
  Begin(t) \/ Continue(t) \/ WaitFault(t) \/ Timeout(t)

Spec == Init /\ [][Next]_vars

(* Threads that only join others and exit: the use libc makes of           *)
(* clear_child_tid.  A joiner waits, without a timeout, while the word is  *)
(* not zero; every thread that has a clear_child_tid exits.                *)
JoinInit == Init /\ word = [a \in Addrs |-> 1]
JoinNext == \E t \in Threads :
  \/ \E a \in Addrs : TidAddr[t] = 0 /\ WaitCheck(t, a, 1, FALSE)
  \/ TidAddr[t] # 0 /\ ExitClear(t)
  \/ Continue(t)
JoinSpec ==
  /\ JoinInit /\ [][JoinNext]_vars
  /\ \A t \in Threads : WF_vars(Continue(t)) /\ WF_vars(TidAddr[t] # 0 /\ ExitClear(t))

-----------------------------------------------------------------------------
(* Every variable keeps its type, and the bound on queues is not met.      *)
TypeOK ==
  /\ word \in [Addrs -> Vals]
  /\ table \in [Addrs -> Queues \cup {0}]
  /\ queues \in [Queues -> Seq(Threads)]
  /\ made \in 0..MaxQueues
  /\ call \in [Threads -> Calls]
  /\ unmet \in [Threads -> SUBSET Threads]

(* A queue that has waiters is the queue the table has for some address:   *)
(* WaitQueueGuard::drop never removes an entry from under a thread that    *)
(* waits, or that holds a guard and is about to, so a later FUTEX_WAKE     *)
(* finds it.                                                               *)
Reachable ==
  \A q \in Queues :
    (queues[q] # <<>> \/ \E t \in Threads : call[t].pc = "wait_block" /\ call[t].wq = q)
      => \E a \in Addrs : table[a] = q

(* A blocked thread has exactly one entry in all the queues, through       *)
(* requeues and timeouts, and a thread that is not blocked has none: a     *)
(* notify_one is never spent on a thread that has already returned.        *)
OneEntry ==
  /\ \A q \in Queues : IsInjective(queues[q])
  /\ \A q, r \in Queues : q # r => Waiters(q) \cap Waiters(r) = {}
  /\ \A t \in Threads :
       call[t].pc = "waiting" <=> \E q \in Queues : t \in Waiters(q)

(* When FUTEX_WAKE asks for at least as many threads as were waiting when  *)
(* it found the queue, none of those is still waiting there when its loop  *)
(* ends, whoever else entered or left meanwhile.                           *)
WakeMeetsWaiters ==
  \A t \in Threads : call[t].pc = "drop" => unmet[t] = {}

(* A thread that joins another on its clear_child_tid word does not wait   *)
(* for ever once that thread exits: "Clear (zero) the child thread ID in   *)
(* child memory when the child exits, and do a wakeup on the futex at that *)
(* address" (clone.rs, CLONE_CHILD_CLEARTID).                              *)
JoinReturns ==
  \A t \in Threads : (call[t].pc = "waiting") ~> (call[t].pc = "user")
=============================================================================
