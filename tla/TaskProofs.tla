----------------------------- MODULE TaskProofs -----------------------------
(***************************************************************************)
(* The times of a task, the process groups that setpgid makes and the      *)
(* signals of a process, for any numbers of processes, threads, signals    *)
(* and nested handlers.                                                    *)
(***************************************************************************)
EXTENDS Signals, ProcessGroups, TimeStat, WellFoundedInduction, FiniteSetTheorems, TLAPS

-----------------------------------------------------------------------------
(* The times that a task reports *)

(* While the task is in the kernel kernel_timestamp is the time at which   *)
(* it entered, that is its birth and all it has spent before; the sum of   *)
(* the real times never passes the clock.                                  *)
TimeInv ==
  /\ TimeTypeOK /\ SystemTimeExact
  /\ born + user_ns + kernel_ns <= now
  /\ mode = "kernel" => kernel_timestamp = born + user_ns + kernel_ns

(* TimeInv holds at first; each step of the clock and of the two switches  *)
(* in TimeStat preserves it.                                               *)
LEMMA TimeInductive ==
  ASSUME MaxTime \in Nat PROVE TimeSpec => []TimeInv
<1>1. TimeInit => TimeInv
  BY DEF TimeInit, TimeInv, TimeTypeOK, SystemTimeExact
<1>2. TimeInv /\ [TimeNext]_timeVars => TimeInv'
  <2> SUFFICES ASSUME TimeInv, [TimeNext]_timeVars PROVE TimeInv'
    OBVIOUS
  <2>1. CASE Tick
    BY <2>1 DEF Tick, TimeInv, TimeTypeOK, SystemTimeExact, stat, real
  <2>2. CASE switch_into_kernel_mode
    BY <2>2 DEF switch_into_kernel_mode, UserSince, TimeInv, TimeTypeOK, SystemTimeExact
  <2>3. CASE switch_into_user_mode
    BY <2>3 DEF switch_into_user_mode, TimeInv, TimeTypeOK, SystemTimeExact
  <2>4. CASE UNCHANGED timeVars
    BY Zenon, <2>4 DEF timeVars, stat, real, TimeInv, TimeTypeOK, SystemTimeExact
  <2>5. QED
    BY Zenon, <2>1, <2>2, <2>3, <2>4 DEF TimeNext
<1>3. QED
  BY <1>1, <1>2, PTL DEF TimeSpec

(* switch_into_user_mode and switch_into_kernel_mode never subtract a      *)
(* later time from an earlier one, so that no usize wraps.                 *)
THEOREM TimesTypeCorrect ==
  ASSUME MaxTime \in Nat PROVE TimeSpec => []TimeTypeOK
BY TimeInductive, PTL DEF TimeInv

(* What switch_into_user_mode adds up is the time spent in the calls that  *)
(* have returned, from whatever time the task was started.                 *)
THEOREM SystemTimeIsExact ==
  ASSUME MaxTime \in Nat PROVE TimeSpec => []SystemTimeExact
BY TimeInductive, PTL DEF TimeInv

-----------------------------------------------------------------------------
(* Process groups *)

Born(p) == p = Root \/ ppid[p] # Nobody

(* A process that leads its group has made one group more than it had to,  *)
(* as long as its moves are counted.                                       *)
MadeInv ==
  \A p \in Members \ {Root} :
    moved[p] < MaxGroups =>
      made[p] <= moved[p] + (IF group[p].pgid = p THEN 1 ELSE 0)

(* The setpgid that a process is in.                                       *)
CallOf(c) ==
  /\ setpgid[c].pc \in {"user", "create", "move"}
  /\ setpgid[c].pc # "user" => setpgid[c].p \in Members /\ Born(setpgid[c].p)
  /\ setpgid[c].pc = "move" => setpgid[c].to \in Groups

GroupInv ==
  /\ group \in [Members -> Groups]
  /\ made \in [Members -> 0..MaxGroups] /\ moved \in [Members -> 0..MaxGroups]
  /\ PROCESS_GROUP_TABLE \in [Members -> Groups \cup {Nobody}]
  /\ ppid \in [Members -> Members \cup {Nobody}] /\ alive \subseteq Members
  /\ \A p \in alive : Born(p)
  /\ \A p \in Members : ~Born(p) => made[p] = 0
  /\ DOMAIN setpgid = Members /\ \A c \in Members : CallOf(c)
  /\ MadeInv

(* The first process is the only one that there is; it leads its group.    *)
LEMMA GroupInitInv == GroupInit => GroupInv
<1> SUFFICES ASSUME GroupInit PROVE GroupInv
  OBVIOUS
<1> USE GroupsAssumption
<1>1. [pgid |-> Root, gen |-> 1] \in Groups
  BY DEF Groups
<1>2. \A c \in Members : CallOf(c)
  BY Zenon DEF GroupInit, CallOf, NoCall
<1>3. MadeInv
  BY DEF GroupInit, MadeInv
<1> QED  BY <1>1, <1>2, <1>3 DEF GroupInit, GroupInv, Born

(* A group that setpgid finds in the table is a group.                     *)
LEMMA FoundGroup ==
  ASSUME GroupInv, NEW g \in Members, get_process_group(g) # Nobody
  PROVE  get_process_group(g) \in Groups
BY Zenon DEF GroupInv, get_process_group

(* Every operation on the groups preserves the invariant.                  *)
LEMMA GroupNextInv == GroupInv /\ [GroupNext]_groupVars => GroupInv'
<1> SUFFICES ASSUME GroupInv, [GroupNext]_groupVars PROVE GroupInv'
  OBVIOUS
<1> USE GroupsAssumption
<1>1. ASSUME NEW p \in Members, NEW q \in Members, ForkGroup(p, q) PROVE GroupInv'
  <2>1. ~Born(q) /\ made[q] = 0
    BY Zenon, <1>1 DEF ForkGroup, GroupInv, Born
  <2>2. \A x \in Members : Born(x) => Born(x)'
    BY Zenon, <1>1 DEF ForkGroup, GroupInv, Born
  <2>3. /\ group' \in [Members -> Groups]
        /\ \A x \in Members \ {q} : group'[x] = group[x]
    BY Zenon, <1>1 DEF ForkGroup, GroupInv
  <2>4. PROCESS_GROUP_TABLE' \in [Members -> Groups \cup {Nobody}]
    BY Zenon, <1>1 DEF ForkGroup, GroupInv
  <2>5. (\A c \in Members : CallOf(c))'
    BY Zenon, <1>1, <2>2 DEF ForkGroup, GroupInv, CallOf
  <2>6. MadeInv'
    BY SMTT(30), <1>1, <2>1, <2>3 DEF ForkGroup, GroupInv, MadeInv
  <2>7. /\ ppid' \in [Members -> Members \cup {Nobody}] /\ alive' \subseteq Members
        /\ \A x \in alive' : Born(x)'
    BY SMTT(30), <1>1, <2>2 DEF ForkGroup, GroupInv, Born
  <2> QED  BY Zenon, <1>1, <2>2, <2>3, <2>4, <2>5, <2>6, <2>7 DEF ForkGroup, GroupInv
<1>2. ASSUME NEW p \in Members, LeaveGroup(p) PROVE GroupInv'
  BY Zenon, <1>2 DEF LeaveGroup, GroupInv, MadeInv, CallOf, Born
<1>3. ASSUME NEW c \in Members, NEW p \in Members, NEW g \in Members, SetpgidCheck(c, p, g)
      PROVE  GroupInv'
  <2>1. Born(p)
    BY Zenon, <1>3 DEF SetpgidCheck, GroupInv
  <2>2. CallOf(c)'
    <3>1. CASE g = p
      <4>1. setpgid' = [setpgid EXCEPT ![c] = [NoCall EXCEPT !.pc = "create", !.p = p]]
        BY Zenon, <1>3, <3>1 DEF SetpgidCheck
      <4>2. setpgid'[c].pc = "create" /\ setpgid'[c].p = p
        BY Zenon, <4>1 DEF GroupInv, NoCall
      <4> QED  BY Zenon, <1>3, <2>1, <4>2 DEF SetpgidCheck, CallOf, Born
    <3>2. CASE g # p
      <4>1. get_process_group(g) \in Groups
        BY Zenon, <1>3, <3>2, FoundGroup DEF SetpgidCheck
      <4>2. setpgid'[c] = [pc |-> "move", p |-> p, g |-> g, to |-> get_process_group(g)]
        BY Zenon, <1>3, <3>2 DEF SetpgidCheck, GroupInv
      <4> QED  BY <1>3, <2>1, <4>1, <4>2 DEF SetpgidCheck, CallOf, Born
    <3> QED  BY Zenon, <3>1, <3>2
  <2>3. \A x \in Members \ {c} : CallOf(x)'
    BY <1>3 DEF SetpgidCheck, GroupInv, CallOf, Born
  <2>4. DOMAIN setpgid' = Members
    BY Zenon, <1>3 DEF SetpgidCheck, GroupInv
  <2> QED  BY Zenon, <1>3, <2>2, <2>3, <2>4 DEF SetpgidCheck, GroupInv, MadeInv, Born
<1>4. ASSUME NEW c \in Members, CreateGroup(c) PROVE GroupInv'
  <2> DEFINE p == setpgid[c].p
             o == [pgid |-> p, gen |-> made[p] + 1]
  <2>1. setpgid[c].pc = "create" /\ p \in Members /\ Born(p)
    BY Zenon, <1>4 DEF CreateGroup, GroupInv, CallOf
  <2>2. (\A x \in Members : CallOf(x))' /\ DOMAIN setpgid' = Members
    BY Zenon, <1>4 DEF CreateGroup, GroupInv, CallOf, NoCall, Born
  <2>3. CASE group[p].pgid = p
    BY Zenon, <1>4, <2>2, <2>3 DEF CreateGroup, GroupInv, MadeInv, Born
  <2>4. CASE group[p].pgid # p
    <3>1. made[p] < MaxGroups /\ o \in Groups /\ o.pgid = p
      BY SMTT(30), <1>4, <2>1, <2>4 DEF CreateGroup, GroupInv, Groups
    <3>2. /\ group' = [group EXCEPT ![p] = o]
          /\ made' = [made EXCEPT ![p] = made[p] + 1]
          /\ UNCHANGED <<ppid, alive, moved, PROCESS_GROUP_TABLE>>
      BY Zenon, <1>4, <2>4 DEF CreateGroup
    <3> HIDE DEF o, p
    <3>3. group' \in [Members -> Groups] /\ made' \in [Members -> 0..MaxGroups]
      BY SMTT(30), <2>1, <3>1, <3>2 DEF GroupInv
    <3>4. MadeInv'
      BY SMTT(30), <2>1, <2>4, <3>1, <3>2 DEF GroupInv, MadeInv
    <3>5. \A x \in Members : ~Born(x)' => made'[x] = 0
      BY Zenon, <2>1, <3>2 DEF GroupInv, Born
    <3> QED  BY Zenon, <2>2, <3>2, <3>3, <3>4, <3>5 DEF GroupInv, Born
  <2> QED  BY Zenon, <2>3, <2>4
<1>5. ASSUME NEW c \in Members, MoveToGroup(c) PROVE GroupInv'
  <2> DEFINE p == setpgid[c].p
  <2>1. setpgid[c].pc = "move" /\ p \in Members /\ setpgid[c].to \in Groups
    BY Zenon, <1>5 DEF MoveToGroup, GroupInv, CallOf
  <2>2. (\A x \in Members : CallOf(x))' /\ DOMAIN setpgid' = Members
    BY Zenon, <1>5 DEF MoveToGroup, GroupInv, CallOf, NoCall, Born
  <2>3. group' \in [Members -> Groups] /\ moved' \in [Members -> 0..MaxGroups]
    BY SMTT(30), <1>5, <2>1 DEF MoveToGroup, GroupInv
  <2>4. /\ \A x \in Members \ {p} : group'[x] = group[x] /\ moved'[x] = moved[x]
        /\ \/ group'[p] = group[p] /\ moved'[p] = moved[p]
           \/ moved'[p] = MaxGroups
           \/ moved'[p] = moved[p] + 1
        /\ UNCHANGED <<ppid, alive, made, PROCESS_GROUP_TABLE>>
    BY Zenon, <1>5, <2>1 DEF MoveToGroup, GroupInv
  <2> HIDE DEF p
  <2>5. ASSUME NEW x \in Members \ {Root}, moved'[x] < MaxGroups
        PROVE  made'[x] <= moved'[x] + (IF group'[x].pgid = x THEN 1 ELSE 0)
    <3>1. CASE x = p
      BY SMTT(30), <2>1, <2>4, <2>5, <3>1 DEF GroupInv, MadeInv
    <3>2. CASE x # p
      BY Zenon, <2>4, <2>5, <3>2 DEF GroupInv, MadeInv
    <3> QED  BY Zenon, <3>1, <3>2
  <2> QED  BY Zenon, <2>2, <2>3, <2>4, <2>5 DEF GroupInv, MadeInv, Born
<1>6. CASE UNCHANGED groupVars
  BY Zenon, <1>6 DEF groupVars, GroupInv, MadeInv, CallOf, Born
<1> QED  BY Zenon, <1>1, <1>2, <1>3, <1>4, <1>5, <1>6 DEF GroupNext

(* A process for which setpgid is called twice, by itself and by its       *)
(* parent, gets one group, until it has been moved to another's.           *)
THEOREM OneGroupIsMade == GroupSpec => []GroupMadeOnce
<1>1. GroupInv => GroupMadeOnce
  <2> SUFFICES ASSUME GroupInv, NEW p \in Members \ {Root}, moved[p] < MaxGroups
               PROVE  made[p] <= 1 + moved[p]
    BY Zenon DEF GroupMadeOnce
  <2> QED  BY SMTT(30), GroupsAssumption DEF GroupInv, MadeInv
<1> QED  BY <1>1, GroupInitInv, GroupNextInv, PTL DEF GroupSpec

-----------------------------------------------------------------------------
(* Signals *)

Suspended == {"suspend", "suspend_enter", "asleep"}
Entering == {"suspend_enter", "timed_enter"}
PCs == {"user", "trap", "exit", "dead"} \cup Suspended \cup Waits

(* What the variables are.                                                 *)
SigTypes ==
  /\ pending \in [Targets -> SUBSET Sigs] /\ blocked \in [Threads -> SUBSET Sigs]
  /\ actions \in [Sigs -> {"default", "ignore", "handler"}]
  /\ frames \in [Threads -> Seq(SUBSET Sigs)] /\ owed \in [Threads -> Seq(SUBSET Sigs)]
  /\ wq \in Seq(Threads) /\ pc \in [Threads -> PCs]
  /\ arg \in [Threads -> [set : SUBSET Sigs, timed : BOOLEAN]]
  /\ expired \in [Threads -> BOOLEAN] /\ kept \in [Threads -> BOOLEAN]
  /\ excused \in [Threads -> BOOLEAN]
  /\ sends \in Nat /\ group_exited \in BOOLEAN

(* The queue holds the threads that sleep, each of them once.              *)
Queued ==
  /\ \A i, j \in 1..Len(wq) : wq[i] = wq[j] => i = j
  /\ \A t \in Threads : Asleep(t) <=> \E i \in 1..Len(wq) : wq[i] = t

(* The mask that the program has chosen: sigsuspend keeps it aside.        *)
Chosen(t) == IF pc[t] \in Suspended THEN arg[t].set ELSE blocked[t]

(* Each frame holds the mask that the program had before the handler.      *)
MasksOf(t) ==
  /\ Len(owed[t]) = Len(frames[t]) + 1
  /\ Alive(t) /\ ~kept[t] =>
       /\ \A i \in 1..Len(frames[t]) : frames[t][i] = owed[t][i]
       /\ Chosen(t) = owed[t][Len(frames[t]) + 1]

(* Nothing is there for a thread that sleeps, or has found nothing and is  *)
(* about to, unless it is excused.                                         *)
Heard(t) == (Asleep(t) \/ pc[t] \in Entering) /\ Ready(t) # {} => excused[t]

SigInv == SigTypes /\ Queued /\ \A t \in Threads : MasksOf(t) /\ Heard(t)

-----------------------------------------------------------------------------
LEMMA Appended ==
  ASSUME NEW q \in Seq(SUBSET Sigs), NEW n \in Nat, Len(q) = n
  PROVE  \A m \in SUBSET Sigs :
           /\ Append(q, m) \in Seq(SUBSET Sigs) /\ Len(Append(q, m)) = n + 1
           /\ \A i \in 1..n : Append(q, m)[i] = q[i]
           /\ Append(q, m)[n + 1] = m
  OBVIOUS

LEMMA Replaced ==
  ASSUME NEW q \in Seq(SUBSET Sigs), NEW m \in SUBSET Sigs, NEW n \in Nat, Len(q) = n + 1
  PROVE  /\ Replace(q, m) \in Seq(SUBSET Sigs) /\ Len(Replace(q, m)) = Len(q)
         /\ Replace(q, m)[n + 1] = m
         /\ \A i \in 1..n : Replace(q, m)[i] = q[i]
  BY DEF Replace

LEMMA Fronted ==
  ASSUME NEW T, NEW q \in Seq(T), q # <<>>
  PROVE  /\ Len(q) \in Nat \ {0}
         /\ Front(q) \in Seq(T) /\ Len(Front(q)) = Len(q) - 1
         /\ \A i \in 1..(Len(q) - 1) : Front(q)[i] = q[i]
<1>1. Len(q) \in Nat \ {0}
  OBVIOUS
<1>2. \A i \in 1..(Len(q) - 1) : q[i] \in T
  BY <1>1
<1>3. Front(q) \in Seq(T)
  BY <1>1, <1>2 DEF Front
<1>4. Len(Front(q)) = Len(q) - 1
  <2> DEFINE m == Len(q) - 1
  <2>1. m \in Nat
    BY <1>1
  <2>2. Len(SubSeq(q, 1, m)) = m
    <3> HIDE DEF m
    <3> QED
      BY <2>1
  <2> QED
    BY Zenon, <2>2 DEF Front
<1>5. \A i \in 1..(Len(q) - 1) : Front(q)[i] = q[i]
  BY <1>1 DEF Front
<1> QED
  BY Zenon, <1>1, <1>3, <1>4, <1>5

LEMMA Dropped ==
  ASSUME NEW q \in Seq(Threads), NEW n \in Nat
  PROVE  LET r == SubSeq(q, n + 1, Len(q))
         IN  /\ r \in Seq(Threads) /\ Len(r) = IF n < Len(q) THEN Len(q) - n ELSE 0
             /\ \A i \in 1..Len(r) : r[i] = q[i + n] /\ i + n \in 1..Len(q)
<1>1. CASE n < Len(q)
  BY <1>1
<1>2. CASE ~(n < Len(q))
  <2>1. SubSeq(q, n + 1, Len(q)) = <<>>
    BY <1>2
  <2> QED
    BY <2>1, <1>2
<1> QED
  BY Zenon, <1>1, <1>2

LEMMA ArgTypes ==
  /\ NoArg \in [set : SUBSET Sigs, timed : BOOLEAN]
  /\ \A m \in SUBSET Sigs :
       /\ [NoArg EXCEPT !.set = m] \in [set : SUBSET Sigs, timed : BOOLEAN]
       /\ [NoArg EXCEPT !.set = m].set = m
  BY Zenon DEF NoArg

LEMMA LowestIn ==
  ASSUME NEW S \in SUBSET Nat, S # {}
  PROVE  Lowest(S) \in S
<1> DEFINE R == OpToRel(<, Nat)
<1>1. IsWellFoundedOn(R, Nat)
  BY Zenon, NatLessThanWellFounded
<1>2. ASSUME NEW x \in Nat, NEW y \in Nat, <<x, y>> \notin R PROVE ~ (x < y)
  BY Zenon, <1>2 DEF OpToRel
<1> HIDE DEF R
<1>3. PICK x \in S : \A y \in S : ~ (<<y, x>> \in R)
  BY Zenon, <1>1, WFMin
<1>4. ASSUME NEW y \in S PROVE x <= y
  <2>1. ~ (y < x)
    BY Zenon, <1>2, <1>3
  <2> QED
    BY <2>1
<1> QED
  BY Zenon, <1>4 DEF Lowest

LEMMA InitSigInv == Init => SigInv
<1> SUFFICES ASSUME Init PROVE SigInv
  OBVIOUS
<1>1. SigTypes
  <2>1. <<>> \in Seq(SUBSET Sigs) /\ <<{}>> \in Seq(SUBSET Sigs) /\ <<>> \in Seq(Threads)
    OBVIOUS
  <2>2. frames \in [Threads -> Seq(SUBSET Sigs)] /\ owed \in [Threads -> Seq(SUBSET Sigs)]
    BY Zenon, <2>1 DEF Init
  <2>4. arg \in [Threads -> [set : SUBSET Sigs, timed : BOOLEAN]]
    BY Zenon, ArgTypes DEF Init
  <2>5. pc \in [Threads -> PCs]
    BY Zenon DEF Init, PCs
  <2> QED
    BY Zenon, <2>1, <2>2, <2>4, <2>5 DEF Init, SigTypes
<1>2. Queued
  BY DEF Init, Queued, Asleep
<1>3. ASSUME NEW t \in Threads PROVE MasksOf(t) /\ Heard(t)
  BY DEF Init, MasksOf, Heard, Chosen, Suspended, Asleep, Entering
<1> QED
  BY Zenon, <1>1, <1>2, <1>3 DEF SigInv

(* A thread whose mask and frames are left alone, and that may be woken.   *)
LEMMA MasksRest ==
  ASSUME NEW u \in Threads, MasksOf(u),
         frames'[u] = frames[u], owed'[u] = owed[u], kept'[u] = kept[u],
         blocked'[u] = blocked[u], arg'[u] = arg[u],
         \/ pc'[u] = pc[u] \/ pc'[u] = "dead"
         \/ pc[u] = "asleep" /\ pc'[u] = "suspend"
         \/ pc[u] \notin Suspended /\ pc'[u] \notin Suspended /\ pc[u] # "dead"
         \/ pc[u] \in Suspended /\ pc'[u] \in Suspended
  PROVE  MasksOf(u)'
<1>1. pc'[u] # "dead" => pc[u] # "dead" /\ (pc'[u] \in Suspended <=> pc[u] \in Suspended)
  BY Zenon DEF Suspended
<1>2. pc'[u] # "dead" => Chosen(u)' = Chosen(u)
  BY Zenon, <1>1 DEF Chosen
<1> QED
  BY Zenon, <1>1, <1>2 DEF MasksOf, Alive

(* A thread for which nothing new is pending.                              *)
LEMMA HeardRest ==
  ASSUME NEW u \in Threads, Heard(u), excused'[u] = excused[u],
         \/ pc'[u] = pc[u]
         \/ pc[u] \in Entering /\ Asleep(u)' /\ (pc[u] \in Waits <=> pc'[u] \in Waits),
         blocked'[u] = blocked[u], arg'[u] = arg[u],
         pending'[u] \subseteq pending[u], pending'[Process] \subseteq pending[Process]
  PROVE  Heard(u)'
<1>1. Awaited(u)' = Awaited(u)
  BY Zenon DEF Awaited, Waits
<1>2. Ready(u)' \subseteq Ready(u)
  BY Zenon, <1>1 DEF Ready
<1>3. (Asleep(u) \/ pc[u] \in Entering)' => Asleep(u) \/ pc[u] \in Entering
  BY Zenon DEF Asleep
<1> QED
  BY Zenon, <1>2, <1>3 DEF Heard

LEMMA QueueRest ==
  ASSUME Queued, wq' = wq, \A u \in Threads : Asleep(u)' <=> Asleep(u)
  PROVE  Queued'
  BY Zenon DEF Queued

-----------------------------------------------------------------------------
(* The queue when the first n threads are woken, and what each finds.      *)
LEMMA Sent ==
  ASSUME SigInv, NEW X \in SUBSET Targets, NEW s \in Sigs, Cardinality(X) \in Nat,
         Send(X, s), blocked' = blocked, arg' = arg,
         \A u \in Threads : \/ pc'[u] = Awake(Cardinality(X))[u]
                            \/ ~Asleep(u) /\ pc'[u] \in {"trap", "dead"}
  PROVE  /\ pending' \in [Targets -> SUBSET Sigs] /\ wq' \in Seq(Threads)
         /\ excused' \in [Threads -> BOOLEAN]
         /\ Queued' /\ \A u \in Threads : Heard(u)'
<1> DEFINE n == Cardinality(X)
<1>w. wq \in Seq(Threads) /\ Len(wq) \in Nat /\ wq' = SubSeq(wq, n + 1, Len(wq))
  BY DEF SigInv, SigTypes, Send
<1>l. /\ wq' \in Seq(Threads)
      /\ Len(wq') = IF n < Len(wq) THEN Len(wq) - n ELSE 0
      /\ \A i \in 1..Len(wq') : wq'[i] = wq[i + n] /\ i + n \in 1..Len(wq)
  BY Zenon, <1>w, Dropped
<1>p. /\ pending' \in [Targets -> SUBSET Sigs]
      /\ \A x \in Targets : pending'[x] = pending[x] \cup (IF x \in X THEN {s} ELSE {})
  BY Zenon DEF SigInv, SigTypes, Send
<1>e. /\ excused' \in [Threads -> BOOLEAN]
      /\ \A u \in Threads : excused'[u] = (excused[u] \/ Astray(u, X, s, n))
  <2>1. \A u \in Threads : (excused[u] \/ Astray(u, X, s, n)) \in BOOLEAN
    BY Zenon DEF Astray
  <2>2. excused' = [u \in Threads |-> excused[u] \/ Astray(u, X, s, n)]
    BY Zenon DEF Send
  <2> QED
    BY Zenon, <2>1, <2>2
<1>a. ASSUME NEW u \in Threads
      PROVE  /\ (\A i \in 1..Len(wq) : wq[i] = u => i > n) =>
                  pc'[u] = pc[u] \/ (~Asleep(u) /\ pc'[u] \in {"trap", "dead"})
             /\ ~(\A i \in 1..Len(wq) : wq[i] = u => i > n) =>
                  pc'[u] \notin Entering /\ ~Asleep(u)'
  <2>1. Awake(n)[u] = IF \A i \in 1..Len(wq) : wq[i] = u => i > n THEN pc[u]
                      ELSE IF pc[u] = "asleep" THEN "suspend" ELSE "timed"
    BY Zenon DEF Awake
  <2>2. pc'[u] \in {"trap", "dead", "suspend", "timed"} => pc'[u] \notin Entering /\ ~Asleep(u)'
    BY Zenon DEF Entering, Asleep
  <2>3. CASE ~(\A i \in 1..Len(wq) : wq[i] = u => i > n)
    <3>1. Awake(n)[u] = "suspend" \/ Awake(n)[u] = "timed"
      BY Zenon, <2>1, <2>3
    <3> QED
      BY Zenon, <3>1, <2>2, <2>3
  <2>4. CASE \A i \in 1..Len(wq) : wq[i] = u => i > n
    <3>1. Awake(n)[u] = pc[u]
      BY Zenon, <2>1, <2>4
    <3> QED
      BY Zenon, <3>1, <2>4
  <2> QED
    BY Zenon, <2>3, <2>4
<1>q. Queued'
  <2>1. ASSUME NEW i \in 1..Len(wq'), NEW j \in 1..Len(wq'), wq'[i] = wq'[j] PROVE i = j
    <3>1. wq[i + n] = wq[j + n] /\ i + n \in 1..Len(wq) /\ j + n \in 1..Len(wq)
      BY Zenon, <1>l, <2>1
    <3>2. i + n = j + n
      BY Zenon, <3>1 DEF SigInv, Queued
    <3> QED
      BY <3>2
  <2>2. ASSUME NEW u \in Threads PROVE Asleep(u)' <=> \E i \in 1..Len(wq') : wq'[i] = u
    <3>1. CASE \E i \in 1..Len(wq) : wq[i] = u /\ ~(i > n)
      <4>1. PICK k \in 1..Len(wq) : wq[k] = u /\ ~(k > n)
        BY Zenon, <3>1
      <4>2. ASSUME NEW i \in 1..Len(wq'), wq'[i] = u PROVE FALSE
        <5>1. wq[i + n] = wq[k] /\ i + n \in 1..Len(wq)
          BY Zenon, <4>1, <4>2, <1>l
        <5>2. i + n = k
          BY Zenon, <5>1 DEF SigInv, Queued
        <5> QED
          BY <5>2, <4>1
      <4> QED
        BY Zenon, <4>1, <4>2, <1>a
    <3>2. CASE \A i \in 1..Len(wq) : wq[i] = u => i > n
      <4>1. (\E i \in 1..Len(wq) : wq[i] = u) <=> \E i \in 1..Len(wq') : wq'[i] = u
        <5>1. ASSUME NEW i \in 1..Len(wq), wq[i] = u PROVE \E k \in 1..Len(wq') : wq'[k] = u
          <6>1. i > n
            BY Zenon, <5>1, <3>2
          <6>2. i - n \in 1..Len(wq') /\ (i - n) + n = i
            BY <6>1, <1>w, <1>l
          <6> QED
            BY Zenon, <6>2, <5>1, <1>l
        <5> QED
          BY Zenon, <5>1, <1>l
      <4>2. pc'[u] = pc[u] \/ (~Asleep(u) /\ pc'[u] \in {"trap", "dead"})
        BY Zenon, <3>2, <1>a
      <4>3. Asleep(u)' <=> Asleep(u)
        BY Zenon, <4>2 DEF Asleep
      <4> QED
        BY Zenon, <4>1, <4>3 DEF SigInv, Queued
    <3> QED
      BY Zenon, <3>1, <3>2
  <2> QED
    BY Zenon, <2>1, <2>2 DEF Queued
<1>h. ASSUME NEW u \in Threads, (Asleep(u) \/ pc[u] \in Entering)', Ready(u)' # {}
      PROVE  excused'[u]
  <2>1. \A i \in 1..Len(wq) : wq[i] = u => i > n
    BY Zenon, <1>h, <1>a
  <2>2. pc'[u] = pc[u]
    <3>1. pc'[u] \notin {"trap", "dead"}
      BY Zenon, <1>h DEF Asleep, Entering
    <3> QED
      BY Zenon, <1>a, <2>1, <3>1
  <2>3. Awaited(u)' = Awaited(u) /\ (Asleep(u) \/ pc[u] \in Entering)
    BY Zenon, <2>2, <1>h DEF Awaited, Asleep
  <2>4. CASE Ready(u) # {}
    BY Zenon, <2>3, <2>4, <1>e DEF SigInv, Heard
  <2>5. CASE Ready(u) = {}
    <3>1. u \in Targets /\ Process \in Targets
      BY Zenon DEF Targets
    <3>2. {u, Process} \cap X # {} /\ s \in Awaited(u)
      BY Zenon, <3>1, <2>3, <2>5, <1>h, <1>p DEF Ready
    <3>3. Astray(u, X, s, n)
      BY Zenon, <3>2, <2>3, <2>1 DEF Astray, Entering
    <3> QED
      BY Zenon, <3>3, <1>e
  <2> QED
    BY Zenon, <2>4, <2>5
<1> QED
  BY Zenon, <1>l, <1>p, <1>e, <1>q, <1>h DEF Heard

-----------------------------------------------------------------------------
(* Sending: the threads woken go on in the call they slept in.             *)
LEMMA SendMasks ==
  ASSUME SigInv, NEW n \in Nat, NEW u \in Threads,
         \/ pc'[u] = Awake(n)[u]
         \/ ~Asleep(u) /\ pc[u] \in {"user", "exit"} /\ pc'[u] \in {"trap", "dead"},
         frames' = frames, owed' = owed, kept' = kept, blocked' = blocked, arg' = arg
  PROVE  MasksOf(u)'
<1>1. CASE \A i \in 1..Len(wq) : wq[i] = u => i > n
  <2>1. Awake(n)[u] = pc[u]
    BY Zenon, <1>1 DEF Awake
  <2>2. pc'[u] = pc[u] \/ (pc[u] \notin Suspended /\ pc'[u] \notin Suspended /\ pc[u] # "dead")
    BY Zenon, <2>1 DEF Suspended
  <2> QED
    BY Zenon, <2>2, MasksRest DEF SigInv
<1>2. CASE \E i \in 1..Len(wq) : wq[i] = u /\ ~(i > n)
  <2>1. Asleep(u)
    BY Zenon, <1>2 DEF SigInv, Queued
  <2>2. Awake(n)[u] = IF pc[u] = "asleep" THEN "suspend" ELSE "timed"
    BY Zenon, <1>2 DEF Awake
  <2>3. (pc[u] = "asleep" /\ pc'[u] = "suspend") \/ (pc[u] = "timed_asleep" /\ pc'[u] = "timed")
    BY Zenon, <2>1, <2>2 DEF Asleep
  <2>4. \/ pc[u] = "asleep" /\ pc'[u] = "suspend"
        \/ pc[u] \notin Suspended /\ pc'[u] \notin Suspended /\ pc[u] # "dead"
    BY Zenon, <2>3 DEF Suspended
  <2> QED
    BY Zenon, <2>4, MasksRest DEF SigInv
<1> QED
  BY Zenon, <1>1, <1>2

LEMMA AwakeType ==
  ASSUME SigTypes, NEW n
  PROVE  Awake(n) \in [Threads -> PCs]
<1>1. {"suspend", "timed"} \subseteq PCs
  BY Zenon DEF PCs, Suspended, Waits
<1> QED
  BY Zenon, <1>1 DEF Awake, SigTypes

LEMMA OneTarget == \A x \in Targets : {x} \in SUBSET Targets /\ Cardinality({x}) = 1
  BY Zenon, FS_Singleton

LEMMA KillInv ==
  ASSUME SigInv, NEW x \in Targets, NEW s \in Sigs, Send({x}, s), sends' = sends + 1,
         \/ pc' = Awake(1)
         \/ \E t \in Threads : pc[t] = "user" /\ pc' = [Awake(1) EXCEPT ![t] = "trap"],
         UNCHANGED <<blocked, actions, frames, arg, expired, group_exited, owed, kept>>
  PROVE  SigInv'
<1>1. Awake(1) \in [Threads -> PCs]
  BY Zenon, AwakeType DEF SigInv
<1>2. ASSUME NEW u \in Threads
      PROVE  \/ pc'[u] = Awake(1)[u]
             \/ ~Asleep(u) /\ pc[u] \in {"user", "exit"} /\ pc'[u] \in {"trap", "dead"}
  BY Zenon, <1>1 DEF Asleep
<1>3. pc' \in [Threads -> PCs]
  BY Zenon, <1>1 DEF PCs
<1>4. /\ pending' \in [Targets -> SUBSET Sigs] /\ wq' \in Seq(Threads)
      /\ excused' \in [Threads -> BOOLEAN]
      /\ Queued' /\ \A u \in Threads : Heard(u)'
  <2>1. {x} \in SUBSET Targets /\ Cardinality({x}) = 1 /\ Cardinality({x}) \in Nat
    BY OneTarget
  <2> QED
    BY Zenon, <2>1, <1>2, Sent
<1>5. \A u \in Threads : MasksOf(u)'
  <2>1. 1 \in Nat /\ frames' = frames /\ owed' = owed /\ kept' = kept /\ blocked' = blocked /\ arg' = arg
    OBVIOUS
  <2> QED
    BY Zenon, <2>1, <1>2, SendMasks
<1>6. SigTypes'
  BY <1>3, <1>4 DEF SigInv, SigTypes
<1> QED
  BY Zenon, <1>4, <1>5, <1>6 DEF SigInv

LEMMA ExitInv ==
  ASSUME SigInv, NEW t \in Threads, Exit(t)
  PROVE  SigInv'
<1> DEFINE others == {u \in Threads \ {t} : Alive(u)}
<1>u. /\ pc[t] = "exit" /\ ~Asleep(t) /\ group_exited' = TRUE
      /\ blocked' = blocked /\ actions' = actions /\ frames' = frames /\ arg' = arg
      /\ expired' = expired /\ sends' = sends /\ owed' = owed /\ kept' = kept
  BY Zenon DEF Exit, Asleep
<1>1. CASE group_exited
  <2>1. /\ pc' = [pc EXCEPT ![t] = "dead"] /\ pc \in [Threads -> PCs]
        /\ pending' = pending /\ wq' = wq /\ excused' = excused
    BY Zenon, <1>1 DEF Exit, Goto, SigInv, SigTypes
  <2>2. SigTypes'
    BY Zenon, <2>1, <1>u DEF SigInv, SigTypes, PCs
  <2>3. \A u \in Threads : pc'[u] = pc[u] \/ (u = t /\ pc'[u] = "dead")
    BY Zenon, <2>1
  <2>4. \A u \in Threads : Asleep(u)' <=> Asleep(u)
    BY Zenon, <2>3, <1>u DEF Asleep
  <2>5. Queued'
    BY Zenon, <2>4, <2>1, QueueRest DEF SigInv
  <2>6. ASSUME NEW u \in Threads PROVE MasksOf(u)' /\ Heard(u)'
    <3>1. MasksOf(u)'
      BY Zenon, <2>3, <1>u, MasksRest DEF SigInv
    <3>2. CASE pc'[u] = pc[u]
      BY Zenon, <3>1, <3>2, <2>1, <1>u, HeardRest DEF SigInv
    <3>3. CASE pc'[u] = "dead"
      <4>1. ~(Asleep(u) \/ pc[u] \in Entering)'
        BY Zenon, <3>3 DEF Asleep, Entering
      <4> QED
        BY Zenon, <3>1, <4>1 DEF Heard
    <3> QED
      BY Zenon, <3>1, <3>2, <3>3, <2>3
  <2> QED
    BY Zenon, <2>2, <2>5, <2>6 DEF SigInv
<1>2. CASE ~group_exited
  <2>1. Send(others, SIGKILL) /\ pc' = [Awake(Cardinality(others)) EXCEPT ![t] = "dead"]
    BY Zenon, <1>2 DEF Exit
  <2>2. others \in SUBSET Targets /\ Cardinality(others) \in Nat
    BY Zenon, SignalAssumption, FS_Subset, FS_CardinalityType DEF Targets
  <2> HIDE DEF others
  <2>3. Awake(Cardinality(others)) \in [Threads -> PCs]
    BY Zenon, AwakeType DEF SigInv
  <2>4. ASSUME NEW u \in Threads
        PROVE  \/ pc'[u] = Awake(Cardinality(others))[u]
               \/ ~Asleep(u) /\ pc[u] \in {"user", "exit"} /\ pc'[u] \in {"trap", "dead"}
    BY Zenon, <2>1, <2>3, <1>u
  <2>5. pc' \in [Threads -> PCs]
    BY Zenon, <2>1, <2>3 DEF PCs
  <2>6. /\ pending' \in [Targets -> SUBSET Sigs] /\ wq' \in Seq(Threads)
        /\ excused' \in [Threads -> BOOLEAN]
        /\ Queued' /\ \A u \in Threads : Heard(u)'
    <3>1. SIGKILL \in Sigs
      BY Zenon, SignalAssumption
    <3> QED
      BY Zenon, <3>1, <2>1, <2>2, <2>4, <1>u, Sent
  <2>7. \A u \in Threads : MasksOf(u)'
    BY Zenon, <2>2, <2>4, <1>u, SendMasks
  <2>8. SigTypes'
    BY Zenon, <2>5, <2>6, <1>u DEF SigInv, SigTypes
  <2> QED
    BY Zenon, <2>6, <2>7, <2>8 DEF SigInv
<1> QED
  BY Zenon, <1>1, <1>2

-----------------------------------------------------------------------------
(* A step of t leaves the other threads alone; it may take signals that    *)
(* are pending for the process.                                            *)
OnlyOf(t) ==
  /\ \A u \in Threads \ {t} :
       /\ pc'[u] = pc[u] /\ arg'[u] = arg[u] /\ blocked'[u] = blocked[u]
       /\ frames'[u] = frames[u] /\ owed'[u] = owed[u] /\ kept'[u] = kept[u]
       /\ excused'[u] = excused[u] /\ pending'[u] \subseteq pending[u]
  /\ pending'[Process] \subseteq pending[Process]

LEMMA OthersRest ==
  ASSUME SigInv, NEW t \in Threads, OnlyOf(t), NEW u \in Threads, u # t
  PROVE  MasksOf(u)' /\ Heard(u)' /\ (Asleep(u)' <=> Asleep(u))
<1>1. /\ pc'[u] = pc[u] /\ arg'[u] = arg[u] /\ blocked'[u] = blocked[u]
      /\ frames'[u] = frames[u] /\ owed'[u] = owed[u] /\ kept'[u] = kept[u]
      /\ excused'[u] = excused[u] /\ pending'[u] \subseteq pending[u]
      /\ pending'[Process] \subseteq pending[Process]
  BY Zenon DEF OnlyOf
<1>2. MasksOf(u) /\ Heard(u)
  BY Zenon DEF SigInv
<1>3. MasksOf(u)'
  BY Zenon, <1>1, <1>2, MasksRest
<1>4. Heard(u)'
  BY Zenon, <1>1, <1>2, HeardRest
<1>5. Asleep(u)' <=> Asleep(u)
  BY Zenon, <1>1 DEF Asleep
<1> QED
  BY Zenon, <1>3, <1>4, <1>5

(* A step of t that neither goes to sleep nor wakes.                       *)
LEMMA OwnStep ==
  ASSUME SigInv, NEW t \in Threads, OnlyOf(t), SigTypes', wq' = wq,
         ~Asleep(t), ~Asleep(t)', MasksOf(t)', Heard(t)'
  PROVE  SigInv'
<1>1. \A u \in Threads : Asleep(u)' <=> Asleep(u)
  BY Zenon, OthersRest
<1>2. Queued'
  BY Zenon, <1>1, QueueRest DEF SigInv
<1>3. \A u \in Threads : MasksOf(u)' /\ Heard(u)'
  BY Zenon, OthersRest
<1> QED
  BY Zenon, <1>2, <1>3 DEF SigInv

(* A thread that is neither asleep nor about to be.                        *)
LEMMA AwakeHeard ==
  ASSUME NEW t \in Threads, pc'[t] # "asleep", pc'[t] # "timed_asleep",
         pc'[t] # "suspend_enter", pc'[t] # "timed_enter"
  PROVE  ~Asleep(t)' /\ Heard(t)'
<1>1. ~(Asleep(t) \/ pc[t] \in Entering)'
  BY Zenon DEF Asleep, Entering
<1> QED
  BY Zenon, <1>1 DEF Heard

LEMMA UserFacts ==
  ASSUME SigInv, NEW t \in Threads, pc[t] = "user"
  PROVE  /\ ~Asleep(t) /\ Alive(t) /\ Chosen(t) = blocked[t]
         /\ blocked[t] \in SUBSET Sigs /\ frames[t] \in Seq(SUBSET Sigs)
         /\ owed[t] \in Seq(SUBSET Sigs) /\ Len(owed[t]) = Len(frames[t]) + 1
         /\ Len(frames[t]) \in Nat
<1>1. ~Asleep(t) /\ Alive(t) /\ Chosen(t) = blocked[t]
  BY Zenon DEF Asleep, Alive, Chosen, Suspended
<1>2. blocked[t] \in SUBSET Sigs /\ frames[t] \in Seq(SUBSET Sigs) /\ owed[t] \in Seq(SUBSET Sigs)
  BY Zenon DEF SigInv, SigTypes
<1>3. Len(owed[t]) = Len(frames[t]) + 1
  BY Zenon DEF SigInv, MasksOf
<1>4. Len(frames[t]) \in Nat
  BY <1>2
<1> QED
  BY Zenon, <1>1, <1>2, <1>3, <1>4

LEMMA TrapInv ==
  ASSUME SigInv, NEW t \in Threads, Trap(t)
  PROVE  SigInv'
<1>1. /\ pc[t] = "user" /\ pc' = [pc EXCEPT ![t] = "trap"] /\ pc \in [Threads -> PCs]
      /\ pending' = pending /\ blocked' = blocked /\ actions' = actions /\ frames' = frames
      /\ wq' = wq /\ arg' = arg /\ expired' = expired /\ sends' = sends
      /\ group_exited' = group_exited /\ owed' = owed /\ kept' = kept /\ excused' = excused
  BY Zenon DEF Trap, Goto, sigVars, ghosts, SigInv, SigTypes
<1>2. pc'[t] = "trap" /\ \A u \in Threads \ {t} : pc'[u] = pc[u]
  BY Zenon, <1>1
<1>3. OnlyOf(t)
  BY Zenon, <1>1, <1>2 DEF OnlyOf
<1>4. pc' \in [Threads -> PCs]
  BY Zenon, <1>1 DEF PCs
<1>5. SigTypes'
  BY Zenon, <1>1, <1>4 DEF SigInv, SigTypes
<1>6. ~Asleep(t)' /\ Heard(t)'
  BY Zenon, <1>2, AwakeHeard
<1>7. pc[t] \notin Suspended /\ pc'[t] \notin Suspended /\ pc[t] # "dead"
  BY Zenon, <1>1, <1>2 DEF Suspended
<1>8. MasksOf(t)'
  BY Zenon, <1>1, <1>7, MasksRest DEF SigInv
<1> QED
  BY Zenon, <1>1, <1>3, <1>5, <1>6, <1>8, UserFacts, OwnStep

LEMMA SigactionInv ==
  ASSUME SigInv, NEW t \in Threads, NEW a \in Acts, Sigaction(t, a.sig, a.act)
  PROVE  SigInv'
<1>1. /\ pc[t] = "user" /\ pc' = [pc EXCEPT ![t] = "trap"] /\ pc \in [Threads -> PCs]
      /\ pending' = pending /\ blocked' = blocked /\ frames' = frames
      /\ wq' = wq /\ arg' = arg /\ expired' = expired /\ sends' = sends
      /\ group_exited' = group_exited /\ owed' = owed /\ kept' = kept /\ excused' = excused
  BY Zenon DEF Sigaction, Goto, ghosts, SigInv, SigTypes
<1>2. pc'[t] = "trap" /\ \A u \in Threads \ {t} : pc'[u] = pc[u]
  BY Zenon, <1>1
<1>3. OnlyOf(t)
  BY Zenon, <1>1, <1>2 DEF OnlyOf
<1>4. pc' \in [Threads -> PCs]
  BY Zenon, <1>1 DEF PCs
<1>a. actions' \in [Sigs -> {"default", "ignore", "handler"}]
  <2>1. a.act \in {"default", "ignore", "handler"}
    BY Zenon, SignalAssumption
  <2>2. actions \in [Sigs -> {"default", "ignore", "handler"}]
    BY Zenon DEF SigInv, SigTypes
  <2>3. actions' = [actions EXCEPT ![a.sig] = a.act]
    BY Zenon DEF Sigaction
  <2> QED
    BY Zenon, <2>1, <2>2, <2>3
<1>5. SigTypes'
  BY Zenon, <1>1, <1>4, <1>a DEF SigInv, SigTypes
<1>6. ~Asleep(t)' /\ Heard(t)'
  BY Zenon, <1>2, AwakeHeard
<1>7. pc[t] \notin Suspended /\ pc'[t] \notin Suspended /\ pc[t] # "dead"
  BY Zenon, <1>1, <1>2 DEF Suspended
<1>8. MasksOf(t)'
  BY Zenon, <1>1, <1>7, MasksRest DEF SigInv
<1> QED
  BY Zenon, <1>1, <1>3, <1>5, <1>6, <1>8, UserFacts, OwnStep

(* A mask of the program's own choice, in and out of handlers.             *)
LEMMA SigprocmaskInv ==
  ASSUME SigInv, NEW t \in Threads, NEW how \in {"block", "unblock", "set"}, NEW set \in Masks,
         Sigprocmask(t, how, set)
  PROVE  SigInv'
<1> DEFINE m == NewMask(how, blocked[t], set)
<1>1. /\ pc[t] = "user" /\ pc' = [pc EXCEPT ![t] = "trap"] /\ pc \in [Threads -> PCs]
      /\ pending' = pending /\ actions' = actions /\ frames' = frames
      /\ wq' = wq /\ arg' = arg /\ expired' = expired /\ sends' = sends
      /\ group_exited' = group_exited /\ kept' = kept /\ excused' = excused
  BY Zenon DEF Sigprocmask, Goto, SigInv, SigTypes
<1>2. /\ blocked' = [blocked EXCEPT ![t] = m]
      /\ owed' = [owed EXCEPT ![t] = Replace(owed[t], blocked'[t])]
      /\ blocked \in [Threads -> SUBSET Sigs] /\ owed \in [Threads -> Seq(SUBSET Sigs)]
  BY Zenon DEF Sigprocmask, SigInv, SigTypes
<1>3. m \in SUBSET Sigs
  <2>1. set \in SUBSET Sigs
    BY Zenon, SignalAssumption
  <2>2. blocked[t] \in SUBSET Sigs
    BY Zenon, <1>2
  <2> QED
    BY Zenon, <2>1, <2>2 DEF NewMask
<1> HIDE DEF m
<1>4. /\ frames[t] \in Seq(SUBSET Sigs) /\ owed[t] \in Seq(SUBSET Sigs)
      /\ Len(owed[t]) = Len(frames[t]) + 1 /\ Len(frames[t]) \in Nat
  BY Zenon, <1>1, UserFacts
<1>5. blocked'[t] = m /\ blocked' \in [Threads -> SUBSET Sigs]
  BY Zenon, <1>2, <1>3
<1>6. /\ Replace(owed[t], m) \in Seq(SUBSET Sigs) /\ Len(Replace(owed[t], m)) = Len(owed[t])
      /\ Replace(owed[t], m)[Len(frames[t]) + 1] = m
      /\ \A i \in 1..Len(frames[t]) : Replace(owed[t], m)[i] = owed[t][i]
  BY Zenon, <1>3, <1>4, Replaced
<1>7. owed'[t] = Replace(owed[t], m) /\ owed' \in [Threads -> Seq(SUBSET Sigs)]
  BY Zenon, <1>2, <1>5, <1>6
<1>8. pc'[t] = "trap" /\ \A u \in Threads \ {t} : pc'[u] = pc[u]
  BY Zenon, <1>1
<1>9. OnlyOf(t)
  BY Zenon, <1>1, <1>2, <1>8 DEF OnlyOf
<1>10. pc' \in [Threads -> PCs]
  BY Zenon, <1>1 DEF PCs
<1>11. SigTypes'
  BY Zenon, <1>1, <1>5, <1>7, <1>10 DEF SigInv, SigTypes
<1>12. ~Asleep(t)' /\ Heard(t)'
  BY Zenon, <1>8, AwakeHeard
<1>13. Chosen(t)' = m
  BY Zenon, <1>8, <1>5 DEF Chosen, Suspended
<1>14. MasksOf(t)'
  <2>1. Alive(t) /\ ~kept[t] => \A i \in 1..Len(frames[t]) : frames[t][i] = owed[t][i]
    BY Zenon DEF SigInv, MasksOf
  <2>2. Alive(t)
    BY Zenon, <1>1, UserFacts
  <2> QED
    BY Zenon, <2>1, <2>2, <1>1, <1>4, <1>6, <1>7, <1>13 DEF MasksOf
<1> QED
  BY Zenon, <1>1, <1>9, <1>11, <1>12, <1>14, UserFacts, OwnStep

(* The mask in the innermost frame is the one the handler interrupted.     *)
LEMMA SigreturnInv ==
  ASSUME SigInv, NEW t \in Threads, Sigreturn(t)
  PROVE  SigInv'
<1> DEFINE n == Len(frames[t])
<1>1. /\ pc[t] = "user" /\ pc' = [pc EXCEPT ![t] = "trap"] /\ pc \in [Threads -> PCs]
      /\ pending' = pending /\ actions' = actions /\ frames[t] # <<>>
      /\ wq' = wq /\ arg' = arg /\ expired' = expired /\ sends' = sends
      /\ group_exited' = group_exited /\ kept' = kept /\ excused' = excused
  BY Zenon DEF Sigreturn, Goto, SigInv, SigTypes
<1>2. /\ blocked' = [blocked EXCEPT ![t] = frames[t][n]]
      /\ owed' = [owed EXCEPT ![t] = Front(owed[t])]
      /\ frames' = [frames EXCEPT ![t] = Front(frames[t])]
      /\ blocked \in [Threads -> SUBSET Sigs] /\ owed \in [Threads -> Seq(SUBSET Sigs)]
      /\ frames \in [Threads -> Seq(SUBSET Sigs)]
  BY Zenon DEF Sigreturn, SigInv, SigTypes
<1>4. /\ frames[t] \in Seq(SUBSET Sigs) /\ owed[t] \in Seq(SUBSET Sigs)
      /\ Len(owed[t]) = n + 1 /\ n \in Nat
  BY Zenon, <1>1, UserFacts
<1>5. n \in 1..n /\ frames[t][n] \in SUBSET Sigs /\ (n - 1) + 1 = n /\ 1..(n - 1) \subseteq 1..n
  <2>1. n \in Nat \ {0}
    BY Zenon, <1>4, <1>1, Fronted
  <2>2. n \in 1..n /\ (n - 1) + 1 = n /\ 1..(n - 1) \subseteq 1..n
    BY <2>1
  <2>3. frames[t] \in [1..n -> SUBSET Sigs]
    BY <1>4
  <2> QED
    BY Zenon, <2>2, <2>3
<1>6. /\ Front(frames[t]) \in Seq(SUBSET Sigs) /\ Len(Front(frames[t])) = n - 1
      /\ \A i \in 1..(n - 1) : Front(frames[t])[i] = frames[t][i]
  BY Zenon, <1>4, <1>1, Fronted
<1>7. /\ Front(owed[t]) \in Seq(SUBSET Sigs) /\ Len(Front(owed[t])) = (n - 1) + 1
      /\ \A i \in 1..n : Front(owed[t])[i] = owed[t][i]
  <2>1. owed[t] # <<>> /\ (n + 1) - 1 = n
    BY <1>4
  <2> QED
    BY Zenon, <2>1, <1>4, <1>5, Fronted
<1>8. blocked'[t] = frames[t][n] /\ frames'[t] = Front(frames[t]) /\ owed'[t] = Front(owed[t])
  BY Zenon, <1>2
<1>9. /\ blocked' \in [Threads -> SUBSET Sigs] /\ owed' \in [Threads -> Seq(SUBSET Sigs)]
      /\ frames' \in [Threads -> Seq(SUBSET Sigs)]
  BY Zenon, <1>2, <1>5, <1>6, <1>7
<1> HIDE DEF n
<1>10. pc'[t] = "trap" /\ \A u \in Threads \ {t} : pc'[u] = pc[u]
  BY Zenon, <1>1
<1>11. OnlyOf(t)
  BY Zenon, <1>1, <1>2, <1>10 DEF OnlyOf
<1>12. pc' \in [Threads -> PCs]
  BY Zenon, <1>1 DEF PCs
<1>13. SigTypes'
  BY Zenon, <1>1, <1>9, <1>12 DEF SigInv, SigTypes
<1>14. ~Asleep(t)' /\ Heard(t)'
  BY Zenon, <1>10, AwakeHeard
<1>15. Chosen(t)' = frames[t][n]
  BY Zenon, <1>8, <1>10 DEF Chosen, Suspended
<1>16. MasksOf(t)'
  <2>1. Alive(t) /\ ~kept[t] => \A i \in 1..n : frames[t][i] = owed[t][i]
    BY Zenon DEF SigInv, MasksOf, n
  <2>2. Alive(t)
    BY Zenon, <1>1, UserFacts
  <2>3. Len(owed[t])' = Len(frames[t])' + 1 /\ Len(frames[t])' = n - 1
    BY Zenon, <1>6, <1>7, <1>8
  <2>4. ~kept[t] => \A i \in 1..(n - 1) : frames'[t][i] = owed'[t][i]
    BY Zenon, <2>1, <2>2, <1>5, <1>6, <1>7, <1>8
  <2>5. ~kept[t] => Chosen(t)' = owed'[t][(n - 1) + 1]
    BY Zenon, <2>1, <2>2, <1>5, <1>7, <1>8, <1>15
  <2> QED
    BY Zenon, <2>3, <2>4, <2>5, <1>1 DEF MasksOf
<1> QED
  BY Zenon, <1>1, <1>11, <1>13, <1>14, <1>16, UserFacts, OwnStep

(* sigsuspend keeps the program's mask aside.                              *)
LEMMA SigsuspendInv ==
  ASSUME SigInv, NEW t \in Threads, NEW set \in Sets, Sigsuspend(t, set)
  PROVE  SigInv'
<1> DEFINE c == [NoArg EXCEPT !.set = blocked[t]]
<1>1. /\ pc[t] = "user" /\ pc' = [pc EXCEPT ![t] = "suspend"] /\ pc \in [Threads -> PCs]
      /\ pending' = pending /\ actions' = actions /\ frames' = frames
      /\ wq' = wq /\ expired' = expired /\ sends' = sends /\ owed' = owed
      /\ group_exited' = group_exited /\ kept' = kept /\ excused' = excused
  BY Zenon DEF Sigsuspend, Goto, ghosts, SigInv, SigTypes
<1>2. /\ blocked' = [blocked EXCEPT ![t] = set \ {SIGKILL}] /\ arg' = [arg EXCEPT ![t] = c]
      /\ blocked \in [Threads -> SUBSET Sigs]
      /\ arg \in [Threads -> [set : SUBSET Sigs, timed : BOOLEAN]]
  BY Zenon DEF Sigsuspend, SigInv, SigTypes
<1>3. /\ ~Asleep(t) /\ Alive(t) /\ Chosen(t) = blocked[t] /\ blocked[t] \in SUBSET Sigs
      /\ MasksOf(t)
  BY Zenon, <1>1, UserFacts DEF SigInv
<1>4. c.set = blocked[t] /\ c \in [set : SUBSET Sigs, timed : BOOLEAN]
  BY Zenon, <1>3, ArgTypes
<1> HIDE DEF c
<1>5. set \ {SIGKILL} \in SUBSET Sigs
  BY Zenon, SignalAssumption
<1>6. /\ blocked' \in [Threads -> SUBSET Sigs] /\ arg'[t] = c
      /\ arg' \in [Threads -> [set : SUBSET Sigs, timed : BOOLEAN]]
  BY Zenon, <1>2, <1>4, <1>5
<1>8. pc'[t] = "suspend" /\ \A u \in Threads \ {t} : pc'[u] = pc[u]
  BY Zenon, <1>1
<1>9. OnlyOf(t)
  BY Zenon, <1>1, <1>2, <1>8 DEF OnlyOf
<1>10. pc' \in [Threads -> PCs]
  BY Zenon, <1>1 DEF PCs, Suspended
<1>11. SigTypes'
  BY Zenon, <1>1, <1>6, <1>10 DEF SigInv, SigTypes
<1>12. ~Asleep(t)' /\ Heard(t)'
  BY Zenon, <1>8, AwakeHeard
<1>13. Chosen(t)' = Chosen(t)
  <2>1. pc'[t] \in Suspended
    BY Zenon, <1>8 DEF Suspended
  <2> QED
    BY Zenon, <2>1, <1>3, <1>4, <1>6 DEF Chosen
<1>14. MasksOf(t)'
  BY Zenon, <1>1, <1>3, <1>13 DEF MasksOf
<1> QED
  BY Zenon, <1>3, <1>1, <1>9, <1>11, <1>12, <1>14, OwnStep

LEMMA SigtimedwaitInv ==
  ASSUME SigInv, NEW t \in Threads, NEW set \in Sets, NEW b \in BOOLEAN, Sigtimedwait(t, set, b)
  PROVE  SigInv'
<1> DEFINE c == [set |-> set \cap blocked[t], timed |-> b]
<1>1. /\ pc[t] = "user" /\ pc' = [pc EXCEPT ![t] = "timed"] /\ pc \in [Threads -> PCs]
      /\ pending' = pending /\ actions' = actions /\ frames' = frames /\ blocked' = blocked
      /\ wq' = wq /\ expired' = expired /\ sends' = sends /\ owed' = owed
      /\ group_exited' = group_exited /\ kept' = kept /\ excused' = excused
  BY Zenon DEF Sigtimedwait, Goto, ghosts, sigVars, SigInv, SigTypes
<1>2. /\ arg' = [arg EXCEPT ![t] = c]
      /\ arg \in [Threads -> [set : SUBSET Sigs, timed : BOOLEAN]]
  BY Zenon DEF Sigtimedwait, SigInv, SigTypes
<1>3. /\ ~Asleep(t) /\ Alive(t) /\ Chosen(t) = blocked[t] /\ blocked[t] \in SUBSET Sigs
      /\ MasksOf(t)
  BY Zenon, <1>1, UserFacts DEF SigInv
<1>4. c \in [set : SUBSET Sigs, timed : BOOLEAN]
  BY Zenon, <1>3
<1> HIDE DEF c
<1>6. arg' \in [Threads -> [set : SUBSET Sigs, timed : BOOLEAN]]
  BY Zenon, <1>2, <1>4
<1>8. pc'[t] = "timed" /\ \A u \in Threads \ {t} : pc'[u] = pc[u]
  BY Zenon, <1>1
<1>9. OnlyOf(t)
  BY Zenon, <1>1, <1>2, <1>8 DEF OnlyOf
<1>10. pc' \in [Threads -> PCs]
  BY Zenon, <1>1 DEF PCs, Waits
<1>11. SigTypes'
  BY Zenon, <1>1, <1>6, <1>10 DEF SigInv, SigTypes
<1>12. ~Asleep(t)' /\ Heard(t)'
  BY Zenon, <1>8, AwakeHeard
<1>13. Chosen(t)' = Chosen(t)
  <2>1. pc'[t] \notin Suspended
    BY Zenon, <1>8 DEF Suspended
  <2> QED
    BY Zenon, <2>1, <1>1, <1>3 DEF Chosen
<1>14. MasksOf(t)'
  BY Zenon, <1>1, <1>3, <1>13 DEF MasksOf
<1> QED
  BY Zenon, <1>3, <1>1, <1>9, <1>11, <1>12, <1>14, OwnStep

LEMMA ExpireInv ==
  ASSUME SigInv, NEW t \in Threads, Expire(t)
  PROVE  SigInv'
<1>1. /\ expired' = [expired EXCEPT ![t] = TRUE] /\ pc' = pc
      /\ pending' = pending /\ blocked' = blocked /\ actions' = actions /\ frames' = frames
      /\ wq' = wq /\ arg' = arg /\ sends' = sends
      /\ group_exited' = group_exited /\ owed' = owed /\ kept' = kept /\ excused' = excused
  BY Zenon DEF Expire, ghosts, sigVars
<1>2. expired' \in [Threads -> BOOLEAN]
  BY Zenon, <1>1 DEF SigInv, SigTypes
<1>3. SigTypes'
  BY Zenon, <1>1, <1>2 DEF SigInv, SigTypes
<1>4. Queued'
  BY Zenon, <1>1 DEF SigInv, Queued, Asleep
<1>5. ASSUME NEW u \in Threads PROVE MasksOf(u)' /\ Heard(u)'
  BY Zenon, <1>1, MasksRest, HeardRest DEF SigInv
<1> QED
  BY Zenon, <1>3, <1>4, <1>5 DEF SigInv

-----------------------------------------------------------------------------
(* Nothing becomes pending when a thread takes a signal, and when it finds *)
(* none, nothing unblocked is left.                                        *)
LEMMA Dequeued ==
  ASSUME SigTypes, NEW t \in Threads, Dequeue(t)
  PROVE  /\ pending' \in [Targets -> SUBSET Sigs]
         /\ \A x \in Targets : pending'[x] \subseteq pending[x]
         /\ Taken(t) = {} => (pending'[t] \cup pending'[Process]) \cap (Sigs \ blocked[t]) = {}
<1>1. t \in Targets /\ Process \in Targets /\ t # Process
  BY Zenon, SignalAssumption DEF Targets
<1>2. pending \in [Targets -> SUBSET Sigs]
  BY Zenon DEF SigTypes
<1>3. \A x \in Targets : Rest(t, x) \subseteq pending[x]
  BY Zenon DEF Rest
<1>4. \A x \in Targets : Rest(t, x) \in SUBSET Sigs
  BY Zenon, <1>2, <1>3
<1>5. \/ pending' = [pending EXCEPT ![t] = Rest(t, t)] /\ From(t) = t
      \/ pending' = [pending EXCEPT ![t] = Rest(t, t), ![Process] = Rest(t, Process)]
  BY Zenon DEF Dequeue
<1>6. pending' \in [Targets -> SUBSET Sigs]
  BY Zenon, <1>1, <1>2, <1>4, <1>5
<1>7. \A x \in Targets : pending'[x] = pending[x] \/ pending'[x] = Rest(t, x)
  BY Zenon, <1>1, <1>2, <1>5
<1>8. \A x \in Targets : pending'[x] \subseteq pending[x]
  BY Zenon, <1>3, <1>7
<1>9. ASSUME Taken(t) = {}
      PROVE  (pending'[t] \cup pending'[Process]) \cap (Sigs \ blocked[t]) = {}
  <2>1. From(t) = Process /\ Acting(t, t) = {} /\ Acting(t, Process) = {}
    BY Zenon, <1>9, <1>1 DEF Taken, From
  <2>2. pending'[t] = Rest(t, t) /\ pending'[Process] = Rest(t, Process)
    BY Zenon, <1>1, <1>2, <1>5, <2>1
  <2>3. pending'[t] = pending[t] \cap blocked[t] /\ pending'[Process] = pending[Process] \cap blocked[t]
    BY Zenon, <2>1, <2>2 DEF Rest
  <2> QED
    BY Zenon, <2>3
<1> QED
  BY Zenon, <1>6, <1>8, <1>9

LEMMA TakenType ==
  ASSUME SigTypes, NEW t \in Threads, Taken(t) # {}
  PROVE  Lowest(Taken(t)) \in Sigs
<1>1. From(t) \in Targets
  BY Zenon DEF From, Targets
<1>2. pending[From(t)] \in SUBSET Sigs
  BY Zenon, <1>1 DEF SigTypes
<1>3. Taken(t) \subseteq Sigs
  BY Zenon, <1>2 DEF Taken, Acting
<1>4. Taken(t) \in SUBSET Nat
  BY Zenon, <1>3, SignalAssumption
<1>5. Lowest(Taken(t)) \in Taken(t)
  BY Zenon, <1>4, LowestIn
<1> QED
  BY Zenon, <1>3, <1>5

(* A handler's frame gets the mask that the program had chosen, and the    *)
(* handler runs with one of its own.                                       *)
LEMMA Checked ==
  ASSUME SigInv, NEW t \in Threads, NEW none \in PCs, NEW done \in {"user", "trap"},
         pc[t] = "trap" \/ pc[t] = "suspend",
         NEW restore, restore = Chosen(t), CheckSignals(t, restore, none, done),
         arg' \in [Threads -> [set : SUBSET Sigs, timed : BOOLEAN]],
         none \in Suspended => pc[t] = "suspend" /\ arg'[t] = arg[t],
         none \notin Suspended => pc[t] = "trap"
  PROVE  /\ \A u \in Threads \ {t} :
              /\ pc'[u] = pc[u] /\ blocked'[u] = blocked[u]
              /\ frames'[u] = frames[u] /\ owed'[u] = owed[u] /\ kept'[u] = kept[u]
         /\ pc' \in [Threads -> PCs] /\ blocked' \in [Threads -> SUBSET Sigs]
         /\ frames' \in [Threads -> Seq(SUBSET Sigs)] /\ owed' \in [Threads -> Seq(SUBSET Sigs)]
         /\ kept' \in [Threads -> BOOLEAN]
         /\ MasksOf(t)'
         /\ IF Taken(t) = {} THEN pc'[t] = none /\ blocked'[t] = blocked[t]
            ELSE pc'[t] \in {"user", "trap", "exit"}
<1> DEFINE s == Lowest(Taken(t))
           n == Len(frames[t])
<1>1. /\ pc \in [Threads -> PCs] /\ blocked \in [Threads -> SUBSET Sigs]
      /\ frames \in [Threads -> Seq(SUBSET Sigs)] /\ owed \in [Threads -> Seq(SUBSET Sigs)]
      /\ kept \in [Threads -> BOOLEAN]
  BY Zenon DEF SigInv, SigTypes
<1>2. Alive(t) /\ MasksOf(t)
  BY Zenon DEF Alive, SigInv
<1>3. Chosen(t) \in SUBSET Sigs
  BY Zenon DEF Chosen, SigInv, SigTypes
<1>4. /\ frames[t] \in Seq(SUBSET Sigs) /\ owed[t] \in Seq(SUBSET Sigs)
      /\ n \in Nat /\ Len(owed[t]) = n + 1
  BY <1>1, <1>2 DEF MasksOf
<1>5. "exit" \in PCs /\ done \in PCs /\ done \notin Suspended /\ "exit" \notin Suspended
  BY Zenon DEF PCs, Suspended
<1>6. CASE Taken(t) = {}
  <2>1. /\ pc' = [pc EXCEPT ![t] = none]
        /\ blocked' = blocked /\ frames' = frames /\ owed' = owed /\ kept' = kept
    BY Zenon, <1>6 DEF CheckSignals, Goto
  <2>2. pc'[t] = none /\ pc' \in [Threads -> PCs] /\ \A u \in Threads \ {t} : pc'[u] = pc[u]
    BY Zenon, <1>1, <2>1
  <2>3. Chosen(t)' = Chosen(t)
    <3>1. pc[t] \in Suspended <=> none \in Suspended
      BY Zenon DEF Suspended
    <3> QED
      BY Zenon, <3>1, <2>1, <2>2 DEF Chosen
  <2>4. MasksOf(t)'
    BY Zenon, <1>2, <2>1, <2>3 DEF MasksOf
  <2> QED
    BY Zenon, <1>1, <1>6, <2>1, <2>2, <2>4
<1>7. CASE Taken(t) # {} /\ actions[s] = "handler"
  <2>1. /\ pc' = [pc EXCEPT ![t] = done] /\ kept' = kept
        /\ frames' = [frames EXCEPT ![t] = Append(frames[t], restore)]
        /\ blocked' = [blocked EXCEPT ![t] = blocked[t] \cup {s}]
        /\ owed' = [owed EXCEPT ![t] = Append(owed[t], blocked'[t])]
    BY Zenon, <1>7 DEF CheckSignals, Goto
  <2>2. s \in Sigs
    BY Zenon, <1>7, TakenType DEF SigInv
  <2> HIDE DEF s
  <2>3. blocked[t] \cup {s} \in SUBSET Sigs
    BY Zenon, <1>1, <2>2
  <2>4. blocked' \in [Threads -> SUBSET Sigs] /\ blocked'[t] \in SUBSET Sigs
    BY Zenon, <1>1, <2>1, <2>3
  <2>5. /\ Append(frames[t], restore) \in Seq(SUBSET Sigs)
        /\ Len(Append(frames[t], restore)) = n + 1
        /\ \A i \in 1..n : Append(frames[t], restore)[i] = frames[t][i]
        /\ Append(frames[t], restore)[n + 1] = restore
    <3>1. \A m \in SUBSET Sigs :
            /\ Append(frames[t], m) \in Seq(SUBSET Sigs)
            /\ Len(Append(frames[t], m)) = n + 1
            /\ \A i \in 1..n : Append(frames[t], m)[i] = frames[t][i]
            /\ Append(frames[t], m)[n + 1] = m
      BY <1>4, Appended
    <3> QED
      BY Zenon, <3>1, <1>3
  <2>6. /\ Append(owed[t], blocked'[t]) \in Seq(SUBSET Sigs)
        /\ Len(Append(owed[t], blocked'[t])) = (n + 1) + 1
        /\ \A i \in 1..(n + 1) : Append(owed[t], blocked'[t])[i] = owed[t][i]
        /\ Append(owed[t], blocked'[t])[(n + 1) + 1] = blocked'[t]
    <3>1. n + 1 \in Nat
      BY <1>4
    <3>2. \A m \in SUBSET Sigs :
            /\ Append(owed[t], m) \in Seq(SUBSET Sigs)
            /\ Len(Append(owed[t], m)) = (n + 1) + 1
            /\ \A i \in 1..(n + 1) : Append(owed[t], m)[i] = owed[t][i]
            /\ Append(owed[t], m)[(n + 1) + 1] = m
      BY <1>4, <3>1, Appended
    <3> QED
      BY Zenon, <3>2, <2>4
  <2>7. /\ pc'[t] = done /\ frames'[t] = Append(frames[t], restore)
        /\ owed'[t] = Append(owed[t], blocked'[t])
        /\ pc' \in [Threads -> PCs]
        /\ frames' \in [Threads -> Seq(SUBSET Sigs)] /\ owed' \in [Threads -> Seq(SUBSET Sigs)]
    BY Zenon, <1>1, <1>5, <2>1, <2>5, <2>6
  <2>8. \A u \in Threads \ {t} :
          /\ pc'[u] = pc[u] /\ blocked'[u] = blocked[u]
          /\ frames'[u] = frames[u] /\ owed'[u] = owed[u]
    BY Zenon, <1>1, <2>1
  <2> HIDE DEF n
  <2>9. MasksOf(t)'
    <3>1. Len(frames[t])' = n + 1 /\ Len(owed[t])' = Len(frames[t])' + 1
      BY Zenon, <2>5, <2>6, <2>7
    <3>2. Chosen(t)' = blocked'[t]
      BY Zenon, <1>5, <2>7 DEF Chosen
    <3>3. ~kept[t] => \A i \in 1..n : frames[t][i] = owed[t][i]
      BY Zenon, <1>2 DEF MasksOf, n
    <3>4. ~kept[t] => Chosen(t) = owed[t][n + 1]
      BY Zenon, <1>2 DEF MasksOf, n
    <3>5. 1..n \subseteq 1..(n + 1) /\ n + 1 \in 1..(n + 1)
          /\ \A i \in 1..(n + 1) : i \in 1..n \/ i = n + 1
      BY <1>4
    <3>6. ~kept[t] => \A i \in 1..(n + 1) : frames'[t][i] = owed'[t][i]
      BY Zenon, <3>3, <3>4, <3>5, <2>5, <2>6, <2>7
    <3> QED
      BY Zenon, <3>1, <3>2, <3>6, <2>1, <2>6, <2>7 DEF MasksOf
  <2>10. pc'[t] \in {"user", "trap", "exit"}
    BY Zenon, <2>7
  <2> QED
    BY Zenon, <1>1, <1>7, <2>1, <2>4, <2>7, <2>8, <2>9, <2>10
<1>8. CASE Taken(t) # {} /\ actions[s] # "handler"
  <2> DEFINE l == IF DefaultAction(s) = "terminate" THEN "exit" ELSE done
             k == kept[t] \/ pc[t] = "suspend"
  <2>1. /\ pc' = [pc EXCEPT ![t] = l]
        /\ kept' = [kept EXCEPT ![t] = k]
        /\ blocked' = blocked /\ frames' = frames /\ owed' = owed
    BY Zenon, <1>8 DEF CheckSignals, Goto
  <2>2. l \in PCs /\ l \notin Suspended /\ l \in {"user", "trap", "exit"} /\ k \in BOOLEAN
    BY Zenon, <1>1, <1>5
  <2> HIDE DEF l
  <2>3. pc'[t] = l /\ pc' \in [Threads -> PCs] /\ kept'[t] = k /\ kept' \in [Threads -> BOOLEAN]
    BY Zenon, <1>1, <2>1, <2>2
  <2>4. \A u \in Threads \ {t} : pc'[u] = pc[u] /\ kept'[u] = kept[u]
    BY Zenon, <1>1, <2>1
  <2>5. MasksOf(t)'
    <3>1. ~kept'[t] => ~kept[t] /\ pc[t] # "suspend"
      BY Zenon, <2>3
    <3>2. ~kept'[t] => pc[t] \notin Suspended
      BY Zenon, <3>1 DEF Suspended
    <3>3. ~kept'[t] => Chosen(t)' = Chosen(t)
      BY Zenon, <3>2, <2>1, <2>2, <2>3 DEF Chosen
    <3> QED
      BY Zenon, <1>2, <2>1, <3>1, <3>3 DEF MasksOf
  <2> QED
    BY Zenon, <1>1, <1>8, <2>1, <2>2, <2>3, <2>4, <2>5
<1> QED
  BY Zenon, <1>6, <1>7, <1>8

LEMMA PostTrapInv ==
  ASSUME SigInv, NEW t \in Threads, PostTrap(t)
  PROVE  SigInv'
<1>1. /\ pc[t] = "trap" /\ CheckSignals(t, blocked[t], "user", "user") /\ Dequeue(t)
      /\ arg' = [arg EXCEPT ![t] = NoArg] /\ expired' = [expired EXCEPT ![t] = FALSE]
      /\ actions' = actions /\ wq' = wq /\ sends' = sends
      /\ group_exited' = group_exited /\ excused' = excused
  BY Zenon DEF PostTrap, CheckSignals
<1>2. /\ Chosen(t) = blocked[t] /\ ~Asleep(t) /\ "user" \in PCs /\ "user" \notin Suspended
      /\ "user" \in {"user", "trap"}
  BY Zenon, <1>1 DEF Chosen, Suspended, Asleep, PCs
<1>4. /\ arg' \in [Threads -> [set : SUBSET Sigs, timed : BOOLEAN]]
      /\ expired' \in [Threads -> BOOLEAN] /\ \A u \in Threads \ {t} : arg'[u] = arg[u]
  BY Zenon, <1>1, ArgTypes DEF SigInv, SigTypes
<1>5. /\ \A u \in Threads \ {t} :
           /\ pc'[u] = pc[u] /\ blocked'[u] = blocked[u]
           /\ frames'[u] = frames[u] /\ owed'[u] = owed[u] /\ kept'[u] = kept[u]
      /\ pc' \in [Threads -> PCs] /\ blocked' \in [Threads -> SUBSET Sigs]
      /\ frames' \in [Threads -> Seq(SUBSET Sigs)] /\ owed' \in [Threads -> Seq(SUBSET Sigs)]
      /\ kept' \in [Threads -> BOOLEAN]
      /\ MasksOf(t)'
      /\ IF Taken(t) = {} THEN pc'[t] = "user" /\ blocked'[t] = blocked[t]
         ELSE pc'[t] \in {"user", "trap", "exit"}
  BY Zenon, <1>1, <1>2, <1>4, Checked
<1>6. /\ pending' \in [Targets -> SUBSET Sigs]
      /\ \A x \in Targets : pending'[x] \subseteq pending[x]
  BY Zenon, <1>1, Dequeued DEF SigInv
<1>7. OnlyOf(t)
  BY Zenon, <1>1, <1>4, <1>5, <1>6 DEF OnlyOf, Targets
<1>8. SigTypes'
  BY Zenon, <1>1, <1>4, <1>5, <1>6 DEF SigInv, SigTypes
<1>9. pc'[t] \in {"user", "trap", "exit"}
  BY Zenon, <1>5
<1>10. ~Asleep(t)' /\ Heard(t)'
  BY Zenon, <1>9, AwakeHeard
<1> QED
  BY Zenon, <1>1, <1>2, <1>5, <1>7, <1>8, <1>10, OwnStep

LEMMA SuspendCheckInv ==
  ASSUME SigInv, NEW t \in Threads, SuspendCheck(t)
  PROVE  SigInv'
<1>1. /\ pc[t] = "suspend" /\ CheckSignals(t, arg[t].set, "suspend_enter", "trap") /\ Dequeue(t)
      /\ excused' = [excused EXCEPT ![t] = FALSE] /\ arg' = arg /\ expired' = expired
      /\ actions' = actions /\ wq' = wq /\ sends' = sends
      /\ group_exited' = group_exited
  BY Zenon DEF SuspendCheck, CheckSignals
<1>2. /\ Chosen(t) = arg[t].set /\ ~Asleep(t) /\ "suspend_enter" \in PCs
      /\ "suspend_enter" \in Suspended /\ "trap" \in {"user", "trap"}
  BY Zenon, <1>1 DEF Chosen, Suspended, Asleep, PCs
<1>4. /\ arg' \in [Threads -> [set : SUBSET Sigs, timed : BOOLEAN]]
      /\ excused' \in [Threads -> BOOLEAN] /\ \A u \in Threads \ {t} : excused'[u] = excused[u]
  BY Zenon, <1>1 DEF SigInv, SigTypes
<1>5. /\ \A u \in Threads \ {t} :
           /\ pc'[u] = pc[u] /\ blocked'[u] = blocked[u]
           /\ frames'[u] = frames[u] /\ owed'[u] = owed[u] /\ kept'[u] = kept[u]
      /\ pc' \in [Threads -> PCs] /\ blocked' \in [Threads -> SUBSET Sigs]
      /\ frames' \in [Threads -> Seq(SUBSET Sigs)] /\ owed' \in [Threads -> Seq(SUBSET Sigs)]
      /\ kept' \in [Threads -> BOOLEAN]
      /\ MasksOf(t)'
      /\ IF Taken(t) = {} THEN pc'[t] = "suspend_enter" /\ blocked'[t] = blocked[t]
         ELSE pc'[t] \in {"user", "trap", "exit"}
  BY Zenon, <1>1, <1>2, <1>4, Checked
<1>6. /\ pending' \in [Targets -> SUBSET Sigs]
      /\ \A x \in Targets : pending'[x] \subseteq pending[x]
      /\ Taken(t) = {} => (pending'[t] \cup pending'[Process]) \cap (Sigs \ blocked[t]) = {}
  BY Zenon, <1>1, Dequeued DEF SigInv
<1>7. OnlyOf(t)
  BY Zenon, <1>1, <1>4, <1>5, <1>6 DEF OnlyOf, Targets
<1>8. SigTypes'
  BY Zenon, <1>1, <1>4, <1>5, <1>6 DEF SigInv, SigTypes
<1>9. ~Asleep(t)' /\ Heard(t)'
  <2>1. CASE Taken(t) = {}
    <3>1. pc'[t] = "suspend_enter" /\ blocked'[t] = blocked[t]
      BY Zenon, <2>1, <1>5
    <3>2. Awaited(t)' = Sigs \ blocked[t]
      BY Zenon, <3>1 DEF Awaited
    <3>3. Ready(t)' = {}
      BY Zenon, <3>2, <2>1, <1>6 DEF Ready
    <3>4. ~Asleep(t)'
      BY Zenon, <3>1 DEF Asleep
    <3> QED
      BY Zenon, <3>3, <3>4 DEF Heard
  <2>2. CASE Taken(t) # {}
    <3>1. pc'[t] \in {"user", "trap", "exit"}
      BY Zenon, <2>2, <1>5
    <3> QED
      BY Zenon, <3>1, AwakeHeard
  <2> QED
    BY Zenon, <2>1, <2>2
<1> QED
  BY Zenon, <1>1, <1>2, <1>5, <1>7, <1>8, <1>9, OwnStep

LEMMA TimedCheckInv ==
  ASSUME SigInv, NEW t \in Threads, TimedCheck(t)
  PROVE  SigInv'
<1>1. /\ pc[t] = "timed" /\ excused' = [excused EXCEPT ![t] = FALSE]
      /\ blocked' = blocked /\ actions' = actions /\ frames' = frames /\ wq' = wq
      /\ arg' = arg /\ expired' = expired /\ sends' = sends
      /\ group_exited' = group_exited /\ owed' = owed /\ kept' = kept
  BY Zenon DEF TimedCheck
<1>2. /\ pending \in [Targets -> SUBSET Sigs] /\ pc \in [Threads -> PCs]
      /\ excused \in [Threads -> BOOLEAN]
  BY Zenon DEF SigInv, SigTypes
<1>3. /\ pending' \in [Targets -> SUBSET Sigs]
      /\ \A x \in Targets : pending'[x] \subseteq pending[x]
      /\ \/ pc' = [pc EXCEPT ![t] = "trap"]
         \/ pc' = [pc EXCEPT ![t] = "timed_enter"] /\ Ready(t) = {} /\ pending' = pending
  <2>1. CASE Ready(t) # {}
    <3> DEFINE x == IF pending[t] \cap Awaited(t) # {} THEN t ELSE Process
               s == Lowest(pending[x] \cap Awaited(t))
    <3>1. x \in Targets
      BY Zenon DEF Targets
    <3>2. pending' = [pending EXCEPT ![x] = pending[x] \ {s}] /\ pc' = [pc EXCEPT ![t] = "trap"]
      BY Zenon, <2>1 DEF TimedCheck, Goto
    <3> HIDE DEF x, s
    <3> QED
      BY Zenon, <1>2, <3>1, <3>2
  <2>2. CASE Ready(t) = {}
    <3>1. /\ pc' = [pc EXCEPT ![t] = IF expired[t] THEN "trap" ELSE "timed_enter"]
          /\ pending' = pending
      BY Zenon, <2>2 DEF TimedCheck, Goto
    <3> QED
      BY Zenon, <3>1, <2>2, <1>2
  <2> QED
    BY Zenon, <2>1, <2>2
<1>4. "trap" \in PCs /\ "timed_enter" \in PCs
  BY Zenon DEF PCs, Waits
<1>5. /\ \A u \in Threads \ {t} : pc'[u] = pc[u] /\ excused'[u] = excused[u]
      /\ pc' \in [Threads -> PCs] /\ excused' \in [Threads -> BOOLEAN]
      /\ \/ pc'[t] = "trap"
         \/ pc'[t] = "timed_enter" /\ Ready(t) = {} /\ pending' = pending
  BY Zenon, <1>1, <1>2, <1>3, <1>4
<1>6. SigTypes'
  BY Zenon, <1>1, <1>3, <1>5 DEF SigInv, SigTypes
<1>7. OnlyOf(t)
  BY Zenon, <1>1, <1>3, <1>5 DEF OnlyOf, Targets
<1>8. pc[t] \notin Suspended /\ pc'[t] \notin Suspended /\ pc[t] # "dead" /\ ~Asleep(t)
  BY Zenon, <1>1, <1>5 DEF Suspended, Asleep
<1>9. MasksOf(t)'
  BY Zenon, <1>1, <1>8, MasksRest DEF SigInv
<1>10. ~Asleep(t)' /\ Heard(t)'
  <2>1. CASE pc'[t] = "trap"
    BY Zenon, <2>1, AwakeHeard
  <2>2. CASE pc'[t] = "timed_enter" /\ Ready(t) = {} /\ pending' = pending
    <3>1. Awaited(t)' = Awaited(t) /\ ~Asleep(t)'
      BY Zenon, <2>2, <1>1 DEF Awaited, Asleep
    <3>2. Ready(t)' = {}
      BY Zenon, <3>1, <2>2 DEF Ready
    <3> QED
      BY Zenon, <3>1, <3>2 DEF Heard
  <2> QED
    BY Zenon, <1>5, <2>1, <2>2
<1> QED
  BY Zenon, <1>1, <1>6, <1>7, <1>8, <1>9, <1>10, OwnStep

-----------------------------------------------------------------------------
(* A thread that goes to sleep is the last of the queue.                   *)
LEMMA SleepInv ==
  ASSUME SigInv, NEW t \in Threads, NEW l, Sleep(t, l),
         \/ pc[t] = "suspend_enter" /\ l = "asleep"
         \/ pc[t] = "timed_enter" /\ l = "timed_asleep"
  PROVE  SigInv'
<1> DEFINE n == Len(wq)
<1>1. /\ wq' = Append(wq, t) /\ pc' = [pc EXCEPT ![t] = l]
      /\ pending' = pending /\ blocked' = blocked /\ actions' = actions /\ frames' = frames
      /\ arg' = arg /\ expired' = expired /\ sends' = sends
      /\ group_exited' = group_exited /\ owed' = owed /\ kept' = kept /\ excused' = excused
  BY Zenon DEF Sleep, Goto, sigVars, ghosts
<1>2. wq \in Seq(Threads) /\ pc \in [Threads -> PCs] /\ Queued /\ n \in Nat
  BY DEF SigInv, SigTypes
<1>3. /\ wq' \in Seq(Threads) /\ Len(wq') = n + 1 /\ wq'[n + 1] = t
      /\ \A i \in 1..n : wq'[i] = wq[i]
  BY <1>1, <1>2
<1>4. l \in PCs /\ ~Asleep(t) /\ pc[t] # "dead" /\ pc[t] \in Entering
  BY Zenon DEF PCs, Suspended, Waits, Asleep, Entering
<1>5. pc'[t] = l /\ pc' \in [Threads -> PCs] /\ \A u \in Threads \ {t} : pc'[u] = pc[u]
  BY Zenon, <1>1, <1>2, <1>4
<1>6. SigTypes'
  BY Zenon, <1>1, <1>3, <1>5 DEF SigInv, SigTypes
<1>7. OnlyOf(t)
  BY Zenon, <1>1, <1>5 DEF OnlyOf
<1>8. Asleep(t)' /\ (pc[t] \in Waits <=> pc'[t] \in Waits)
  BY Zenon, <1>5 DEF Asleep, Waits
<1> HIDE DEF n
<1>9. n + 1 \in 1..(n + 1) /\ 1..n \subseteq 1..(n + 1) /\ \A i \in 1..(n + 1) : i \in 1..n \/ i = n + 1
  BY <1>2
<1>10. \A i \in 1..n : wq[i] # t
  BY Zenon, <1>2, <1>4 DEF Queued, n
<1>11. Queued'
  <2>1. ASSUME NEW i \in 1..(n + 1), NEW j \in 1..(n + 1), wq'[i] = wq'[j] PROVE i = j
    <3>1. \A a, b \in 1..n : wq[a] = wq[b] => a = b
      BY Zenon, <1>2 DEF Queued, n
    <3>2. CASE i \in 1..n /\ j \in 1..n
      BY Zenon, <3>1, <3>2, <2>1, <1>3
    <3>3. CASE i = n + 1 \/ j = n + 1
      BY Zenon, <3>3, <2>1, <1>3, <1>9, <1>10
    <3> QED
      BY Zenon, <3>2, <3>3, <1>9
  <2>2. ASSUME NEW u \in Threads PROVE Asleep(u)' <=> \E i \in 1..(n + 1) : wq'[i] = u
    <3>1. CASE u = t
      BY Zenon, <3>1, <1>8, <1>9, <1>3
    <3>2. CASE u # t
      <4>1. Asleep(u)' <=> Asleep(u)
        BY Zenon, <3>2, <1>7, OthersRest
      <4>2. Asleep(u) <=> \E i \in 1..n : wq[i] = u
        BY Zenon, <1>2 DEF Queued, n
      <4> QED
        BY Zenon, <4>1, <4>2, <3>2, <1>3, <1>9
    <3> QED
      BY Zenon, <3>1, <3>2
  <2> QED
    BY Zenon, <2>1, <2>2, <1>3 DEF Queued
<1>12. MasksOf(t)'
  <2>1. \/ pc[t] \notin Suspended /\ pc'[t] \notin Suspended /\ pc[t] # "dead"
        \/ pc[t] \in Suspended /\ pc'[t] \in Suspended
    BY Zenon, <1>5 DEF Suspended
  <2> QED
    BY Zenon, <2>1, <1>1, MasksRest DEF SigInv
<1>13. Heard(t)'
  BY Zenon, <1>1, <1>4, <1>8, HeardRest DEF SigInv
<1>14. \A u \in Threads : MasksOf(u)' /\ Heard(u)'
  BY Zenon, <1>7, <1>12, <1>13, OthersRest
<1> QED
  BY Zenon, <1>6, <1>11, <1>14 DEF SigInv

(* A thread that the timer wakes leaves the queue.                         *)
LEMMA TimerWakeInv ==
  ASSUME SigInv, NEW t \in Threads, TimerWake(t)
  PROVE  SigInv'
<1> DEFINE n == Len(wq)
           skip(j, k) == IF j < k THEN j ELSE j + 1
<1>1. /\ pc[t] = "timed_asleep" /\ pc' = [pc EXCEPT ![t] = "timed"]
      /\ pending' = pending /\ blocked' = blocked /\ actions' = actions /\ frames' = frames
      /\ arg' = arg /\ expired' = expired /\ sends' = sends
      /\ group_exited' = group_exited /\ owed' = owed /\ kept' = kept /\ excused' = excused
  BY Zenon DEF TimerWake, Goto, sigVars, ghosts
<1>2. wq \in Seq(Threads) /\ pc \in [Threads -> PCs] /\ Queued /\ n \in Nat
  BY DEF SigInv, SigTypes
<1>k. PICK k \in 1..n : wq[k] = t /\ wq' = RemoveAt(k)
  BY Zenon DEF TimerWake
<1>3. /\ wq' \in Seq(Threads) /\ Len(wq') = n - 1
      /\ \A j \in 1..(n - 1) : wq'[j] = wq[skip(j, k)]
  BY <1>k, <1>2 DEF RemoveAt
<1>4. /\ \A j \in 1..(n - 1) : skip(j, k) \in 1..n /\ skip(j, k) # k
      /\ \A i, j \in 1..(n - 1) : skip(i, k) = skip(j, k) => i = j
      /\ \A i \in 1..n : i # k => \E j \in 1..(n - 1) : i = skip(j, k)
  <2>1. ASSUME NEW i \in 1..n, i # k PROVE \E j \in 1..(n - 1) : i = skip(j, k)
    <3>1. CASE i < k
      BY <3>1, <1>2
    <3>2. CASE ~(i < k)
      <4>1. i - 1 \in 1..(n - 1) /\ i = skip(i - 1, k)
        BY <3>2, <2>1, <1>2
      <4> QED
        BY Zenon, <4>1
    <3> QED
      BY Zenon, <3>1, <3>2
  <2> QED
    BY <2>1, <1>2
<1>5. "timed" \in PCs /\ Asleep(t)
  BY Zenon, <1>1 DEF PCs, Waits, Asleep
<1>6. pc'[t] = "timed" /\ pc' \in [Threads -> PCs] /\ \A u \in Threads \ {t} : pc'[u] = pc[u]
  BY Zenon, <1>1, <1>2, <1>5
<1>7. SigTypes'
  BY Zenon, <1>1, <1>3, <1>6 DEF SigInv, SigTypes
<1>8. OnlyOf(t)
  BY Zenon, <1>1, <1>6 DEF OnlyOf
<1>9. ~Asleep(t)' /\ Heard(t)'
  BY Zenon, <1>6, AwakeHeard
<1> HIDE DEF n, skip
<1>10. /\ \A a, b \in 1..n : wq[a] = wq[b] => a = b
       /\ \A u \in Threads : Asleep(u) <=> \E i \in 1..n : wq[i] = u
  BY Zenon, <1>2 DEF Queued, n
<1>11. Queued'
  <2>1. ASSUME NEW i \in 1..(n - 1), NEW j \in 1..(n - 1), wq'[i] = wq'[j] PROVE i = j
    <3>1. wq[skip(i, k)] = wq[skip(j, k)] /\ skip(i, k) \in 1..n /\ skip(j, k) \in 1..n
      BY Zenon, <2>1, <1>3, <1>4
    <3>2. skip(i, k) = skip(j, k)
      BY Zenon, <3>1, <1>10
    <3> QED
      BY Zenon, <3>2, <1>4
  <2>2. ASSUME NEW u \in Threads PROVE Asleep(u)' <=> \E i \in 1..(n - 1) : wq'[i] = u
    <3>1. CASE u = t
      <4>1. ASSUME NEW j \in 1..(n - 1), wq'[j] = t PROVE FALSE
        <5>1. wq[skip(j, k)] = wq[k] /\ skip(j, k) \in 1..n
          BY Zenon, <4>1, <1>3, <1>4, <1>k
        <5>2. skip(j, k) = k
          BY Zenon, <5>1, <1>10, <1>k
        <5> QED
          BY Zenon, <5>2, <1>4
      <4> QED
        BY Zenon, <3>1, <4>1, <1>9
    <3>2. CASE u # t
      <4>1. Asleep(u)' <=> Asleep(u)
        BY Zenon, <3>2, <1>8, OthersRest
      <4>2. (\E i \in 1..n : wq[i] = u) <=> \E j \in 1..(n - 1) : wq'[j] = u
        <5>1. ASSUME NEW i \in 1..n, wq[i] = u PROVE \E j \in 1..(n - 1) : wq'[j] = u
          <6>1. PICK j \in 1..(n - 1) : i = skip(j, k)
            BY Zenon, <5>1, <3>2, <1>k, <1>4
          <6> QED
            BY Zenon, <6>1, <5>1, <1>3
        <5>2. ASSUME NEW j \in 1..(n - 1), wq'[j] = u PROVE \E i \in 1..n : wq[i] = u
          <6>1. wq[skip(j, k)] = u /\ skip(j, k) \in 1..n
            BY Zenon, <5>2, <1>3, <1>4
          <6> QED
            BY Zenon, <6>1
        <5> QED
          BY Zenon, <5>1, <5>2
      <4> QED
        BY Zenon, <4>1, <4>2, <1>10
    <3> QED
      BY Zenon, <3>1, <3>2
  <2> QED
    BY Zenon, <2>1, <2>2, <1>3 DEF Queued
<1>12. MasksOf(t)'
  <2>1. pc[t] \notin Suspended /\ pc'[t] \notin Suspended /\ pc[t] # "dead"
    BY Zenon, <1>1, <1>6 DEF Suspended
  <2> QED
    BY Zenon, <2>1, <1>1, MasksRest DEF SigInv
<1>13. \A u \in Threads : MasksOf(u)' /\ Heard(u)'
  BY Zenon, <1>8, <1>9, <1>12, OthersRest
<1> QED
  BY Zenon, <1>7, <1>11, <1>13 DEF SigInv

-----------------------------------------------------------------------------
LEMMA NextSigInv == SigInv /\ [Next]_vars => SigInv'
<1> SUFFICES ASSUME SigInv, [Next]_vars PROVE SigInv'
  OBVIOUS
<1>1. ASSUME NEW t \in Threads, Calls(t) PROVE SigInv'
  <2>1. ASSUME NEW how \in {"block", "unblock", "set"}, NEW set \in Masks, Sigprocmask(t, how, set)
        PROVE  SigInv'
    BY Zenon, <2>1, SigprocmaskInv
  <2>2. ASSUME NEW a \in Acts, Sigaction(t, a.sig, a.act) PROVE SigInv'
    BY Zenon, <2>2, SigactionInv
  <2>3. ASSUME NEW set \in Sets, NEW b \in BOOLEAN, Sigtimedwait(t, set, b) PROVE SigInv'
    BY Zenon, <2>3, SigtimedwaitInv
  <2>4. ASSUME NEW set \in Sets, Sigsuspend(t, set) PROVE SigInv'
    BY Zenon, <2>4, SigsuspendInv
  <2>5. ASSUME NEW x \in Targets, NEW s \in Sigs, Kill(t, x, s) PROVE SigInv'
    <3>1. /\ Send({x}, s) /\ sends' = sends + 1 /\ pc[t] = "user"
          /\ pc' = [Awake(1) EXCEPT ![t] = "trap"]
          /\ UNCHANGED <<blocked, actions, frames, arg, expired, group_exited, owed, kept>>
      BY Zenon, <2>5 DEF Kill
    <3> QED
      BY Zenon, <3>1, KillInv
  <2>6. CASE Sigreturn(t)
    BY Zenon, <2>6, SigreturnInv
  <2>7. CASE Trap(t)
    BY Zenon, <2>7, TrapInv
  <2> QED
    BY Zenon, <1>1, <2>1, <2>2, <2>3, <2>4, <2>5, <2>6, <2>7 DEF Calls
<1>2. ASSUME NEW t \in Threads, Steps(t) PROVE SigInv'
  <2>1. CASE SuspendSleep(t)
    BY Zenon, <2>1, SleepInv DEF SuspendSleep
  <2>2. CASE TimedSleep(t)
    BY Zenon, <2>2, SleepInv DEF TimedSleep
  <2> QED
    BY Zenon, <1>2, <2>1, <2>2, PostTrapInv, ExitInv, SuspendCheckInv, TimedCheckInv,
       TimerWakeInv DEF Steps
<1>3. ASSUME NEW t \in Threads, Expire(t) PROVE SigInv'
  BY Zenon, <1>3, ExpireInv
<1>4. ASSUME NEW x \in Targets, NEW s \in Sigs, KillByOther(x, s) PROVE SigInv'
  <2>1. /\ Send({x}, s) /\ sends' = sends + 1 /\ pc' = Awake(1)
        /\ UNCHANGED <<blocked, actions, frames, arg, expired, group_exited, owed, kept>>
    BY Zenon, <1>4 DEF KillByOther
  <2> QED
    BY Zenon, <2>1, KillInv
<1>5. CASE UNCHANGED vars
  <2>1. /\ pending' = pending /\ blocked' = blocked /\ actions' = actions /\ frames' = frames
        /\ wq' = wq /\ pc' = pc /\ arg' = arg /\ expired' = expired /\ sends' = sends
        /\ group_exited' = group_exited /\ owed' = owed /\ kept' = kept /\ excused' = excused
    BY Zenon, <1>5 DEF vars, sigVars, ghosts
  <2>2. SigTypes' /\ Queued'
    BY Zenon, <2>1 DEF SigInv, SigTypes, Queued, Asleep
  <2>3. ASSUME NEW u \in Threads PROVE MasksOf(u)' /\ Heard(u)'
    BY Zenon, <2>1, MasksRest, HeardRest DEF SigInv
  <2> QED
    BY Zenon, <2>2, <2>3 DEF SigInv
<1> QED
  BY Zenon, <1>1, <1>2, <1>3, <1>4, <1>5 DEF Next

(* The queue of axsignal holds the sleeping threads and the invariant of   *)
(* masks and wakeups holds, whatever calls and signals come.               *)
THEOREM SignalsInv == Spec => []SigInv
<1> QED
  BY PTL, InitSigInv, NextSigInv DEF Spec

(* Each return from a handler (rt_sigreturn) gives back the mask that the  *)
(* program had chosen when the signal came, also in sigsuspend: for every  *)
(* number of threads and signals and however deep handlers nest.           *)
THEOREM MasksAreRestored == Spec => []MaskRestored
<1>1. SigInv => MaskRestored
  <2> SUFFICES ASSUME SigInv, NEW t \in Threads, Alive(t), ~kept[t]
               PROVE  /\ \A i \in 1..Len(frames[t]) : frames[t][i] = owed[t][i]
                      /\ pc[t] \notin Suspended => blocked[t] = owed[t][Len(frames[t]) + 1]
    BY Zenon DEF MaskRestored, Suspended
  <2> QED
    BY Zenon DEF SigInv, MasksOf, Chosen
<1> QED
  BY PTL, <1>1, SignalsInv

(* A thread sleeps in sigsuspend or sigtimedwait over a signal it waits    *)
(* for only when the signal came while it entered the queue, or woke       *)
(* another waiter of the process instead.                                  *)
THEOREM SleepersHaveCause == Spec => []SleepsWithCause
<1>1. SigInv => SleepsWithCause
  BY Zenon DEF SigInv, Heard, SleepsWithCause
<1> QED
  BY PTL, <1>1, SignalsInv
=============================================================================
