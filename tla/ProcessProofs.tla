--------------------------- MODULE ProcessProofs ---------------------------
(***************************************************************************)
(* The process tree through forks, exits and waitpids, the end of a        *)
(* process and its group exit, for any number of tasks.                    *)
(***************************************************************************)
EXTENDS ProcessLife, WellFoundedInduction, TLAPS

Runs == [pc: PCs, snap: SUBSET Tasks, nohang: BOOLEAN, nowait: BOOLEAN,
         code: AllCodes, group: BOOLEAN, par: 0..MaxTasks, slept: SUBSET Tasks]

(* Where the thread has left its process, and where it was the last one.   *)
Ended == {"exit_process", "exit_parent", "exit_notify", "exit_again", "exit_group",
          "exit_mark", "exit_kill", "dead"}
Last == {"exit_process", "exit_parent", "exit_notify", "exit_again"}

Types ==
  /\ proc \in [Tasks -> 0..MaxTasks] /\ threads \in [Tasks -> SUBSET Tasks]
  /\ parent \in [Tasks -> 0..MaxTasks] /\ children \in [Tasks -> SUBSET Tasks]
  /\ zombie \in [Tasks -> BOOLEAN] /\ grouped \in [Tasks -> BOOLEAN]
  /\ code = [p \in Tasks |-> code[p]] /\ wq \in [Tasks -> SUBSET Tasks]
  /\ killed \in [Tasks -> BOOLEAN] /\ run \in [Tasks -> Runs] /\ reaps \in [Tasks -> Nat]

(* Every task is of a process; only the init process has no parent.        *)
Homes ==
  /\ \A t \in Tasks : proc[t] # 0 => proc[t] \in Processes
  /\ proc[Init0] = Init0 /\ \A t \in Tasks \ {Init0} : proc[t] # Init0
  /\ parent[Init0] = 0 /\ \A p \in Processes \ {Init0} : parent[p] \in Processes
  /\ \A p \in Tasks \ Processes :
       children[p] = {} /\ reaps[p] = 0 /\ ~zombie[p] /\ ~grouped[p] /\ threads[p] = {}

(* What a call has read of the tree are processes.                         *)
Refers(r) ==
  r.snap \subseteq Processes /\ (r.pc \in {"clone_build", "exit_notify"} => r.par \in Processes)
References == \A t \in Tasks : Refers(run[t])

(* A thread belongs to its process until it has ended; the last one goes   *)
(* on to end the process.                                                  *)
Members ==
  /\ \A p \in Tasks : \A t \in threads[p] : proc[t] = p
  /\ \A t \in Tasks \ {Init0} :
       proc[t] # 0 => (t \in threads[proc[t]] <=> run[t].pc \notin Ended)
  /\ \A t \in Tasks : proc[t] = 0 => run[t].pc = "none"
  /\ run[Init0].pc = "none"

LastOnes ==
  /\ \A t \in Tasks : run[t].pc \in Last => threads[proc[t]] = {}
  /\ \A t, u \in Tasks : run[t].pc \in Last /\ run[u].pc \in Last /\ proc[t] = proc[u] => t = u
  /\ \A p \in Tasks : zombie[p] =>
       threads[p] = {} /\ \A t \in Tasks : proc[t] = p => run[t].pc # "exit_process"
  /\ ~zombie[Init0]

Sleepers == \A q \in Tasks : \A u \in wq[q] : run[u].pc = "waiting" /\ proc[u] = q

Inv ==
  /\ Types /\ Homes /\ FamilyTree /\ References
  /\ Members /\ LastOnes /\ Sleepers /\ KillReaches

-----------------------------------------------------------------------------
LEMMA Least ==
  ASSUME NEW S \in SUBSET Nat, S # {}
  PROVE  \E m \in S : \A k \in S : m <= k
<1> DEFINE R == OpToRel(<, Nat)
<1>1. IsWellFoundedOn(R, Nat)
  BY Zenon, NatLessThanWellFounded
<1>2. ASSUME NEW x \in Nat, NEW y \in Nat, <<x, y>> \notin R PROVE ~ (x < y)
  BY Zenon, <1>2 DEF OpToRel
<1> HIDE DEF R
<1>3. PICK x \in S : \A y \in S : ~ (<<y, x>> \in R)
  BY Zenon, <1>1, WFMin
<1>4. ASSUME NEW y \in S PROVE x <= y
  <2>1. ~ (y < x)
    BY Zenon, <1>2, <1>3
  <2> QED  BY <2>1
<1> QED  BY Zenon, <1>4

(* A clone that is possible finds a task that is not in use.               *)
LEMMA NewTaskFree ==
  ASSUME CanClone
  PROVE  NewTask \in Tasks /\ proc[NewTask] = 0
<1> DEFINE S == {c \in Tasks : proc[c] = 0}
<1>1. S \in SUBSET Nat /\ S # {}
  BY DEF CanClone, Tasks
<1>2. \E c \in S : \A d \in S : c <= d
  BY Zenon, <1>1, Least
<1>3. \E c \in Tasks : proc[c] = 0 /\ \A d \in Tasks : proc[d] = 0 => c <= d
  BY Zenon, <1>2
<1> QED  BY Zenon, <1>3 DEF NewTask

LEMMA Numbers == Init0 \in Tasks /\ First \in Tasks /\ Init0 # First /\ 0 \notin Tasks
  BY TaskAssumption DEF Tasks, Init0, First

LEMMA IdleType ==
  /\ Idle \in Runs /\ Idle.pc = "user" /\ Idle.snap = {}
  /\ [Idle EXCEPT !.pc = "none"] \in Runs
  /\ [Idle EXCEPT !.pc = "none"].pc = "none" /\ [Idle EXCEPT !.pc = "none"].snap = {}
<1>1. 0 \in 0..MaxTasks /\ 0 \in AllCodes
  BY TaskAssumption DEF AllCodes
<1> QED  BY Zenon, <1>1 DEF Idle, Runs, PCs

LEMMA InitInv == Init => Inv
<1> SUFFICES ASSUME Init PROVE Inv
  OBVIOUS
<1> DEFINE none == [Idle EXCEPT !.pc = "none"]
<1>1. \A t \in Tasks : run[t] = IF t = First THEN Idle ELSE none
  BY Zenon DEF Init
<1>2. Idle \in Runs /\ Idle.pc = "user" /\ Idle.snap = {} /\ none \in Runs /\ none.pc = "none" /\ none.snap = {}
  BY Zenon, IdleType
<1>3. run \in [Tasks -> Runs]
  <2>1. run = [t \in Tasks |-> IF t = First THEN Idle ELSE none]
    BY Zenon DEF Init
  <2> HIDE DEF none
  <2> QED  BY Zenon, <1>2, <2>1
<1> HIDE DEF none
<1>4. Processes = {Init0, First}
  BY Zenon, Numbers DEF Init, Processes
<1>5. Types
  <2>1. Tasks \subseteq 0..MaxTasks /\ 0 \in 0..MaxTasks
    BY TaskAssumption DEF Tasks
  <2>2. proc \in [Tasks -> 0..MaxTasks]
    BY Zenon, <2>1 DEF Init
  <2>3. parent \in [Tasks -> 0..MaxTasks]
    BY Zenon, <2>1, Numbers DEF Init
  <2>4. threads \in [Tasks -> SUBSET Tasks] /\ children \in [Tasks -> SUBSET Tasks]
    BY Zenon, Numbers DEF Init
  <2> QED  BY Zenon, <1>3, <2>2, <2>3, <2>4 DEF Init, Types
<1>6. Homes
  BY Zenon, <1>4, Numbers DEF Init, Homes
<1>7. FamilyTree
  BY Zenon, <1>4, Numbers DEF Init, FamilyTree
<1>8. References
  BY Zenon, <1>1, <1>2 DEF References, Refers
<1>9. Members
  BY Zenon, <1>1, <1>2, Numbers DEF Init, Members, Ended
<1>10. LastOnes
  <2>1. \A t \in Tasks : run[t].pc \notin Last
    BY Zenon, <1>1, <1>2 DEF Last
  <2>2. \A p \in Tasks : ~zombie[p]
    BY Zenon DEF Init
  <2> QED  BY Zenon, <2>1, <2>2, Numbers DEF LastOnes, Last
<1>11. Sleepers
  BY Zenon DEF Init, Sleepers
<1>12. KillReaches
  BY Zenon DEF Init, KillReaches, Processes
<1> QED  BY Zenon, <1>5, <1>6, <1>7, <1>8, <1>9, <1>10, <1>11, <1>12 DEF Inv

-----------------------------------------------------------------------------
(* Steps that leave the tree alone *)

(* Where a call may go from where it is without entering or leaving its    *)
(* process, or becoming the one that ends it.                              *)
Keeps(l, m) ==
  /\ l \in Ended <=> m \in Ended
  /\ m # "exit_process" /\ (m \in Last => l \in Last)
  /\ l # "none" /\ m # "none"
Moves(l, m) == Keeps(l, m) /\ l # "exit_kill" /\ m # "exit_kill"

Still == UNCHANGED <<proc, threads, parent, children, reaps, zombie>>

Turns(t, r) == run' \in [Tasks -> Runs] /\ run'[t] = r /\ \A u \in Tasks \ {t} : run'[u] = run[u]

LEMMA TurnsTo ==
  ASSUME Inv, NEW t \in Tasks, NEW r \in Runs, run' = [run EXCEPT ![t] = r]
  PROVE  Turns(t, r)
  BY Zenon DEF Inv, Types, Turns

LEMMA TreeStep ==
  ASSUME Inv, Still, grouped' = grouped
  PROVE  UNCHANGED Processes /\ Homes' /\ FamilyTree'
<1>1. UNCHANGED Processes
  BY Zenon DEF Still, Processes
<1> QED  BY Zenon, <1>1 DEF Inv, Homes, FamilyTree, Still

(* Calls move on without entering or leaving their processes.              *)
Stays(u) ==
  run'[u].pc = run[u].pc \/ (u # Init0 /\ proc[u] # 0 /\ Keeps(run[u].pc, run'[u].pc))

LEMMA MembersSteps ==
  ASSUME Inv, UNCHANGED <<proc, threads, zombie>>, \A u \in Tasks : Stays(u)
  PROVE  Members' /\ LastOnes'
<1>1. \A u \in Tasks : /\ run'[u].pc \in Ended <=> run[u].pc \in Ended
                       /\ run'[u].pc \in Last => run[u].pc \in Last
                       /\ run'[u].pc = "exit_process" => run[u].pc = "exit_process"
                       /\ proc[u] = 0 \/ u = Init0 => run'[u].pc = run[u].pc
  BY Zenon DEF Stays, Keeps
<1>2. Members'
  <2>1. \A u \in Tasks \ {Init0} :
          proc'[u] # 0 => (u \in threads'[proc'[u]] <=> run'[u].pc \notin Ended)
    BY Zenon, <1>1 DEF Inv, Members
  <2>2. \A u \in Tasks : proc'[u] = 0 => run'[u].pc = "none"
    BY Zenon, <1>1 DEF Inv, Members
  <2>3. run'[Init0].pc = "none"
    BY Zenon, <1>1, Numbers DEF Inv, Members
  <2>4. \A p \in Tasks : \A u \in threads'[p] : proc'[u] = p
    BY Zenon DEF Inv, Members
  <2> QED  BY Zenon, <2>1, <2>2, <2>3, <2>4 DEF Members
<1>3. LastOnes'
  BY Zenon, <1>1 DEF Inv, LastOnes
<1> QED  BY Zenon, <1>2, <1>3

LEMMA MembersStep ==
  ASSUME Inv, NEW t \in Tasks \ {Init0}, proc[t] # 0, NEW r, Turns(t, r),
         UNCHANGED <<proc, threads, zombie>>, Keeps(run[t].pc, r.pc)
  PROVE  Members' /\ LastOnes'
<1>1. \A u \in Tasks : Stays(u)
  BY Zenon DEF Stays, Turns
<1> QED  BY Zenon, <1>1, MembersSteps

LEMMA SleepStep ==
  ASSUME Inv, NEW t \in Tasks, NEW r, Turns(t, r), run[t].pc # "waiting", UNCHANGED <<proc, wq>>
  PROVE  Sleepers'
<1>1. \A q \in Tasks : \A u \in wq[q] : run[u].pc = "waiting" /\ proc[u] = q /\ u \in Tasks \ {t}
  BY DEF Inv, Sleepers, Types
<1>2. \A u \in Tasks \ {t} : run'[u] = run[u]
  BY Zenon DEF Turns
<1> QED  BY Zenon, <1>1, <1>2 DEF Sleepers

LEMMA KillStep ==
  ASSUME Inv, UNCHANGED <<proc, threads, grouped, killed, late>>,
         \A u \in Tasks : run'[u].pc = "exit_kill" <=> run[u].pc = "exit_kill"
  PROVE  KillReaches'
<1>1. UNCHANGED Processes
  BY Zenon DEF Processes
<1> QED  BY Zenon, <1>1 DEF Inv, KillReaches

(* One step of t that changes only what t is doing.                        *)
LEMMA RunStep ==
  ASSUME Inv, NEW t \in Tasks \ {Init0}, proc[t] # 0, NEW r \in Runs,
         run' = [run EXCEPT ![t] = r], Still, UNCHANGED <<code, grouped, wq, killed, late>>,
         Refers(r), Moves(run[t].pc, r.pc), run[t].pc # "waiting"
  PROVE  Inv'
<1>1. Turns(t, r)
  BY Zenon, TurnsTo
<1>2. UNCHANGED Processes /\ Homes' /\ FamilyTree'
  BY Zenon, TreeStep
<1>3. Types'
  BY Zenon, <1>1 DEF Inv, Types, Still, Turns
<1>4. References'
  BY Zenon, <1>1, <1>2 DEF Inv, References, Refers, Turns
<1>5. Members' /\ LastOnes'
  BY Zenon, <1>1, MembersStep DEF Still, Moves
<1>6. Sleepers'
  BY Zenon, <1>1, SleepStep DEF Still
<1>7. KillReaches'
  <2>1. \A u \in Tasks : run'[u].pc = "exit_kill" <=> run[u].pc = "exit_kill"
    BY Zenon, <1>1 DEF Moves, Turns
  <2> QED  BY Zenon, <2>1, KillStep DEF Still
<1> QED  BY Zenon, <1>2, <1>3, <1>4, <1>5, <1>6, <1>7 DEF Inv

(* Calls that only read the tree and the states of processes.              *)
LEMMA ReadSteps ==
  ASSUME Inv, NEW t \in Tasks \ {Init0}, proc[t] # 0,
         \/ CloneParentGet(t) \/ WaitNone(t) \/ Die(t) \/ ExitParent(t) \/ ExitGroup(t)
         \/ \E S \in SUBSET children[proc[t]], nohang, nowait \in BOOLEAN :
              Waitpid(t, S, nohang, nowait)
         \/ \E n \in Codes, group \in BOOLEAN : Exit(t, n, group)
  PROVE  Inv'
<1>1. run[t] \in Runs /\ Refers(run[t]) /\ Idle \in Runs
  BY Zenon, IdleType DEF Inv, Types, References
<1>2. proc[t] \in Processes \ {Init0} /\ parent[proc[t]] \in Processes /\ Processes \subseteq Tasks
  BY Zenon DEF Inv, Homes, Processes
<1>3. Tasks \subseteq 0..MaxTasks
  BY DEF Tasks
<1>4. ASSUME NEW r \in Runs, run' = [run EXCEPT ![t] = r], UNCHANGED <<tree, status, wq, killed>>,
             Refers(r), Moves(run[t].pc, r.pc), run[t].pc # "waiting"
      PROVE  Inv'
  <2>1. Still /\ UNCHANGED <<code, grouped, wq, killed, late>>
    BY Zenon, <1>4 DEF Still, tree, status
  <2> QED  BY Zenon, <1>4, <2>1, RunStep
<1>5. CASE CloneParentGet(t)
  <2> DEFINE q == parent[proc[t]]
             r == [Idle EXCEPT !.pc = "clone_build", !.par = q]
  <2>1. r \in Runs /\ r.pc = "clone_build" /\ r.par = q /\ r.snap = {}
    <3>1. q \in 0..MaxTasks
      BY Zenon, <1>2, <1>3
    <3> HIDE DEF q
    <3> QED  BY Zenon, <3>1, IdleType DEF Runs, PCs
  <2>2. Refers(r) /\ Moves("user", r.pc)
    BY Zenon, <1>2, <2>1 DEF Refers, Moves, Keeps, Ended, Last
  <2> HIDE DEF r
  <2> QED  BY Zenon, <1>4, <1>5, <2>1, <2>2 DEF CloneParentGet, r
<1>6. CASE WaitNone(t)
  <2> DEFINE r == [run[t] EXCEPT !.pc = "wait_block"]
  <2>1. r \in Runs /\ r.pc = "wait_block" /\ r.snap = run[t].snap
    BY Zenon, <1>1 DEF Runs, PCs
  <2>2. Refers(r) /\ Moves("wait_look", r.pc) /\ Refers(Idle) /\ Moves("wait_look", "user")
    BY Zenon, <1>1, <2>1, IdleType DEF Refers, Moves, Keeps, Ended, Last
  <2>3. run' = [run EXCEPT ![t] = r] \/ run' = [run EXCEPT ![t] = Idle]
    BY Zenon, <1>6 DEF WaitNone
  <2> HIDE DEF r
  <2> QED  BY Zenon, <1>1, <1>4, <1>6, <2>1, <2>2, <2>3, IdleType DEF WaitNone
<1>7. CASE Die(t)
  <2> DEFINE r == [Idle EXCEPT !.pc = "exit_thread", !.code = KillCode, !.group = TRUE]
  <2>1. r \in Runs /\ r.pc = "exit_thread" /\ r.snap = {}
    BY Zenon, IdleType DEF Runs, PCs, AllCodes
  <2>2. Refers(r) /\ Moves("user", r.pc)
    BY Zenon, <2>1 DEF Refers, Moves, Keeps, Ended, Last
  <2> HIDE DEF r
  <2> QED  BY Zenon, <1>4, <1>7, <2>1, <2>2 DEF Die, r
<1>8. CASE ExitParent(t)
  <2> DEFINE q == parent[proc[t]]
             r == [run[t] EXCEPT !.pc = "exit_notify", !.par = q]
  <2>1. r \in Runs /\ r.pc = "exit_notify" /\ r.par = q /\ r.snap = run[t].snap
    <3>1. q \in 0..MaxTasks
      BY Zenon, <1>2, <1>3
    <3> HIDE DEF q
    <3> QED  BY Zenon, <1>1, <3>1 DEF Runs, PCs
  <2>2. Refers(r) /\ Moves("exit_parent", r.pc)
    BY Zenon, <1>1, <1>2, <2>1 DEF Refers, Moves, Keeps, Ended, Last
  <2>3. run' = [run EXCEPT ![t] = r]
    BY Zenon, <1>8 DEF ExitParent, Inv, Types
  <2> HIDE DEF r
  <2> QED  BY Zenon, <1>4, <1>8, <2>1, <2>2, <2>3 DEF ExitParent
<1>9. CASE ExitGroup(t)
  <2>1. PICK l \in {"exit_mark", "dead"} : Goto(t, l)
    BY Zenon, <1>9 DEF ExitGroup
  <2> DEFINE r == [run[t] EXCEPT !.pc = l]
  <2>2. r \in Runs /\ r.pc = l /\ r.snap = run[t].snap
    BY Zenon, <1>1, <2>1 DEF Runs, PCs
  <2>3. Refers(r) /\ Moves("exit_group", r.pc)
    BY Zenon, <1>1, <2>1, <2>2 DEF Refers, Moves, Keeps, Ended, Last
  <2>4. run' = [run EXCEPT ![t] = r]
    BY Zenon, <2>1 DEF Goto
  <2> HIDE DEF r
  <2> QED  BY Zenon, <1>4, <1>9, <2>2, <2>3, <2>4 DEF ExitGroup
<1>10. ASSUME NEW S \in SUBSET children[proc[t]], NEW nohang \in BOOLEAN, NEW nowait \in BOOLEAN,
              Waitpid(t, S, nohang, nowait)
       PROVE  Inv'
  <2> DEFINE r == [Idle EXCEPT !.pc = "wait_look", !.snap = S, !.nohang = nohang, !.nowait = nowait]
  <2>1. S \subseteq Processes /\ S \subseteq Tasks
    BY Zenon, <1>2 DEF Inv, FamilyTree
  <2>2. r \in Runs /\ r.pc = "wait_look" /\ r.snap = S
    BY Zenon, <2>1, IdleType DEF Runs, PCs
  <2>3. Refers(r) /\ Moves("user", r.pc)
    BY Zenon, <2>1, <2>2 DEF Refers, Moves, Keeps, Ended, Last
  <2> HIDE DEF r
  <2> QED  BY Zenon, <1>4, <1>10, <2>2, <2>3 DEF Waitpid, r
<1>11. ASSUME NEW n \in Codes, NEW group \in BOOLEAN, Exit(t, n, group)
       PROVE  Inv'
  <2> DEFINE r == [Idle EXCEPT !.pc = "exit_thread", !.code = n, !.group = group]
  <2>1. r \in Runs /\ r.pc = "exit_thread" /\ r.snap = {}
    BY Zenon, IdleType DEF Runs, PCs, AllCodes
  <2>2. Refers(r) /\ Moves("user", r.pc)
    BY Zenon, <2>1 DEF Refers, Moves, Keeps, Ended, Last
  <2> HIDE DEF r
  <2> QED  BY Zenon, <1>4, <1>11, <2>1, <2>2 DEF Exit, r
<1> QED  BY Zenon, <1>5, <1>6, <1>7, <1>8, <1>9, <1>10, <1>11

-----------------------------------------------------------------------------
LEMMA WaitBlockInv ==
  ASSUME Inv, NEW t \in Tasks \ {Init0}, proc[t] # 0, WaitBlock(t)
  PROVE  Inv'
<1> DEFINE S == {c \in run[t].snap : ~zombie[c]}
           r == [run[t] EXCEPT !.pc = "waiting", !.slept = S]
<1>1. run[t] \in Runs /\ Refers(run[t]) /\ run[t].pc = "wait_block"
  BY Zenon DEF Inv, Types, References, WaitBlock
<1>2. r \in Runs /\ r.pc = "waiting" /\ r.snap = run[t].snap
  <2>1. S \in SUBSET Tasks
    BY Zenon, <1>1 DEF Runs
  <2> HIDE DEF S
  <2> QED  BY Zenon, <1>1, <2>1 DEF Runs, PCs
<1>3. Refers(r) /\ Moves(run[t].pc, r.pc)
  BY Zenon, <1>1, <1>2 DEF Refers, Moves, Keeps, Ended, Last
<1>4. run' = [run EXCEPT ![t] = r]
  BY Zenon DEF WaitBlock
<1> HIDE DEF r
<1>5. Turns(t, r)
  BY Zenon, <1>2, <1>4, TurnsTo
<1>6. /\ Still /\ UNCHANGED <<code, grouped, killed, late>>
      /\ wq' = [wq EXCEPT ![proc[t]] = @ \cup {t}]
  BY Zenon DEF WaitBlock, Still, tree, status
<1>7. UNCHANGED Processes /\ Homes' /\ FamilyTree'
  BY Zenon, <1>6, TreeStep
<1>8. proc[t] \in Tasks /\ wq' \in [Tasks -> SUBSET Tasks]
  BY <1>6 DEF Inv, Types, Homes, Processes
<1>9. Types'
  BY Zenon, <1>5, <1>6, <1>8 DEF Inv, Types, Still, Turns
<1>10. References'
  BY Zenon, <1>3, <1>5, <1>7 DEF Inv, References, Refers, Turns
<1>11. Members' /\ LastOnes'
  BY Zenon, <1>3, <1>5, <1>6, MembersStep DEF Still, Moves
<1>12. Sleepers'
  <2>1. \A q \in Tasks : wq'[q] \subseteq wq[q] \cup {u \in {t} : proc[u] = q}
    BY <1>6, <1>8 DEF Inv, Types
  <2>2. \A q \in Tasks : \A u \in wq[q] : run[u].pc = "waiting" /\ proc[u] = q /\ u \in Tasks \ {t}
    BY Zenon, <1>1 DEF Inv, Sleepers, Types
  <2>3. \A u \in Tasks \ {t} : run'[u] = run[u]
    BY Zenon, <1>5 DEF Turns
  <2>4. run'[t].pc = "waiting"
    BY Zenon, <1>2, <1>5 DEF Turns
  <2> QED  BY <1>6, <2>1, <2>2, <2>3, <2>4 DEF Sleepers, Still
<1>13. KillReaches'
  <2>1. \A u \in Tasks : run'[u].pc = "exit_kill" <=> run[u].pc = "exit_kill"
    BY Zenon, <1>3, <1>5 DEF Moves, Turns
  <2> QED  BY Zenon, <1>6, <2>1, KillStep DEF Still
<1> QED  BY Zenon, <1>7, <1>9, <1>10, <1>11, <1>12, <1>13 DEF Inv

(* The mark and the signals of a group exit.                               *)
LEMMA ExitMarkInv ==
  ASSUME Inv, NEW t \in Tasks \ {Init0}, proc[t] # 0, ExitMark(t)
  PROVE  Inv'
<1> DEFINE p == proc[t]
           r == [run[t] EXCEPT !.pc = "exit_kill"]
<1>1. run[t] \in Runs /\ Refers(run[t]) /\ run[t].pc = "exit_mark"
  BY Zenon DEF Inv, Types, References, ExitMark
<1>2. r \in Runs /\ r.pc = "exit_kill" /\ r.snap = run[t].snap
  BY Zenon, <1>1 DEF Runs, PCs
<1>3. Refers(r) /\ Keeps(run[t].pc, r.pc)
  BY Zenon, <1>1, <1>2 DEF Refers, Keeps, Ended, Last
<1>4. run' = [run EXCEPT ![t] = r]
  BY Zenon DEF ExitMark, Goto
<1> HIDE DEF r
<1>5. Turns(t, r)
  BY Zenon, <1>2, <1>4, TurnsTo
<1>6. Still /\ UNCHANGED <<code, wq, killed, late>> /\ grouped' = [grouped EXCEPT ![p] = TRUE]
  BY Zenon DEF ExitMark, Still, tree
<1>7. UNCHANGED Processes /\ p \in Processes
  BY Zenon, <1>6 DEF Processes, Still, Inv, Homes
<1>8. Homes' /\ FamilyTree'
  <2>1. \A q \in Tasks \ Processes : grouped'[q] = grouped[q]
    BY Zenon, <1>6, <1>7 DEF Inv, Types
  <2>2. Homes'
    BY Zenon, <1>6, <1>7, <2>1 DEF Inv, Homes, Still
  <2>3. FamilyTree'
    BY Zenon, <1>6, <1>7 DEF Inv, FamilyTree, Still
  <2> QED  BY Zenon, <2>2, <2>3
<1>9. Types'
  BY Zenon, <1>5, <1>6 DEF Inv, Types, Still, Turns
<1>10. References'
  BY <1>3, <1>5, <1>7 DEF Inv, References, Refers, Turns
<1>11. Members' /\ LastOnes'
  BY Zenon, <1>3, <1>5, <1>6, MembersStep DEF Still
<1>12. Sleepers'
  BY Zenon, <1>1, <1>5, <1>6, SleepStep DEF Still
<1>13. KillReaches'
  <2> SUFFICES ASSUME NEW q \in Processes, grouped'[q],
                      \A u \in Tasks : proc[u] = q => run'[u].pc # "exit_kill",
                      NEW u \in threads[q]
               PROVE  killed[u] \/ u \in late
    BY Zenon, <1>6, <1>7 DEF KillReaches, Still
  <2>1. q # p
    BY Zenon, <1>2, <1>5 DEF Turns
  <2>2. grouped[q] /\ q \in Tasks
    BY Zenon, <1>6, <2>1 DEF Inv, Types, Processes
  <2>3. \A v \in Tasks : proc[v] = q => run[v].pc # "exit_kill"
    BY Zenon, <1>1, <1>5 DEF Turns
  <2> QED  BY Zenon, <2>2, <2>3 DEF Inv, KillReaches
<1> QED  BY Zenon, <1>7, <1>8, <1>9, <1>10, <1>11, <1>12, <1>13 DEF Inv

LEMMA ExitKillInv ==
  ASSUME Inv, NEW t \in Tasks \ {Init0}, proc[t] # 0, ExitKill(t)
  PROVE  Inv'
<1> DEFINE p == proc[t]
           r == [run[t] EXCEPT !.pc = "dead"]
<1>1. run[t] \in Runs /\ Refers(run[t]) /\ run[t].pc = "exit_kill"
  BY Zenon DEF Inv, Types, References, ExitKill
<1>2. r \in Runs /\ r.pc = "dead" /\ r.snap = run[t].snap
  BY Zenon, <1>1 DEF Runs, PCs
<1>3. Refers(r) /\ Keeps(run[t].pc, r.pc)
  BY Zenon, <1>1, <1>2 DEF Refers, Keeps, Ended, Last
<1>4. run' = [run EXCEPT ![t] = r]
  BY Zenon DEF ExitKill, Goto
<1> HIDE DEF r
<1>5. Turns(t, r)
  BY Zenon, <1>2, <1>4, TurnsTo
<1>6. /\ Still /\ UNCHANGED <<code, wq, grouped, late>>
      /\ killed' = [u \in Tasks |-> killed[u] \/ u \in threads[p]]
  BY Zenon DEF ExitKill, Still, tree, status
<1>7. UNCHANGED Processes /\ Homes' /\ FamilyTree'
  BY Zenon, <1>6, TreeStep
<1>8. killed' \in [Tasks -> BOOLEAN]
  BY Zenon, <1>6
<1>9. Types'
  BY Zenon, <1>5, <1>6, <1>8 DEF Inv, Types, Still, Turns
<1>10. References'
  BY Zenon, <1>3, <1>5, <1>7 DEF Inv, References, Refers, Turns
<1>11. Members' /\ LastOnes'
  BY Zenon, <1>3, <1>5, <1>6, MembersStep DEF Still
<1>12. Sleepers'
  BY Zenon, <1>1, <1>5, <1>6, SleepStep DEF Still
<1>13. KillReaches'
  <2> SUFFICES ASSUME NEW q \in Processes, grouped[q],
                      \A u \in Tasks : proc[u] = q => run'[u].pc # "exit_kill",
                      NEW u \in threads[q]
               PROVE  killed'[u] \/ u \in late
    BY Zenon, <1>6, <1>7 DEF KillReaches, Still
  <2>1. u \in Tasks /\ q \in Tasks
    BY Zenon DEF Inv, Types, Processes
  <2>2. CASE q = p
    BY Zenon, <1>6, <2>1, <2>2
  <2>3. CASE q # p
    <3>1. \A v \in Tasks : proc[v] = q => run[v].pc # "exit_kill"
      BY Zenon, <1>5, <2>3 DEF Turns
    <3>2. killed[u] \/ u \in late
      BY Zenon, <3>1 DEF Inv, KillReaches
    <3> QED  BY Zenon, <1>6, <2>1, <3>2
  <2> QED  BY Zenon, <2>2, <2>3
<1> QED  BY Zenon, <1>7, <1>9, <1>10, <1>11, <1>12, <1>13 DEF Inv

-----------------------------------------------------------------------------
(* Steps that change the tree *)

(* waitpid frees a zombie.                                                 *)
LEMMA WaitReapInv ==
  ASSUME Inv, NEW t \in Tasks \ {Init0}, proc[t] # 0, NEW c \in Tasks, WaitReap(t, c)
  PROVE  Inv'
<1>1. /\ run[t].pc = "wait_look" /\ c \in run[t].snap /\ zombie[c] /\ run' = [run EXCEPT ![t] = Idle]
      /\ UNCHANGED <<proc, threads, parent, zombie, code, grouped, wq, killed, late>>
  BY Zenon DEF WaitReap, status
<1>2. /\ Refers(Idle) /\ Moves(run[t].pc, "user") /\ Idle \in Runs /\ Idle.pc = "user"
  BY Zenon, <1>1, IdleType DEF Refers, Moves, Keeps, Ended, Last
<1>3. CASE run[t].nowait
  <2>1. Still
    BY Zenon, <1>1, <1>3 DEF WaitReap, Still
  <2> QED  BY Zenon, <1>1, <1>2, <2>1, RunStep
<1>4. CASE ~run[t].nowait
  <2> DEFINE q == parent[c]
  <2>1. /\ children' = [children EXCEPT ![q] = @ \ {c}]
        /\ reaps' = [reaps EXCEPT ![c] = @ + 1]
    BY Zenon, <1>4 DEF WaitReap
  <2>2. c \in Processes /\ c # Init0 /\ q \in Processes /\ q \in Tasks
    BY <1>1 DEF Inv, References, Refers, LastOnes, Homes, Processes
  <2> HIDE DEF q
  <2>3. Turns(t, Idle)
    BY Zenon, <1>1, <1>2, TurnsTo
  <2>4. UNCHANGED Processes
    BY Zenon, <1>1 DEF Processes
  <2>5. children' \in [Tasks -> SUBSET Tasks] /\ reaps' \in [Tasks -> Nat]
    BY <2>1, <2>2 DEF Inv, Types
  <2>6. Types'
    BY Zenon, <1>1, <2>3, <2>5 DEF Inv, Types, Turns
  <2>7. Homes'
    <3>1. \A p \in Tasks \ Processes : children'[p] = children[p] /\ reaps'[p] = reaps[p]
      BY Zenon, <2>1, <2>2 DEF Inv, Types
    <3> QED  BY Zenon, <1>1, <2>4, <3>1 DEF Inv, Homes
  <2>8. FamilyTree'
    <3>1. ASSUME NEW p \in Processes
          PROVE  children'[p] = {d \in Processes : parent[d] = p /\ reaps'[d] = 0}
      <4>1. children[p] = {d \in Processes : parent[d] = p /\ reaps[d] = 0} /\ p \in Tasks
        BY Zenon DEF Inv, FamilyTree, Processes
      <4>2. \A d \in Processes : reaps'[d] = 0 <=> reaps[d] = 0 /\ d # c
        BY <2>1 DEF Inv, Types, Processes
      <4>3. children'[p] = IF p = q THEN children[p] \ {c} ELSE children[p]
        BY Zenon, <2>1, <4>1 DEF Inv, Types
      <4> QED  BY <4>1, <4>2, <4>3 DEF q
    <3> QED  BY Zenon, <1>1, <2>4, <3>1 DEF FamilyTree
  <2>9. References'
    BY Zenon, <1>2, <2>3, <2>4 DEF Inv, References, Refers, Turns
  <2>10. Members' /\ LastOnes'
    BY Zenon, <1>1, <1>2, <2>3, MembersStep DEF Moves
  <2>11. Sleepers'
    BY Zenon, <1>1, <2>3, SleepStep
  <2>12. KillReaches'
    <3>1. \A u \in Tasks : run'[u].pc = "exit_kill" <=> run[u].pc = "exit_kill"
      BY Zenon, <1>1, <1>2, <2>3 DEF Turns
    <3> QED  BY Zenon, <1>1, <3>1, KillStep
  <2> QED  BY Zenon, <2>6, <2>7, <2>8, <2>9, <2>10, <2>11, <2>12 DEF Inv
<1> QED  BY Zenon, <1>3, <1>4

(* All that wait in the queue of the parent look again.                    *)
LEMMA ExitNotifyInv ==
  ASSUME Inv, NEW t \in Tasks \ {Init0}, proc[t] # 0, ExitNotify(t)
  PROVE  Inv'
<1> DEFINE q == run[t].par
           l(u) == IF u \in wq[q] THEN "wait_look" ELSE IF u = t THEN "exit_again" ELSE run[u].pc
<1>1. run[t].pc = "exit_notify" /\ q \in Processes /\ q \in Tasks
  BY Zenon DEF ExitNotify, Inv, References, Refers, Processes
<1>2. /\ Still /\ UNCHANGED <<code, grouped, killed, late>> /\ wq' = [wq EXCEPT ![q] = {}]
      /\ run' = [u \in Tasks |->
           IF u \in wq[q] THEN [run[u] EXCEPT !.pc = "wait_look"]
           ELSE IF u = t THEN [run[u] EXCEPT !.pc = "exit_again"] ELSE run[u]]
  BY Zenon DEF ExitNotify, Still, tree, status
<1>3. UNCHANGED Processes /\ Homes' /\ FamilyTree'
  BY Zenon, <1>2, TreeStep
<1>4. ASSUME NEW u \in Tasks
      PROVE  run'[u] \in Runs /\ run'[u].snap = run[u].snap /\ run'[u].pc = l(u)
  <2>1. run[u] \in Runs
    BY Zenon DEF Inv, Types
  <2> DEFINE a == [run[u] EXCEPT !.pc = "wait_look"]
             b == [run[u] EXCEPT !.pc = "exit_again"]
  <2>2. /\ a \in Runs /\ a.snap = run[u].snap /\ a.pc = "wait_look"
        /\ b \in Runs /\ b.snap = run[u].snap /\ b.pc = "exit_again"
    BY Zenon, <2>1 DEF Runs, PCs
  <2>3. run'[u] = IF u \in wq[q] THEN a ELSE IF u = t THEN b ELSE run[u]
    BY Zenon, <1>2
  <2> HIDE DEF a, b
  <2> QED  BY Zenon, <2>1, <2>2, <2>3
<1>5. \A u \in wq[q] : u \in Tasks /\ run[u].pc = "waiting" /\ proc[u] = q /\ u # Init0 /\ u # t
  BY <1>1 DEF Inv, Sleepers, Types, Members
<1>6. run' \in [Tasks -> Runs] /\ wq' \in [Tasks -> SUBSET Tasks]
  <2>1. run' = [u \in Tasks |-> run'[u]]
    BY Zenon, <1>2
  <2> QED  BY Zenon, <1>1, <1>2, <1>4, <2>1 DEF Inv, Types
<1>7. Types'
  BY Zenon, <1>2, <1>6 DEF Inv, Types, Still
<1>8. \A u \in Tasks : l(u) \in {run[u].pc, "wait_look", "exit_again"}
  OBVIOUS
<1>9. References'
  <2> HIDE DEF l
  <2>1. ASSUME NEW u \in Tasks PROVE Refers(run[u])'
    <3>1. Refers(run[u])
      BY Zenon DEF Inv, References
    <3>2. run'[u].pc \in {run[u].pc, "wait_look", "exit_again"} /\ run'[u].snap = run[u].snap
      BY Zenon, <1>4, <1>8
    <3>3. run[u].pc = run'[u].pc => run'[u].par = run[u].par
      <4>1. CASE u \in wq[q] \/ u = t
        BY Zenon, <1>1, <1>4, <1>5, <4>1 DEF l
      <4>2. CASE ~(u \in wq[q] \/ u = t)
        BY Zenon, <1>2, <4>2
      <4> QED  BY Zenon, <4>1, <4>2
    <3> QED  BY Zenon, <1>3, <3>1, <3>2, <3>3 DEF Refers
  <2> QED  BY Zenon, <2>1 DEF References
<1>10. Members' /\ LastOnes'
  <2>1. ASSUME NEW u \in Tasks PROVE Stays(u)
    <3>1. CASE u \in wq[q]
      <4>1. Keeps("waiting", "wait_look")
        BY Zenon DEF Keeps, Ended, Last
      <4>2. run[u].pc = "waiting" /\ run'[u].pc = "wait_look" /\ u # Init0 /\ proc[u] # 0
        BY <1>1, <1>4, <1>5, <3>1, Numbers
      <4> QED  BY Zenon, <4>1, <4>2 DEF Stays
    <3>2. CASE u \notin wq[q] /\ u = t
      <4>1. Keeps("exit_notify", "exit_again")
        BY Zenon DEF Keeps, Ended, Last
      <4> QED  BY Zenon, <1>1, <1>4, <3>2, <4>1 DEF Stays
    <3>3. CASE u \notin wq[q] /\ u # t
      BY Zenon, <1>4, <3>3 DEF Stays
    <3> QED  BY Zenon, <3>1, <3>2, <3>3
  <2> QED  BY Zenon, <1>2, <2>1, MembersSteps DEF Still
<1>11. Sleepers'
  <2> SUFFICES ASSUME NEW p \in Tasks, NEW u \in wq'[p] PROVE run'[u].pc = "waiting" /\ proc[u] = p
    BY <1>2 DEF Sleepers, Still
  <2>1. p # q /\ u \in wq[p] /\ u \in Tasks
    BY Zenon, <1>2 DEF Inv, Types
  <2>2. run[u].pc = "waiting" /\ proc[u] = p
    BY Zenon, <2>1 DEF Inv, Sleepers
  <2>3. u \notin wq[q] /\ u # t
    BY Zenon, <1>1, <1>5, <2>1, <2>2
  <2> QED  BY Zenon, <1>4, <2>1, <2>2, <2>3
<1>12. KillReaches'
  <2>1. \A u \in Tasks : run'[u].pc = "exit_kill" <=> run[u].pc = "exit_kill"
    BY <1>1, <1>4, <1>5
  <2> QED  BY Zenon, <1>2, <2>1, KillStep DEF Still
<1> QED  BY Zenon, <1>3, <1>7, <1>9, <1>10, <1>11, <1>12 DEF Inv

(* A thread leaves its process, which may be the end of the process.       *)
LEMMA ExitThreadInv ==
  ASSUME Inv, NEW t \in Tasks \ {Init0}, proc[t] # 0, ExitThread(t)
  PROVE  Inv' /\ \A p \in Tasks : zombie[p] => code'[p] = code[p]
<1> DEFINE p == proc[t]
           l == IF threads[p] \subseteq {t} THEN "exit_process" ELSE "exit_group"
           r == [run[t] EXCEPT !.pc = l]
<1>1. /\ run[t] \in Runs /\ Refers(run[t]) /\ run[t].pc = "exit_thread" /\ p \in Processes /\ p \in Tasks
      /\ run' = [run EXCEPT ![t] = r]
  BY Zenon DEF Inv, Types, References, Homes, Processes, ExitThread, Goto
<1>2. /\ threads' = [threads EXCEPT ![p] = @ \ {t}]
      /\ code' = IF grouped[p] THEN code ELSE [code EXCEPT ![p] = run[t].code]
      /\ UNCHANGED <<proc, parent, children, zombie, grouped, wq, killed, reaps, late>>
  BY Zenon DEF ExitThread
<1>3. l \in {"exit_process", "exit_group"} /\ (l = "exit_process" => threads[p] \subseteq {t})
  OBVIOUS
<1> HIDE DEF l
<1>4. r \in Runs /\ r.pc = l /\ r.snap = run[t].snap
  BY Zenon, <1>1, <1>3 DEF Runs, PCs
<1> HIDE DEF r
<1>5. Turns(t, r) /\ Refers(r)
  BY Zenon, <1>1, <1>3, <1>4, TurnsTo DEF Refers
<1>6. t \in threads[p] /\ ~zombie[p]
  BY Zenon, <1>1 DEF Inv, Members, LastOnes, Ended
<1>7. /\ threads' \in [Tasks -> SUBSET Tasks] /\ threads'[p] = threads[p] \ {t}
      /\ \A q \in Tasks \ {p} : threads'[q] = threads[q]
  BY Zenon, <1>1, <1>2 DEF Inv, Types
<1>8. UNCHANGED Processes
  BY Zenon, <1>2 DEF Processes
<1>9. code' = [q \in Tasks |-> code'[q]] /\ \A q \in Tasks : zombie[q] => code'[q] = code[q]
  <2> DEFINE n == run[t].code
  <2> HIDE DEF n
  <2>1. code = [q \in Tasks |-> code[q]] /\ (code' = code \/ code' = [code EXCEPT ![p] = n])
    BY Zenon, <1>2 DEF Inv, Types, n
  <2> QED  BY Zenon, <1>6, <2>1
<1>10. Types'
  BY Zenon, <1>2, <1>5, <1>7, <1>9 DEF Inv, Types, Turns
<1>11. Homes'
  <2>1. \A q \in Tasks \ Processes : threads'[q] = threads[q]
    BY Zenon, <1>1, <1>7
  <2> QED  BY Zenon, <1>2, <1>8, <2>1 DEF Inv, Homes
<1>12. FamilyTree'
  BY Zenon, <1>2, <1>8 DEF Inv, FamilyTree
<1>13. References'
  BY Zenon, <1>5, <1>8 DEF Inv, References, Refers, Turns
<1>14. Members'
  <2>1. \A q \in Tasks : \A u \in threads'[q] : proc[u] = q
    BY Zenon, <1>7 DEF Inv, Members
  <2>2. ASSUME NEW u \in Tasks \ {Init0}, proc[u] # 0
        PROVE  u \in threads'[proc[u]] <=> run'[u].pc \notin Ended
    <3>1. CASE u = t
      BY Zenon, <1>3, <1>4, <1>5, <1>7, <3>1 DEF Turns, Ended
    <3>2. CASE u # t
      <4>1. u \in threads'[proc[u]] <=> u \in threads[proc[u]]
        BY Zenon, <1>7, <2>2, <3>2 DEF Inv, Homes, Processes
      <4>2. run'[u] = run[u]
        BY Zenon, <1>5, <3>2 DEF Turns
      <4> QED  BY Zenon, <2>2, <4>1, <4>2 DEF Inv, Members
    <3> QED  BY Zenon, <3>1, <3>2
  <2>3. \A u \in Tasks \ {t} : run'[u] = run[u]
    BY Zenon, <1>5 DEF Turns
  <2> QED  BY <1>2, <2>1, <2>2, <2>3, Numbers DEF Inv, Members
<1>15. LastOnes'
  <2>1. ASSUME NEW u \in Tasks \ {t}, run[u].pc \in Last PROVE proc[u] # p
    BY Zenon, <1>6, <2>1 DEF Inv, LastOnes
  <2>2. \A u \in Tasks \ {t} : run'[u] = run[u]
    BY Zenon, <1>5 DEF Turns
  <2>3. run'[t].pc = l
    BY Zenon, <1>4, <1>5 DEF Turns
  <2>4. \A q \in Tasks : threads[q] = {} => threads'[q] = {}
    BY Zenon, <1>7
  <2>5. ASSUME NEW u \in Tasks, run'[u].pc \in Last PROVE threads'[proc[u]] = {}
    <3>1. CASE u = t
      BY Zenon, <1>3, <1>7, <2>3, <2>5, <3>1 DEF Last
    <3>2. CASE u # t
      <4>1. threads[proc[u]] = {} /\ run[u].pc # "none"
        BY Zenon, <2>2, <2>5, <3>2 DEF Inv, LastOnes, Last
      <4>2. proc[u] \in Tasks
        BY Zenon, <4>1 DEF Inv, Members, Homes, Processes
      <4> QED  BY Zenon, <2>4, <4>1, <4>2
    <3> QED  BY Zenon, <3>1, <3>2
  <2>6. ASSUME NEW u \in Tasks, NEW v \in Tasks, run'[u].pc \in Last, run'[v].pc \in Last,
               proc[u] = proc[v]
        PROVE  u = v
    <3>1. CASE u # t /\ v # t
      BY Zenon, <2>2, <2>6, <3>1 DEF Inv, LastOnes
    <3>2. CASE u = t /\ v # t
      BY Zenon, <2>1, <2>2, <2>6, <3>2 DEF Last
    <3>3. CASE v = t /\ u # t
      BY Zenon, <2>1, <2>2, <2>6, <3>3 DEF Last
    <3> QED  BY Zenon, <3>1, <3>2, <3>3
  <2>7. ASSUME NEW q \in Tasks, zombie[q]
        PROVE  threads'[q] = {} /\ \A u \in Tasks : proc[u] = q => run'[u].pc # "exit_process"
    <3>1. q # p
      BY Zenon, <1>6, <2>7
    <3>2. threads[q] = {} /\ \A u \in Tasks : proc[u] = q => run[u].pc # "exit_process"
      BY Zenon, <2>7 DEF Inv, LastOnes
    <3> QED  BY Zenon, <2>2, <2>4, <3>1, <3>2
  <2> QED  BY Zenon, <1>2, <2>5, <2>6, <2>7 DEF Inv, LastOnes
<1>16. Sleepers'
  BY Zenon, <1>1, <1>2, <1>5, SleepStep
<1>17. KillReaches'
  <2>1. \A u \in Tasks : run'[u].pc = "exit_kill" <=> run[u].pc = "exit_kill"
    BY Zenon, <1>1, <1>3, <1>4, <1>5 DEF Turns
  <2>2. \A q \in Tasks : threads'[q] \subseteq threads[q]
    BY Zenon, <1>7
  <2>3. Processes \subseteq Tasks
    BY Zenon DEF Processes
  <2> QED  BY Zenon, <1>2, <1>8, <2>1, <2>2, <2>3 DEF Inv, KillReaches
<1> QED  BY Zenon, <1>9, <1>10, <1>11, <1>12, <1>13, <1>14, <1>15, <1>16, <1>17 DEF Inv

(* Process::exit passes the children on to the init process.               *)
LEMMA ExitTree ==
  ASSUME Inv, NEW p \in Processes \ {Init0}, exit(p),
         UNCHANGED <<proc, threads, reaps, grouped>>
  PROVE  /\ parent' \in [Tasks -> 0..MaxTasks] /\ children' \in [Tasks -> SUBSET Tasks]
         /\ zombie' \in [Tasks -> BOOLEAN] /\ UNCHANGED Processes /\ Homes' /\ FamilyTree'
<1>1. /\ zombie' = [zombie EXCEPT ![p] = TRUE]
      /\ parent' = [c \in Tasks |-> IF c \in children[p] THEN Init0 ELSE parent[c]]
      /\ children' = [children EXCEPT ![p] = {}, ![Init0] = children[Init0] \cup children[p]]
  <2>1. children' = [children EXCEPT ![p] = {}, ![Init0] = @ \cup children[p]]
    BY Zenon DEF exit
  <2>2. children' = [children EXCEPT ![p] = {}, ![Init0] = children[Init0] \cup children[p]]
    BY Zenon, <2>1
  <2> QED  BY Zenon, <2>2 DEF exit
<1>2. /\ children \in [Tasks -> SUBSET Tasks] /\ zombie \in [Tasks -> BOOLEAN]
      /\ parent \in [Tasks -> 0..MaxTasks] /\ Init0 \in 0..MaxTasks /\ p \in Tasks /\ Init0 \in Tasks
  BY Numbers DEF Inv, Types, Processes, Tasks
<1>3. UNCHANGED Processes
  BY Zenon DEF Processes
<1>4. /\ children'[p] = {} /\ children'[Init0] = children[Init0] \cup children[p]
      /\ \A q \in Tasks \ {p, Init0} : children'[q] = children[q]
      /\ children' \in [Tasks -> SUBSET Tasks]
  BY Zenon, <1>1, <1>2
<1>5. \A c \in Tasks : parent'[c] = IF c \in children[p] THEN Init0 ELSE parent[c]
  BY Zenon, <1>1
<1>6. parent' \in [Tasks -> 0..MaxTasks]
  BY Zenon, <1>1, <1>2
<1>7. zombie' \in [Tasks -> BOOLEAN] /\ \A q \in Tasks \ {p} : zombie'[q] = zombie[q]
  BY Zenon, <1>1, <1>2
<1>8. Init0 \in Processes /\ Init0 \notin children[p]
  BY Numbers DEF Inv, Homes, FamilyTree, Processes
<1>9. Homes'
  <2>1. parent'[Init0] = 0 /\ \A q \in Processes \ {Init0} : parent'[q] \in Processes
    BY <1>2, <1>5, <1>8 DEF Inv, Homes, Processes
  <2>2. \A q \in Tasks \ Processes : children'[q] = children[q] /\ zombie'[q] = zombie[q]
    BY Zenon, <1>4, <1>7, <1>8
  <2> QED  BY Zenon, <1>3, <2>1, <2>2 DEF Inv, Homes
<1>10. FamilyTree'
  <2>1. ASSUME NEW q \in Processes
        PROVE  children'[q] = {c \in Processes : parent'[c] = q /\ reaps[c] = 0}
    <3>1. \A r \in Processes : children[r] = {c \in Processes : parent[c] = r /\ reaps[c] = 0}
      BY Zenon DEF Inv, FamilyTree
    <3>2. Processes \subseteq Tasks
      BY Zenon DEF Processes
    <3>3. CASE q = p
      BY <1>4, <1>5, <3>1, <3>2, <3>3
    <3>4. CASE q = Init0
      BY <1>4, <1>5, <1>8, <3>1, <3>2, <3>4
    <3>5. CASE q # p /\ q # Init0
      BY <1>4, <1>5, <3>1, <3>2, <3>5
    <3> QED  BY <3>3, <3>4, <3>5
  <2> QED  BY Zenon, <1>3, <2>1 DEF FamilyTree
<1> QED  BY Zenon, <1>3, <1>4, <1>6, <1>7, <1>9, <1>10

LEMMA ExitProcessInv ==
  ASSUME Inv, NEW t \in Tasks \ {Init0}, proc[t] # 0, ExitProcess(t) \/ ExitAgain(t)
  PROVE  Inv' /\ \A p \in Tasks : zombie[p] => zombie'[p]
<1> DEFINE p == proc[t]
           l == IF run[t].pc = "exit_process" THEN "exit_parent" ELSE "exit_group"
           r == [run[t] EXCEPT !.pc = l]
<1>1. /\ run[t] \in Runs /\ Refers(run[t]) /\ run[t].pc \in {"exit_process", "exit_again"}
      /\ p \in Processes \ {Init0} /\ p \in Tasks
      /\ run' = [run EXCEPT ![t] = r] /\ exit(p)
  BY Zenon DEF Inv, Types, References, Homes, Processes, ExitProcess, ExitAgain, Goto
<1>2. UNCHANGED <<proc, threads, code, grouped, wq, killed, reaps, late>>
  BY Zenon DEF ExitProcess, ExitAgain
<1>3. l \in {"exit_parent", "exit_group"} /\ Moves(run[t].pc, l)
  BY Zenon, <1>1 DEF Moves, Keeps, Ended, Last
<1> HIDE DEF l
<1>4. r \in Runs /\ r.pc = l /\ r.snap = run[t].snap
  BY Zenon, <1>1, <1>3 DEF Runs, PCs
<1> HIDE DEF r
<1>5. Turns(t, r) /\ Refers(r)
  BY Zenon, <1>1, <1>3, <1>4, TurnsTo DEF Refers
<1>6. /\ parent' \in [Tasks -> 0..MaxTasks] /\ children' \in [Tasks -> SUBSET Tasks]
      /\ zombie' \in [Tasks -> BOOLEAN] /\ UNCHANGED Processes /\ Homes' /\ FamilyTree'
  BY Zenon, <1>1, <1>2, ExitTree
<1>7. Types'
  BY Zenon, <1>2, <1>5, <1>6 DEF Inv, Types, Turns
<1>8. References'
  BY SMTT(30), <1>5, <1>6 DEF Inv, References, Refers, Turns
<1>9. zombie' = [zombie EXCEPT ![p] = TRUE] /\ zombie \in [Tasks -> BOOLEAN]
  BY Zenon, <1>1 DEF exit, Inv, Types
<1>10. /\ \A q \in Tasks : zombie[q] => zombie'[q]
       /\ \A q \in Tasks : zombie'[q] => zombie[q] \/ q = p
  BY Zenon, <1>1, <1>9
<1>11. /\ \A u \in Tasks \ {t} : run'[u] = run[u]
       /\ run'[t].pc = l
  BY <1>4, <1>5 DEF Turns
<1>12. Members'
  <2>1. \A u \in Tasks : run'[u].pc \in Ended <=> run[u].pc \in Ended
    BY Zenon, <1>3, <1>11 DEF Moves, Keeps
  <2>2. \A u \in Tasks \ {Init0} :
          proc[u] # 0 => (u \in threads[proc[u]] <=> run'[u].pc \notin Ended)
    BY Zenon, <2>1 DEF Inv, Members
  <2> QED  BY SMTT(30), <1>2, <1>11, <2>2, Numbers DEF Inv, Members
<1>13. LastOnes'
  <2>1. \A u \in Tasks : run'[u].pc \in Last => run[u].pc \in Last
    BY Zenon, <1>3, <1>11 DEF Moves, Keeps
  <2>2. \A u \in Tasks : run'[u].pc = "exit_process" => run[u].pc = "exit_process" /\ u # t
    BY Zenon, <1>3, <1>11
  <2>3. threads[p] = {}
    BY Zenon, <1>1 DEF Inv, LastOnes, Last
  <2>4. ASSUME NEW u \in Tasks, proc[u] = p PROVE run'[u].pc # "exit_process"
    <3>1. SUFFICES ASSUME run[u].pc = "exit_process", u # t PROVE FALSE
      BY Zenon, <2>2
    <3> QED  BY Zenon, <1>1, <2>4, <3>1 DEF Inv, LastOnes, Last
  <2>5. ASSUME NEW q \in Tasks, zombie'[q]
        PROVE  threads[q] = {} /\ \A u \in Tasks : proc[u] = q => run'[u].pc # "exit_process"
    <3>1. CASE q = p
      BY Zenon, <2>3, <2>4, <3>1
    <3>2. CASE q # p
      <4>1. zombie[q]
        BY Zenon, <1>10, <2>5, <3>2
      <4> QED  BY <2>2, <4>1 DEF Inv, LastOnes
    <3> QED  BY Zenon, <3>1, <3>2
  <2>6. ~zombie'[Init0]
    BY Zenon, <1>1, <1>10, Numbers DEF Inv, LastOnes
  <2> QED  BY SMTT(30), <1>2, <2>1, <2>2, <2>5, <2>6 DEF Inv, LastOnes
<1>14. Sleepers'
  BY <1>1, <1>2, <1>5, SleepStep
<1>15. KillReaches'
  <2>1. \A u \in Tasks : run'[u].pc = "exit_kill" <=> run[u].pc = "exit_kill"
    BY Zenon, <1>1, <1>3, <1>11
  <2> QED  BY SMTT(30), <1>2, <2>1, KillStep
<1> QED  BY Zenon, <1>6, <1>7, <1>8, <1>10, <1>12, <1>13, <1>14, <1>15 DEF Inv

-----------------------------------------------------------------------------
(* A task that is not in use.                                              *)
LEMMA Unused ==
  ASSUME Inv, NEW c \in Tasks, proc[c] = 0
  PROVE  /\ c \notin Processes /\ c # Init0 /\ run[c].pc = "none"
         /\ \A q \in Tasks : c \notin threads[q] /\ c \notin wq[q]
         /\ children[c] = {} /\ reaps[c] = 0 /\ ~zombie[c] /\ ~grouped[c] /\ threads[c] = {}
<1>1. c \notin Processes /\ c # Init0
  BY Zenon, Numbers DEF Inv, Homes, Processes
<1>2. run[c].pc = "none"
  BY Zenon DEF Inv, Members
<1>3. \A q \in Tasks : c \notin threads[q] /\ c \notin wq[q]
  BY <1>2, Numbers DEF Inv, Members, Sleepers
<1> QED  BY Zenon, <1>1, <1>2, <1>3 DEF Inv, Homes

LEMMA CloneThreadInv ==
  ASSUME Inv, NEW t \in Tasks \ {Init0}, proc[t] # 0, CloneThread(t)
  PROVE  Inv'
<1> DEFINE p == proc[t]
<1>1. PICK c \in Tasks : c = NewTask /\ proc[c] = 0
  BY Zenon, NewTaskFree DEF CloneThread
<1>2. /\ run[t].pc = "user" /\ proc' = [proc EXCEPT ![c] = p]
      /\ threads' = [threads EXCEPT ![p] = @ \cup {c}]
      /\ late' = IF grouped[p] THEN late \cup {c} ELSE late
      /\ run' = [run EXCEPT ![c] = Idle]
      /\ UNCHANGED <<parent, children, zombie, code, grouped, wq, killed, reaps>>
  BY Zenon, <1>1 DEF CloneThread
<1>3. p \in Processes \ {Init0} /\ p \in Tasks /\ p # c /\ t # c
  BY <1>1 DEF Inv, Homes, Processes
<1>4. t \in threads[p] /\ ~zombie[p]
  BY <1>2, <1>3 DEF Inv, Members, LastOnes, Ended
<1>5. Turns(c, Idle) /\ Idle.pc = "user" /\ Idle.snap = {}
  BY Zenon, <1>2, TurnsTo, IdleType
<1>6. /\ proc' \in [Tasks -> 0..MaxTasks] /\ proc'[c] = p
      /\ \A u \in Tasks \ {c} : proc'[u] = proc[u]
  BY <1>1, <1>2 DEF Inv, Types
<1>7. /\ threads' \in [Tasks -> SUBSET Tasks] /\ threads'[p] = threads[p] \cup {c}
      /\ \A q \in Tasks \ {p} : threads'[q] = threads[q]
  BY <1>1, <1>2, <1>3 DEF Inv, Types
<1>8. c \notin Processes /\ c # Init0 /\ \A q \in Tasks : c \notin wq[q] /\ c \notin threads[q]
  BY Zenon, <1>1, Unused
<1>9. UNCHANGED Processes
  BY Zenon, <1>3, <1>6, <1>8 DEF Processes
<1>10. Types'
  BY <1>2, <1>5, <1>6, <1>7 DEF Inv, Types, Turns
<1>11. Homes'
  <2>1. \A u \in Tasks : proc'[u] # 0 => proc'[u] \in Processes
    BY Zenon, <1>3, <1>6 DEF Inv, Homes
  <2>2. proc'[Init0] = Init0 /\ \A u \in Tasks \ {Init0} : proc'[u] # Init0
    BY <1>3, <1>6, <1>8, Numbers DEF Inv, Homes
  <2>3. \A q \in Tasks \ Processes : threads'[q] = threads[q]
    BY Zenon, <1>3, <1>7
  <2> QED  BY Zenon, <1>2, <1>9, <2>1, <2>2, <2>3 DEF Inv, Homes
<1>12. FamilyTree'
  BY Zenon, <1>2, <1>9 DEF Inv, FamilyTree
<1>13. References'
  BY Zenon, <1>5, <1>9 DEF Inv, References, Refers, Turns
<1>14. \A u \in Tasks \ {c} : run'[u] = run[u] /\ proc'[u] = proc[u]
  BY Zenon, <1>5, <1>6 DEF Turns
<1>15. run'[c].pc = "user"
  BY Zenon, <1>5 DEF Turns
<1>16. Members'
  <2>1. \A q \in Tasks : \A u \in threads'[q] : proc'[u] = q
    <3>1. \A q \in Tasks : \A u \in threads[q] : proc[u] = q /\ u \in Tasks \ {c}
      BY <1>8 DEF Inv, Members, Types
    <3> QED  BY <1>6, <1>7, <3>1
  <2>2. ASSUME NEW u \in Tasks \ {Init0}, proc'[u] # 0
        PROVE  u \in threads'[proc'[u]] <=> run'[u].pc \notin Ended
    <3>1. CASE u = c
      BY <1>6, <1>7, <1>15, <3>1 DEF Ended
    <3>2. CASE u # c
      <4>1. proc[u] \in Tasks
        BY <1>14, <2>2, <3>2 DEF Inv, Homes, Processes
      <4>2. u \in threads'[proc[u]] <=> u \in threads[proc[u]]
        BY <1>7, <3>2, <4>1
      <4> QED  BY <1>14, <2>2, <3>2, <4>2 DEF Inv, Members
    <3> QED  BY Zenon, <3>1, <3>2
  <2>3. \A u \in Tasks : proc'[u] = 0 => run'[u].pc = "none"
    BY <1>3, <1>6, <1>14 DEF Inv, Members
  <2>4. run'[Init0].pc = "none"
    BY Zenon, <1>8, <1>14, Numbers DEF Inv, Members
  <2> QED  BY <2>1, <2>2, <2>3, <2>4 DEF Members
<1>17. LastOnes'
  <2>1. \A u \in Tasks : run'[u].pc \in Last => u # c /\ run[u].pc \in Last /\ proc'[u] = proc[u]
    BY Zenon, <1>14, <1>15 DEF Last
  <2>2. ASSUME NEW u \in Tasks, run'[u].pc \in Last PROVE threads'[proc'[u]] = {}
    <3>1. threads[proc[u]] = {} /\ run[u].pc # "none"
      BY <2>1, <2>2 DEF Inv, LastOnes, Last
    <3>2. proc[u] \in Tasks /\ proc[u] # p
      BY SMTT(30), <1>4, <3>1 DEF Inv, Members, Homes, Processes
    <3> QED  BY SMTT(30), <1>7, <2>1, <2>2, <3>1, <3>2
  <2>3. ASSUME NEW q \in Tasks, zombie[q]
        PROVE  threads'[q] = {} /\ \A u \in Tasks : proc'[u] = q => run'[u].pc # "exit_process"
    <3>1. q # p /\ threads[q] = {} /\ \A u \in Tasks : proc[u] = q => run[u].pc # "exit_process"
      BY SMTT(30), <1>4, <2>3 DEF Inv, LastOnes
    <3> QED  BY SMTT(30), <1>7, <1>14, <1>15, <3>1
  <2> QED  BY <1>2, <2>1, <2>2, <2>3 DEF Inv, LastOnes
<1>18. Sleepers'
  <2>1. \A q \in Tasks : \A u \in wq[q] : u \in Tasks \ {c}
    BY <1>8 DEF Inv, Types
  <2> QED  BY <1>2, <1>14, <2>1 DEF Inv, Sleepers
<1>19. KillReaches'
  <2> SUFFICES ASSUME NEW q \in Processes, grouped[q],
                      \A u \in Tasks : proc'[u] = q => run'[u].pc # "exit_kill",
                      NEW u \in threads'[q]
               PROVE  killed[u] \/ u \in late'
    BY Zenon, <1>2, <1>9 DEF KillReaches
  <2>1. q \in Tasks /\ late \subseteq late'
    BY Zenon, <1>2 DEF Processes
  <2>2. \A v \in Tasks : proc[v] = q => run[v].pc # "exit_kill"
    <3>1. run[c].pc # "exit_kill"
      BY Zenon, <1>1, Unused
    <3> QED  BY <1>14, <3>1
  <2>3. CASE u \in threads[q]
    BY <2>1, <2>2, <2>3 DEF Inv, KillReaches
  <2>4. CASE u \notin threads[q]
    BY <1>2, <1>7, <2>1, <2>4
  <2> QED  BY Zenon, <2>3, <2>4
<1> QED  BY Zenon, <1>10, <1>11, <1>12, <1>13, <1>16, <1>17, <1>18, <1>19 DEF Inv

(* A new process c; a call that only was to build it is over.              *)
LEMMA BuildInv ==
  ASSUME Inv, NEW c \in Tasks, proc[c] = 0, NEW q \in Processes, Build(c, q),
         run' \in [Tasks -> Runs], run'[c] = Idle,
         \A u \in Tasks \ {c} :
           \/ run'[u] = run[u]
           \/ u # Init0 /\ proc[u] # 0 /\ run'[u] = Idle /\ run[u].pc = "clone_build",
         UNCHANGED <<zombie, code, grouped, wq, killed, reaps, late>>
  PROVE  Inv'
<1>1. /\ c \notin Processes /\ c # Init0 /\ run[c].pc = "none"
      /\ \A p \in Tasks : c \notin threads[p] /\ c \notin wq[p]
      /\ children[c] = {} /\ reaps[c] = 0 /\ ~zombie[c] /\ ~grouped[c] /\ threads[c] = {}
  BY Zenon, Unused
<1>2. Idle.pc = "user" /\ Idle.snap = {}
  BY Zenon, IdleType
<1>3. /\ proc' = [proc EXCEPT ![c] = c] /\ threads' = [threads EXCEPT ![c] = {c}]
      /\ parent' = [parent EXCEPT ![c] = q]
      /\ children' = [children EXCEPT ![q] = @ \cup {c}]
  BY Zenon DEF Build
<1>4. q \in Tasks /\ q # c /\ Tasks \subseteq 0..MaxTasks
  BY <1>1 DEF Processes, Tasks
<1>5. /\ proc' \in [Tasks -> 0..MaxTasks] /\ proc'[c] = c
      /\ \A u \in Tasks \ {c} : proc'[u] = proc[u]
  BY Zenon, <1>3, <1>4 DEF Inv, Types
<1>6. /\ threads' \in [Tasks -> SUBSET Tasks] /\ threads'[c] = {c}
      /\ \A p \in Tasks \ {c} : threads'[p] = threads[p]
  BY <1>3 DEF Inv, Types
<1>7. /\ parent' \in [Tasks -> 0..MaxTasks] /\ parent'[c] = q
      /\ \A p \in Tasks \ {c} : parent'[p] = parent[p]
  BY <1>3, <1>4 DEF Inv, Types
<1>8. /\ children' \in [Tasks -> SUBSET Tasks] /\ children'[q] = children[q] \cup {c}
      /\ \A p \in Tasks \ {q} : children'[p] = children[p]
  BY <1>3, <1>4 DEF Inv, Types
<1>9. Processes' = Processes \cup {c}
  BY <1>5 DEF Processes
<1>10. Types'
  BY <1>5, <1>6, <1>7, <1>8 DEF Inv, Types
<1>11. Homes'
  <2>1. \A u \in Tasks : proc'[u] # 0 => proc'[u] \in Processes'
    BY Zenon, <1>5, <1>9 DEF Inv, Homes
  <2>2. proc'[Init0] = Init0 /\ \A u \in Tasks \ {Init0} : proc'[u] # Init0
    BY SMTT(30), <1>1, <1>5, Numbers DEF Inv, Homes
  <2>3. parent'[Init0] = 0 /\ \A p \in Processes' \ {Init0} : parent'[p] \in Processes'
    <3>1. Processes \subseteq Tasks
      BY Zenon DEF Processes
    <3> QED  BY Zenon, <1>1, <1>7, <1>9, <3>1, Numbers DEF Inv, Homes
  <2>4. \A p \in Tasks \ Processes' :
          children'[p] = {} /\ reaps'[p] = 0 /\ ~zombie'[p] /\ ~grouped'[p] /\ threads'[p] = {}
    <3>1. \A p \in Tasks \ Processes' : p \in Tasks \ Processes /\ p # c /\ p # q
      BY Zenon, <1>9
    <3> QED  BY <1>6, <1>8, <3>1 DEF Inv, Homes
  <2> QED  BY Zenon, <2>1, <2>2, <2>3, <2>4 DEF Homes
<1>12. FamilyTree'
  <2>1. Processes \subseteq Tasks \ {c} /\ 0 \notin Processes
    BY Zenon, <1>1, Numbers DEF Processes
  <2>2. ASSUME NEW p \in Processes \cup {c}
        PROVE  children'[p] = {d \in Processes \cup {c} : parent'[d] = p /\ reaps[d] = 0}
    <3>1. CASE p = c
      <4>1. children'[c] = {}
        BY SMTT(30), <1>1, <1>4, <1>8
      <4>2. \A d \in Processes : parent'[d] # c
        BY SMTT(30), <1>1, <1>7, <2>1, Numbers DEF Inv, Homes
      <4> QED  BY <1>4, <1>7, <3>1, <4>1, <4>2
    <3>2. CASE p \in Processes
      <4>1. children[p] = {d \in Processes : parent[d] = p /\ reaps[d] = 0}
        BY Zenon, <3>2 DEF Inv, FamilyTree
      <4>2. {d \in Processes \cup {c} : parent'[d] = p /\ reaps[d] = 0}
              = {d \in Processes : parent[d] = p /\ reaps[d] = 0} \cup {d \in {c} : p = q}
        BY SMTT(30), <1>1, <1>7, <2>1
      <4>3. children'[p] = children[p] \cup {d \in {c} : p = q}
        BY Zenon, <1>8, <2>1, <3>2
      <4> QED  BY Zenon, <4>1, <4>2, <4>3
    <3> QED  BY SMTT(30), <3>1, <3>2
  <2> QED  BY Zenon, <1>9, <2>2 DEF FamilyTree
<1>13. References'
  <2>1. ASSUME NEW u \in Tasks PROVE Refers(run[u])'
    <3>1. Refers(run[u])
      BY Zenon DEF Inv, References
    <3>2. run'[u] = run[u] \/ run'[u] = Idle
      OBVIOUS
    <3> QED  BY <1>2, <1>9, <3>1, <3>2 DEF Refers
  <2> QED  BY Zenon, <2>1 DEF References
<1>14. \A u \in Tasks \ {c} : proc'[u] = proc[u] /\ Stays(u)
  <2>1. Keeps("clone_build", "user")
    BY Zenon DEF Keeps, Ended, Last
  <2> QED  BY <1>2, <1>5, <2>1 DEF Stays
<1>15. \A u \in Tasks \ {c} :
         /\ run'[u].pc \in Ended <=> run[u].pc \in Ended
         /\ run'[u].pc \in Last => run[u].pc \in Last
         /\ run'[u].pc = "exit_process" => run[u].pc = "exit_process"
         /\ proc[u] = 0 \/ u = Init0 => run'[u].pc = run[u].pc
  BY Zenon, <1>14 DEF Stays, Keeps
<1>16. run'[c].pc = "user" /\ run'[c].pc \notin Ended /\ run'[c].pc \notin Last
  BY Zenon, <1>2 DEF Ended, Last
<1>17. Members'
  <2>1. \A p \in Tasks : \A u \in threads'[p] : proc'[u] = p
    <3>1. \A p \in Tasks : \A u \in threads[p] : proc[u] = p /\ u \in Tasks \ {c}
      BY <1>1 DEF Inv, Members, Types
    <3> QED  BY SMTT(30), <1>5, <1>6, <3>1
  <2>2. ASSUME NEW u \in Tasks \ {Init0}, proc'[u] # 0
        PROVE  u \in threads'[proc'[u]] <=> run'[u].pc \notin Ended
    <3>1. CASE u = c
      BY SMTT(30), <1>5, <1>6, <1>16, <3>1
    <3>2. CASE u # c
      <4>1. proc[u] \in Tasks \ {c}
        BY Zenon, <1>1, <1>14, <2>2, <3>2 DEF Inv, Homes, Processes
      <4>2. threads'[proc[u]] = threads[proc[u]] /\ proc'[u] = proc[u]
        BY Zenon, <1>5, <1>6, <3>2, <4>1
      <4>3. proc[u] # 0 => (u \in threads[proc[u]] <=> run[u].pc \notin Ended)
        BY Zenon DEF Inv, Members
      <4>4. run'[u].pc \in Ended <=> run[u].pc \in Ended
        BY Zenon, <1>15, <3>2
      <4> QED  BY Zenon, <2>2, <4>2, <4>3, <4>4
    <3> QED  BY Zenon, <3>1, <3>2
  <2>3. \A u \in Tasks : proc'[u] = 0 => run'[u].pc = "none"
    BY SMTT(30), <1>5, <1>15, Numbers DEF Inv, Members
  <2>4. run'[Init0].pc = "none"
    BY Zenon, <1>1, <1>15, Numbers DEF Inv, Members
  <2> QED  BY SMTT(30), <2>1, <2>2, <2>3, <2>4 DEF Members
<1>18. LastOnes'
  <2>1. \A u \in Tasks : run'[u].pc \in Last => u # c /\ run[u].pc \in Last /\ proc'[u] = proc[u]
    BY Zenon, <1>14, <1>15, <1>16
  <2>2. ASSUME NEW u \in Tasks, run'[u].pc \in Last PROVE threads'[proc'[u]] = {}
    <3>1. threads[proc[u]] = {} /\ run[u].pc # "none"
      BY SMTT(30), <2>1, <2>2 DEF Inv, LastOnes, Last
    <3>2. proc[u] \in Tasks \ {c}
      BY SMTT(30), <1>1, <3>1 DEF Inv, Members, Homes, Processes
    <3> QED  BY SMTT(30), <1>6, <2>1, <2>2, <3>1, <3>2
  <2>3. ASSUME NEW p \in Tasks, zombie[p]
        PROVE  threads'[p] = {} /\ \A u \in Tasks : proc'[u] = p => run'[u].pc # "exit_process"
    <3>1. p # c /\ threads[p] = {} /\ \A u \in Tasks : proc[u] = p => run[u].pc # "exit_process"
      BY Zenon, <1>1, <2>3 DEF Inv, LastOnes
    <3> QED  BY Zenon, <1>6, <1>14, <1>15, <1>16, <3>1
  <2> QED  BY SMTT(30), <2>1, <2>2, <2>3 DEF Inv, LastOnes
<1>19. Sleepers'
  <2>1. ASSUME NEW p \in Tasks, NEW u \in wq[p] PROVE run'[u].pc = "waiting" /\ proc'[u] = p
    <3>1. u \in Tasks \ {c} /\ run[u].pc = "waiting" /\ proc[u] = p
      BY <1>1 DEF Inv, Types, Sleepers
    <3> QED  BY <1>5, <3>1
  <2> QED  BY <2>1 DEF Sleepers
<1>20. KillReaches'
  <2> SUFFICES ASSUME NEW p \in Processes \cup {c}, grouped[p],
                      \A u \in Tasks : proc'[u] = p => run'[u].pc # "exit_kill",
                      NEW u \in threads'[p]
               PROVE  killed[u] \/ u \in late
    BY Zenon, <1>9 DEF KillReaches
  <2>1. p # c /\ p \in Processes /\ p \in Tasks
    BY Zenon, <1>1 DEF Processes
  <2>2. \A v \in Tasks : proc[v] = p => run[v].pc # "exit_kill"
    BY SMTT(30), <1>1, <1>5
  <2>3. u \in threads[p]
    BY Zenon, <1>6, <2>1
  <2> QED  BY Zenon, <2>1, <2>2, <2>3 DEF Inv, KillReaches
<1> QED  BY Zenon, <1>10, <1>11, <1>12, <1>13, <1>17, <1>18, <1>19, <1>20 DEF Inv

LEMMA ForkInv ==
  ASSUME Inv, NEW t \in Tasks \ {Init0}, proc[t] # 0, Fork(t) \/ CloneParentBuild(t)
  PROVE  Inv'
<1>1. PICK c \in Tasks : c = NewTask /\ proc[c] = 0
  BY Zenon, NewTaskFree DEF Fork, CloneParentBuild
<1>2. c # t /\ Idle \in Runs /\ run \in [Tasks -> Runs]
  BY Zenon, <1>1, IdleType DEF Inv, Types
<1>3. CASE Fork(t)
  <2>1. /\ Build(c, proc[t]) /\ run' = [run EXCEPT ![c] = Idle]
        /\ UNCHANGED <<zombie, code, grouped, wq, killed, reaps, late>>
    BY <1>1, <1>3 DEF Fork
  <2>2. proc[t] \in Processes
    BY Zenon DEF Inv, Homes
  <2>3. Turns(c, Idle)
    BY Zenon, <1>2, <2>1, TurnsTo
  <2> QED  BY Zenon, <1>1, <2>1, <2>2, <2>3, BuildInv DEF Turns
<1>4. CASE CloneParentBuild(t)
  <2>1. /\ Build(c, run[t].par) /\ run' = [run EXCEPT ![c] = Idle, ![t] = Idle]
        /\ UNCHANGED <<zombie, code, grouped, wq, killed, reaps, late>>
        /\ run[t].pc = "clone_build"
    BY Zenon, <1>1, <1>4 DEF CloneParentBuild, status
  <2>2. run[t].par \in Processes
    BY Zenon, <2>1 DEF Inv, References, Refers
  <2>3. /\ run' \in [Tasks -> Runs] /\ run'[c] = Idle /\ run'[t] = Idle
        /\ \A u \in Tasks \ {c, t} : run'[u] = run[u]
    BY Zenon, <1>2, <2>1
  <2> QED  BY <1>1, <2>1, <2>2, <2>3, BuildInv
<1> QED  BY Zenon, <1>3, <1>4

-----------------------------------------------------------------------------
(* What a step does to zombies.                                            *)
CodeKept == \A p \in Tasks : zombie[p] => zombie'[p] /\ code'[p] = code[p]

LEMMA NextInv ==
  ASSUME Inv, [Next]_vars
  PROVE  Inv' /\ CodeKept
<1>1. CASE UNCHANGED vars
  <2>1. /\ Still /\ UNCHANGED <<code, grouped, wq, killed, late, run>>
    BY Zenon, <1>1 DEF vars, Still
  <2>2. UNCHANGED Processes /\ Homes' /\ FamilyTree'
    BY <2>1, TreeStep
  <2>3. Types'
    BY Zenon, <2>1 DEF Inv, Types, Still
  <2>4. Members' /\ LastOnes'
    BY <2>1, MembersSteps DEF Stays, Still
  <2>5. References' /\ Sleepers' /\ KillReaches'
    BY <2>1, <2>2, KillStep DEF Inv, References, Refers, Sleepers, Still
  <2> QED  BY Zenon, <2>1, <2>2, <2>3, <2>4, <2>5 DEF Inv, CodeKept, Still
<1>2. ASSUME NEW t \in Tasks \ {Init0}, proc[t] # 0, Begin(t) \/ Die(t) \/ Continue(t)
      PROVE  Inv' /\ CodeKept
  <2>1. CASE ExitThread(t)
    BY Zenon, <1>2, <2>1, ExitThreadInv DEF ExitThread, CodeKept
  <2>2. CASE ExitProcess(t) \/ ExitAgain(t)
    BY Zenon, <1>2, <2>2, ExitProcessInv DEF ExitProcess, ExitAgain, CodeKept
  <2>3. CASE ~(ExitThread(t) \/ ExitProcess(t) \/ ExitAgain(t))
    <3>1. Inv'
      BY Zenon, <1>2, <2>3, ReadSteps, WaitBlockInv, ExitMarkInv, ExitKillInv, WaitReapInv,
         ExitNotifyInv, CloneThreadInv, ForkInv DEF Begin, Continue
    <3>2. UNCHANGED <<zombie, code>>
      BY Zenon, <1>2, <2>3 DEF Begin, Continue, CloneThread, Fork, CloneParentGet, Waitpid, Exit, Die,
         CloneParentBuild, WaitReap, WaitNone, WaitBlock, ExitParent, ExitNotify, ExitGroup,
         ExitMark, ExitKill, status
    <3> QED  BY SMTT(30), <3>1, <3>2 DEF CodeKept
  <2> QED  BY <2>1, <2>2, <2>3
<1> QED  BY Zenon, <1>1, <1>2 DEF Next

(* In every state the tree, the threads of processes and the queues of     *)
(* waitpid are as the calls that work on them suppose.                     *)
THEOREM SpecInv == Spec => []Inv
<1>1. Inv /\ [Next]_vars => Inv'
  BY Zenon, NextInv
<1> QED  BY InitInv, <1>1, PTL DEF Spec

(* A process is in the children of exactly its parent until a waitpid has  *)
(* freed it, whatever forks, CLONE_PARENTs, exits and waitpids meet.       *)
THEOREM TreeIsConsistent == Spec => []FamilyTree
<1>1. Inv => FamilyTree
  BY Zenon DEF Inv
<1> QED  BY SpecInv, <1>1, PTL

(* A process that waitpid can return has no thread in user code or asleep. *)
THEOREM ZombiesAreDone == Spec => []ZombieIsDone
<1>1. ASSUME Inv PROVE ZombieIsDone
  <2> SUFFICES ASSUME NEW p \in Processes, zombie[p], NEW t \in Tasks, proc[t] = p
               PROVE  threads[p] = {} /\ run[t].pc \in Ended \ {"exit_process"}
    BY Zenon, <1>1 DEF ZombieIsDone, Ended, Inv, LastOnes, Processes
  <2>1. p \in Tasks /\ p # 0 /\ p # Init0 /\ t # Init0
    BY <1>1, Numbers DEF Inv, LastOnes, Processes, Homes
  <2>2. threads[p] = {} /\ run[t].pc # "exit_process"
    BY Zenon, <1>1, <2>1 DEF Inv, LastOnes
  <2>3. run[t].pc \in Ended
    BY Zenon, <1>1, <2>1, <2>2 DEF Inv, Members
  <2> QED  BY <2>2, <2>3
<1> QED  BY SpecInv, <1>1, PTL

(* A group exit that has sent its signals has reached every thread of the  *)
(* process that was there when it began.                                   *)
THEOREM GroupExitReachesAll == Spec => []KillReaches
<1>1. Inv => KillReaches
  BY Zenon DEF Inv
<1> QED  BY SpecInv, <1>1, PTL

(* A zombie stays one, with the exit code that it has.                     *)
THEOREM ExitCodesAreFinal == Spec => ExitCodeFinal
<1>1. Inv /\ [Next]_vars => [\A p \in Tasks : zombie[p] => zombie'[p] /\ code'[p] = code[p]]_vars
  BY Zenon, NextInv DEF CodeKept
<1> QED  BY SpecInv, <1>1, PTL DEF Spec, ExitCodeFinal
=============================================================================
