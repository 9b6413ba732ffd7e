---------------------------- MODULE FileProofs -----------------------------
(***************************************************************************)
(* The reference counts of the hard link table, the list of mounts, the    *)
(* entries that getdents64 reports of a directory, and the descriptor      *)
(* tables: shared as clone was asked to, and without a trace of a pipe2    *)
(* that failed.  For any numbers of paths, entries, threads, processes and *)
(* descriptors.                                                            *)
(***************************************************************************)
EXTENDS Hardlinks, Mount, Getdents, FdTable, FiniteSetTheorems, TLAPS

(***************************************************************************)
(* The descriptor tables                                                   *)
(***************************************************************************)
(* A process with a table shares it with those it means to share it with.  *)
SharedAsMeant == \A p \in Procs : tableOf[p] # NoProc => sharing[p] = tableOf[p]

FdTypes ==
  /\ fd_table \in [Procs -> [Slots -> Nat]]
  /\ tableOf \in [Procs -> Procs \cup {NoProc}] /\ sharing \in [Procs -> Procs]
  /\ made \in Nat /\ DOMAIN fd_call = Tasks
  /\ \A p \in Procs, fd \in Slots : fd_table[p][fd] <= made

HoldsFile(p, fd, f) == fd_table[p][fd] = f

(* What thread t knows of its files: they were made; a pipe's read end is  *)
(* at most where t has put it, or copied; its write end is t's alone until *)
(* it is added.                                                            *)
OpInv(t) ==
  /\ fd_call[t].file \in 0..made /\ fd_call[t].file2 \in 0..made
  /\ fd_call[t].pc # "user" => fd_call[t].file # 0
  /\ fd_call[t].pc \in {"pipe_write", "pipe_undo"} =>
       /\ T(t) # NoProc
       /\ \A p \in Procs, fd \in Slots :
            HoldsFile(p, fd, fd_call[t].file) =>
              fd_call[t].file \in copied \/ (p = T(t) /\ fd = fd_call[t].fd)
  /\ fd_call[t].pc = "pipe_write" =>
       /\ fd_call[t].file2 # 0 /\ fd_call[t].file2 \notin failed
       /\ \A p \in Procs, fd \in Slots : ~HoldsFile(p, fd, fd_call[t].file2)
       /\ \A u \in Tasks : fd_call[u].file # fd_call[t].file2
       /\ \A u \in Tasks \ {t} : fd_call[u].file2 # fd_call[t].file2

Gone == \A f \in failed \ copied : \A p \in Procs, fd \in Slots : ~HoldsFile(p, fd, f)

FdInv ==
  /\ FdTypes /\ SharedAsMeant /\ failed \subseteq 1..made
  /\ panicked = "none" => Gone /\ \A t \in Tasks : OpInv(t)

LEMMA FdInitInv == FdInit => FdInv
<1> SUFFICES ASSUME FdInit PROVE FdInv
  OBVIOUS
<1> USE FdAssumption
<1>1. 0 \in Slots /\ Empty \in [Slots -> Nat] /\ \A fd \in Slots : Empty[fd] = 0
  BY DEF Slots, Empty
<1>2. made \in Nat /\ (MaxFiles > 0 => made = 1)
  BY Zenon DEF FdInit
<1>3. ASSUME NEW p \in Procs
      PROVE  fd_table[p] \in [Slots -> Nat] /\ \A fd \in Slots : fd_table[p][fd] <= made
  <2> HIDE DEF Slots, Empty
  <2> QED  BY <1>1, <1>2 DEF FdInit
<1>4. FdTypes
  BY Zenon, <1>2, <1>3 DEF FdInit, FdTypes
<1>5. \A t \in Tasks : OpInv(t)
  BY <1>2 DEF FdInit, OpInv, NoOp
<1> QED  BY Zenon, <1>4, <1>5 DEF FdInit, FdInv, SharedAsMeant, Gone

(* f is written to entry i of table tab, and no other entry changes.       *)
Writes(tab, i, f) == fd_table' = [fd_table EXCEPT ![tab][i] = f]
Written(tab, i, f) ==
  /\ fd_table' \in [Procs -> [Slots -> Nat]]
  /\ \A p \in Procs, fd \in Slots : fd_table'[p][fd] <= made'
  /\ \A p \in Procs, fd \in Slots :
       \/ fd_table'[p][fd] = fd_table[p][fd] /\ (p = tab => fd # i)
       \/ fd_table'[p][fd] = f /\ p = tab /\ fd = i

LEMMA WriteEntry ==
  ASSUME FdTypes, made' \in Nat, made <= made',
         NEW tab \in Procs, NEW i, NEW f \in 0..made', Writes(tab, i, f)
  PROVE  Written(tab, i, f)
<1>1. \A p \in Procs : fd_table[p] \in [Slots -> Nat] /\ \A fd \in Slots : fd_table[p][fd] <= made
  BY Zenon DEF FdTypes
<1>2. \A p \in Procs, fd \in Slots :
        \/ fd_table'[p][fd] = fd_table[p][fd] /\ (p = tab => fd # i)
        \/ fd_table'[p][fd] = f /\ p = tab /\ fd = i
  BY Zenon, <1>1 DEF FdTypes, Writes
<1>3. \A p \in Procs, fd \in Slots : fd_table'[p][fd] \in Nat /\ fd_table'[p][fd] <= made'
  <2> SUFFICES ASSUME NEW p \in Procs, NEW fd \in Slots
               PROVE  fd_table'[p][fd] \in Nat /\ fd_table'[p][fd] <= made'
    OBVIOUS
  <2>1. fd_table[p][fd] \in Nat /\ fd_table[p][fd] <= made /\ made \in Nat
    BY Zenon, <1>1 DEF FdTypes
  <2> QED  BY <1>2, <2>1
<1>4. fd_table' \in [Procs -> [Slots -> Nat]]
  <2>1. f \in Nat /\ fd_table[tab] \in [Slots -> Nat]
    BY <1>1
  <2>2. [fd_table[tab] EXCEPT ![i] = f] \in [Slots -> Nat]
    BY Zenon, <2>1
  <2> QED  BY Zenon, <1>1, <2>2 DEF FdTypes, Writes
<1> QED  BY Zenon, <1>2, <1>3, <1>4 DEF Written

(* The table of a thread that runs.                                        *)
LEMMA RunsIn ==
  ASSUME FdInv, NEW t \in Tasks, NEW l, Runs(t, l)
  PROVE  /\ panicked = "none" /\ fd_call[t].pc = l /\ ProcOf[t] \in Procs
         /\ T(t) \in Procs /\ T(t) # NoProc
         /\ Gone /\ OpInv(t) /\ \A u \in Tasks : OpInv(u)
BY Zenon, FdAssumption DEF FdInv, FdTypes, Runs, T

(* A step that leaves the tables of the processes, and changes at most the *)
(* call of t: what there is to show.                                       *)
LEMMA TablesKept ==
  ASSUME FdInv, UNCHANGED <<tableOf, sharing>>, made' \in Nat, DOMAIN fd_call' = Tasks,
         fd_table' \in [Procs -> [Slots -> Nat]],
         \A p \in Procs, fd \in Slots : fd_table'[p][fd] <= made',
         failed' \subseteq 1..made',
         panicked' = "none" => Gone' /\ \A u \in Tasks : OpInv(u)'
  PROVE  FdInv'
BY Zenon DEF FdInv, FdTypes, SharedAsMeant

LEMMA OpenFileInv ==
  ASSUME FdInv, NEW t \in Tasks, OpenFile(t) PROVE FdInv'
<1>1. Runs(t, "user") /\ FdTypes /\ failed \subseteq 1..made /\ made \in Nat
  BY Zenon DEF OpenFile, FdInv, FdTypes
<1>2. T(t) \in Procs /\ Gone /\ \A u \in Tasks : OpInv(u)
  BY Zenon, <1>1, RunsIn
<1> DEFINE n == made + 1
           i == LowestFree(T(t))
<1>3. made' = n /\ Writes(T(t), i, n)
      /\ UNCHANGED <<tableOf, fd_call, panicked, copied, failed, sharing>>
  BY Zenon DEF OpenFile, add, Writes
<1> HIDE DEF i
<1>4. Written(T(t), i, n)
  BY <1>1, <1>2, <1>3, WriteEntry
<1>5. Gone'
  BY <1>1, <1>2, <1>3, <1>4 DEF Gone, HoldsFile, Written
<1>6. ASSUME NEW u \in Tasks PROVE OpInv(u)'
  BY <1>1, <1>2, <1>3, <1>4 DEF OpInv, HoldsFile, T, Written
<1> QED  BY <1>1, <1>3, <1>4, <1>5, <1>6, TablesKept DEF FdTypes, Written

LEMMA CloseInv ==
  ASSUME FdInv, NEW t \in Tasks, NEW x \in Slots, sys_close(t, x) PROVE FdInv'
<1>1. Runs(t, "user") /\ FdTypes /\ failed \subseteq 1..made /\ made \in Nat
  BY Zenon DEF sys_close, FdInv, FdTypes
<1>2. T(t) \in Procs /\ Gone /\ \A u \in Tasks : OpInv(u)
  BY Zenon, <1>1, RunsIn
<1>3. Writes(T(t), x, 0)
      /\ UNCHANGED <<tableOf, made, fd_call, panicked, copied, failed, sharing>>
  BY Zenon DEF sys_close, remove, Writes
<1>4. Written(T(t), x, 0)
  BY <1>1, <1>2, <1>3, WriteEntry
<1>5. Gone'
  BY <1>1, <1>2, <1>3, <1>4 DEF Gone, HoldsFile, Written
<1>6. ASSUME NEW u \in Tasks PROVE OpInv(u)'
  BY SMTT(30), <1>1, <1>2, <1>3, <1>4 DEF OpInv, HoldsFile, T, Written
<1> QED  BY Zenon, <1>1, <1>3, <1>4, <1>5, <1>6, TablesKept DEF FdTypes, Written

LEMMA DupGetInv ==
  ASSUME FdInv, NEW t \in Tasks, NEW x \in Slots, DupGet(t, x) PROVE FdInv'
<1>1. Runs(t, "user") /\ FdTypes /\ failed \subseteq 1..made /\ made \in Nat
  BY Zenon DEF DupGet, FdInv, FdTypes
<1>2. T(t) \in Procs /\ Gone /\ \A u \in Tasks : OpInv(u)
  BY Zenon, <1>1, RunsIn
<1> DEFINE f == fd_table[T(t)][x]
           c == [NoOp EXCEPT !.pc = "dup_add", !.file = f]
<1>3. fd_call' = [fd_call EXCEPT ![t] = c]
      /\ UNCHANGED <<fd_table, tableOf, made, panicked, copied, failed, sharing>>
  BY Zenon DEF DupGet
<1>4. c.pc = "dup_add" /\ c.file = f /\ c.file2 = 0 /\ f \in 1..made
  BY <1>1, <1>2 DEF DupGet, NoOp, FdTypes
<1> HIDE DEF c
<1>5. DOMAIN fd_call' = Tasks /\ fd_call'[t] = c /\ \A u \in Tasks \ {t} : fd_call'[u] = fd_call[u]
  BY Zenon, <1>1, <1>3 DEF FdTypes
<1>6. ASSUME NEW u \in Tasks PROVE OpInv(u)'
  <2>1. CASE u = t
    BY <1>1, <1>3, <1>4, <1>5, <2>1 DEF OpInv
  <2>2. CASE u # t
    <3>1. fd_call[u].pc = "pipe_write" => fd_call[u].file2 # f /\ fd_call[u].file2 # 0
      BY <1>2 DEF OpInv, HoldsFile
    <3> QED  BY SMTT(30), <1>2, <1>3, <1>4, <1>5, <2>2, <3>1 DEF OpInv, HoldsFile, T
  <2> QED  BY Zenon, <2>1, <2>2
<1>7. Gone'
  BY Zenon, <1>2, <1>3 DEF Gone, HoldsFile
<1> QED  BY Zenon, <1>1, <1>3, <1>5, <1>6, <1>7, TablesKept DEF FdTypes

(* A file is written to an entry and marked as copied.                     *)
LEMMA CopyEntry ==
  ASSUME FdInv, Gone, \A u \in Tasks : OpInv(u), NEW tab \in Procs, NEW i, NEW f \in 1..made,
         Writes(tab, i, f), copied' = copied \cup {f},
         UNCHANGED <<tableOf, made, failed, sharing>>, DOMAIN fd_call' = Tasks,
         \A u \in Tasks : fd_call[u].pc = "pipe_write" => fd_call[u].file2 # f,
         \A u \in Tasks : fd_call'[u] = fd_call[u] \/ fd_call'[u] = NoOp
  PROVE  FdInv'
<1>1. FdTypes /\ failed \subseteq 1..made /\ made \in Nat
  BY Zenon DEF FdInv, FdTypes
<1>2. Written(tab, i, f)
  BY <1>1, WriteEntry
<1>3. Gone'
  BY <1>2 DEF Gone, HoldsFile, Written
<1>4. ASSUME NEW u \in Tasks PROVE OpInv(u)'
  <2>1. CASE fd_call'[u] = NoOp
    BY SMTT(30), <1>1, <2>1 DEF OpInv, NoOp
  <2>2. CASE fd_call'[u] = fd_call[u]
    BY SMTT(30), <1>2, <2>2 DEF OpInv, HoldsFile, T, NoOp, Written
  <2> QED  BY Zenon, <2>1, <2>2
<1> QED  BY Zenon, <1>1, <1>2, <1>3, <1>4, TablesKept DEF FdTypes, Written

LEMMA DupAddInv ==
  ASSUME FdInv, NEW t \in Tasks, DupAdd(t) PROVE FdInv'
<1>1. Runs(t, "dup_add") /\ FdTypes /\ failed \subseteq 1..made /\ made \in Nat
  BY Zenon DEF DupAdd, FdInv, FdTypes
<1>2. T(t) \in Procs /\ Gone /\ fd_call[t].pc = "dup_add" /\ \A u \in Tasks : OpInv(u)
  BY Zenon, <1>1, RunsIn
<1>3. /\ fd_call' = [fd_call EXCEPT ![t] = NoOp]
      /\ UNCHANGED <<tableOf, made, panicked, failed, sharing>>
  BY Zenon DEF DupAdd
<1>4. DOMAIN fd_call' = Tasks /\ fd_call'[t] = NoOp /\ \A u \in Tasks \ {t} : fd_call'[u] = fd_call[u]
  BY Zenon, <1>1, <1>3 DEF FdTypes
<1>5. CASE Full(T(t))
  <2>1. UNCHANGED <<fd_table, copied>>
    BY Zenon, <1>5 DEF DupAdd
  <2>2. \A u \in Tasks : OpInv(u)'
    BY SMTT(30), <1>1, <1>2, <1>3, <1>4, <2>1 DEF OpInv, HoldsFile, T, NoOp
  <2> QED  BY Zenon, <1>1, <1>2, <1>3, <1>4, <2>1, <2>2, TablesKept DEF FdTypes, Gone, HoldsFile
<1>6. CASE ~Full(T(t))
  <2> DEFINE f == fd_call[t].file
             i == LowestFree(T(t))
  <2>1. Writes(T(t), i, f) /\ copied' = copied \cup {f}
    BY Zenon, <1>6 DEF DupAdd, add, Writes
  <2>2. f \in 1..made /\ \A u \in Tasks : fd_call[u].pc = "pipe_write" => fd_call[u].file2 # f
    BY <1>1, <1>2 DEF OpInv
  <2> HIDE DEF f, i
  <2> QED  BY Zenon, <1>2, <1>3, <1>4, <2>1, <2>2, CopyEntry
<1> QED  BY Zenon, <1>5, <1>6

LEMMA Dup2Inv ==
  ASSUME FdInv, NEW t \in Tasks, NEW x \in Slots, NEW y \in 0..MaxNewFd, sys_dup2(t, x, y)
  PROVE  FdInv'
<1>1. Runs(t, "user") /\ FdTypes /\ failed \subseteq 1..made /\ made \in Nat
  BY Zenon DEF sys_dup2, FdInv, FdTypes
<1>2. T(t) \in Procs /\ Gone /\ \A u \in Tasks : OpInv(u)
  BY Zenon, <1>1, RunsIn
<1>3. UNCHANGED <<tableOf, made, fd_call, failed, sharing>> /\ DOMAIN fd_call = Tasks
  BY Zenon, <1>1 DEF sys_dup2, FdTypes
<1>4. CASE y \in Slots
  <2> DEFINE f == fd_table[T(t)][x]
  <2>1. Writes(T(t), y, f) /\ copied' = copied \cup {f}
    BY Zenon, <1>4 DEF sys_dup2, Writes
  <2>2. f \in 1..made
    BY <1>1, <1>2 DEF sys_dup2, FdTypes
  <2>3. \A u \in Tasks : fd_call[u].pc = "pipe_write" => fd_call[u].file2 # f
    BY <1>2 DEF OpInv, HoldsFile
  <2> HIDE DEF f
  <2> QED  BY Zenon, <1>2, <1>3, <2>1, <2>2, <2>3, CopyEntry
<1>5. CASE y \notin Slots
  <2>1. panicked' # "none" /\ UNCHANGED fd_table
    BY Zenon, <1>5 DEF sys_dup2
  <2> QED  BY Zenon, <1>1, <1>3, <2>1, TablesKept DEF FdTypes
<1> QED  BY Zenon, <1>4, <1>5

LEMMA PipeReadInv ==
  ASSUME FdInv, NEW t \in Tasks, PipeRead(t) PROVE FdInv'
<1>1. Runs(t, "user") /\ FdTypes /\ failed \subseteq 1..made /\ made \in Nat
  BY Zenon DEF PipeRead, FdInv, FdTypes
<1>2. T(t) \in Procs /\ T(t) # NoProc /\ Gone /\ \A u \in Tasks : OpInv(u)
  BY Zenon, <1>1, RunsIn
<1> DEFINE i == LowestFree(T(t))
           c == [pc |-> "pipe_write", file |-> made + 1, file2 |-> made + 2, fd |-> i]
<1>3. /\ made' = made + 2 /\ Writes(T(t), i, made + 1)
      /\ fd_call' = [fd_call EXCEPT ![t] = c]
      /\ UNCHANGED <<tableOf, panicked, copied, failed, sharing>>
  BY Zenon DEF PipeRead, add, Writes
<1>4. c.pc = "pipe_write" /\ c.file = made + 1 /\ c.file2 = made + 2 /\ c.fd = i
  OBVIOUS
<1> HIDE DEF i, c
<1>5. DOMAIN fd_call' = Tasks /\ fd_call'[t] = c /\ \A u \in Tasks \ {t} : fd_call'[u] = fd_call[u]
  BY Zenon, <1>1, <1>3 DEF FdTypes
<1>6. Written(T(t), i, made + 1)
  BY <1>1, <1>2, <1>3, WriteEntry
<1>7. \A p \in Procs, fd \in Slots :
        \/ fd_table'[p][fd] = fd_table[p][fd] /\ fd_table[p][fd] \in 0..made
        \/ fd_table'[p][fd] = made + 1 /\ p = T(t) /\ fd = i
  BY <1>1, <1>6 DEF Written, FdTypes
<1>8. Gone'
  BY SMTT(30), <1>1, <1>2, <1>3, <1>7 DEF Gone, HoldsFile
<1>9. \A u \in Tasks : fd_call[u].file \in 0..made /\ fd_call[u].file2 \in 0..made
  BY Zenon, <1>2 DEF OpInv
<1>10. \A u \in Tasks : T(u)' = T(u)
  BY Zenon, <1>3 DEF T
<1>11. ASSUME NEW u \in Tasks \ {t} PROVE OpInv(u)'
  <2>1. OpInv(u) /\ fd_call'[u] = fd_call[u] /\ made' \in Nat /\ made <= made'
    BY <1>1, <1>2, <1>3, <1>5
  <2>2. \A p \in Procs, fd \in Slots :
          /\ HoldsFile(p, fd, fd_call[u].file)' /\ fd_call[u].file # 0 => HoldsFile(p, fd, fd_call[u].file)
          /\ HoldsFile(p, fd, fd_call[u].file2)' => HoldsFile(p, fd, fd_call[u].file2)
    BY <1>1, <1>5, <1>7, <1>9 DEF HoldsFile
  <2>3. fd_call[u].pc = "pipe_write" =>
          /\ \A v \in Tasks : fd_call'[v].file # fd_call[u].file2
          /\ \A v \in Tasks \ {u} : fd_call'[v].file2 # fd_call[u].file2
    BY SMTT(30), <1>1, <1>4, <1>5, <1>9, <2>1 DEF OpInv
  <2> QED  BY SMTT(30), <1>1, <1>3, <1>9, <1>10, <2>1, <2>2, <2>3 DEF OpInv
<1>12. OpInv(t)'
  <2>1. \A p \in Procs, fd \in Slots : fd_table'[p][fd] # made + 2
    BY SMTT(30), <1>1, <1>7
  <2> QED  BY SMTT(30), <1>1, <1>2, <1>3, <1>4, <1>5, <1>7, <1>9, <1>10, <2>1 DEF OpInv, HoldsFile
<1> QED  BY <1>1, <1>3, <1>5, <1>6, <1>8, <1>11, <1>12, TablesKept DEF FdTypes, Written

LEMMA PipeWriteInv ==
  ASSUME FdInv, NEW t \in Tasks, PipeWrite(t) PROVE FdInv'
<1>1. Runs(t, "pipe_write") /\ FdTypes /\ failed \subseteq 1..made /\ made \in Nat
  BY Zenon DEF PipeWrite, FdInv, FdTypes
<1>2. /\ T(t) \in Procs /\ T(t) # NoProc /\ fd_call[t].pc = "pipe_write"
      /\ Gone /\ \A u \in Tasks : OpInv(u)
  BY Zenon, <1>1, RunsIn
<1>3. UNCHANGED <<tableOf, made, panicked, copied, failed, sharing>>
  BY Zenon DEF PipeWrite
<1>4. CASE Full(T(t))
  <2>1. fd_call' = [fd_call EXCEPT ![t].pc = "pipe_undo"] /\ UNCHANGED fd_table
    BY Zenon, <1>4 DEF PipeWrite
  <2>2. /\ DOMAIN fd_call' = Tasks /\ fd_call'[t].pc = "pipe_undo" /\ fd_call'[t].file = fd_call[t].file
        /\ fd_call'[t].file2 = fd_call[t].file2 /\ fd_call'[t].fd = fd_call[t].fd
        /\ \A u \in Tasks \ {t} : fd_call'[u] = fd_call[u]
    BY <1>1, <2>1 DEF FdTypes
  <2>3. \A u \in Tasks : OpInv(u)'
    BY <1>2, <1>3, <2>1, <2>2 DEF OpInv, HoldsFile, T
  <2> QED  BY <1>1, <1>2, <1>3, <2>1, <2>2, <2>3, TablesKept DEF FdTypes, Gone, HoldsFile
<1>5. CASE ~Full(T(t))
  <2> DEFINE f == fd_call[t].file2
             i == LowestFree(T(t))
  <2>1. fd_call' = [fd_call EXCEPT ![t] = NoOp] /\ Writes(T(t), i, f)
    BY Zenon, <1>5 DEF PipeWrite, add, Writes
  <2>2. /\ f \in 1..made /\ f \notin failed /\ \A u \in Tasks : fd_call[u].file # f
        /\ \A u \in Tasks \ {t} : fd_call[u].file2 # f
    BY SMTT(30), <1>1, <1>2 DEF OpInv
  <2> HIDE DEF f, i
  <2>3. DOMAIN fd_call' = Tasks /\ fd_call'[t] = NoOp /\ \A u \in Tasks \ {t} : fd_call'[u] = fd_call[u]
    BY Zenon, <1>1, <2>1 DEF FdTypes
  <2>4. Written(T(t), i, f)
    BY <1>1, <1>2, <1>3, <2>1, <2>2, WriteEntry
  <2>5. Gone'
    BY SMTT(30), <1>2, <1>3, <2>2, <2>4 DEF Gone, HoldsFile, Written
  <2>6. OpInv(t)'
    BY SMTT(30), <1>1, <1>3, <2>3 DEF OpInv, NoOp
  <2>7. ASSUME NEW u \in Tasks \ {t} PROVE OpInv(u)'
    BY SMTT(30), <1>2, <1>3, <2>2, <2>3, <2>4 DEF OpInv, HoldsFile, T, NoOp, Written
  <2> QED  BY Zenon, <1>1, <1>3, <2>3, <2>4, <2>5, <2>6, <2>7, TablesKept DEF FdTypes, Written
<1> QED  BY Zenon, <1>4, <1>5

LEMMA PipeUndoInv ==
  ASSUME FdInv, NEW t \in Tasks, PipeUndo(t) PROVE FdInv'
<1>1. Runs(t, "pipe_undo") /\ FdTypes /\ failed \subseteq 1..made /\ made \in Nat
  BY Zenon DEF PipeUndo, FdInv, FdTypes
<1>2. /\ T(t) \in Procs /\ fd_call[t].pc = "pipe_undo"
      /\ Gone /\ OpInv(t) /\ \A u \in Tasks : OpInv(u)
  BY Zenon, <1>1, RunsIn
<1> DEFINE f == fd_call[t].file
           i == fd_call[t].fd
<1>3. /\ failed' = failed \cup {f} /\ fd_call' = [fd_call EXCEPT ![t] = NoOp]
      /\ UNCHANGED <<tableOf, made, copied, sharing>>
  BY Zenon DEF PipeUndo
<1>4. /\ f \in 1..made
      /\ \A p \in Procs, fd \in Slots :
           fd_table[p][fd] = f => f \in copied \/ (p = T(t) /\ fd = i)
  BY SMTT(30), <1>1, <1>2 DEF OpInv, HoldsFile
<1> HIDE DEF f, i
<1>5. DOMAIN fd_call' = Tasks /\ fd_call'[t] = NoOp /\ \A u \in Tasks \ {t} : fd_call'[u] = fd_call[u]
  BY Zenon, <1>1, <1>3 DEF FdTypes
<1>6. failed' \subseteq 1..made
  BY Zenon, <1>1, <1>3, <1>4
<1>7. CASE fd_table[T(t)][i] = 0
  <2>1. panicked' # "none" /\ UNCHANGED fd_table
    BY Zenon, <1>7 DEF PipeUndo, i
  <2> QED  BY Zenon, <1>1, <1>3, <1>5, <1>6, <2>1, TablesKept DEF FdTypes
<1>8. CASE fd_table[T(t)][i] # 0
  <2>1. Writes(T(t), i, 0)
    BY Zenon, <1>8 DEF PipeUndo, remove, i, Writes
  <2>2. Written(T(t), i, 0)
    BY <1>1, <1>2, <1>3, <2>1, WriteEntry
  <2>3. Gone'
    <3>1. \A p \in Procs, fd \in Slots : f \notin copied => fd_table'[p][fd] # f
      BY SMTT(30), <1>4, <2>2 DEF Written
    <3>2. \A g \in failed \ copied : \A p \in Procs, fd \in Slots : fd_table'[p][fd] # g
      BY <1>1, <1>2, <2>2 DEF Gone, HoldsFile, Written
    <3> QED  BY Zenon, <1>3, <3>1, <3>2 DEF Gone, HoldsFile
  <2>4. OpInv(t)'
    BY SMTT(30), <1>1, <1>3, <1>5 DEF OpInv, NoOp
  <2>5. ASSUME NEW u \in Tasks \ {t} PROVE OpInv(u)'
    <3>1. fd_call[u].pc = "pipe_write" => fd_call[u].file2 # f
      BY Zenon, <1>2 DEF OpInv, f
    <3> QED  BY SMTT(30), <1>2, <1>3, <1>5, <2>2, <3>1 DEF OpInv, HoldsFile, T, NoOp, Written
  <2> QED  BY Zenon, <1>1, <1>3, <1>5, <1>6, <2>2, <2>3, <2>4, <2>5, TablesKept DEF FdTypes, Written
<1> QED  BY Zenon, <1>7, <1>8

LEMMA CloneInv ==
  ASSUME FdInv, NEW t \in Tasks, NEW q \in Procs, NEW shared \in BOOLEAN,
         CloneFiles(t, q, shared)
  PROVE  FdInv'
<1>1. Runs(t, "user") /\ FdTypes /\ failed \subseteq 1..made /\ made \in Nat /\ SharedAsMeant
  BY Zenon DEF CloneFiles, FdInv, FdTypes
<1>2. /\ T(t) \in Procs /\ T(t) # NoProc /\ ProcOf[t] \in Procs /\ panicked = "none"
      /\ Gone /\ \A u \in Tasks : OpInv(u)
  BY Zenon, <1>1, RunsIn
<1>3. UNCHANGED <<made, fd_call, panicked, failed>> /\ tableOf[q] = NoProc
  BY Zenon DEF CloneFiles
<1>4. CASE shared
  <2>1. /\ tableOf' = [tableOf EXCEPT ![q] = T(t)]
        /\ sharing' = [sharing EXCEPT ![q] = sharing[ProcOf[t]]]
        /\ UNCHANGED <<fd_table, copied>>
    BY Zenon, <1>4 DEF CloneFiles
  <2>2. FdTypes'
    BY Zenon, <1>1, <1>2, <1>3, <2>1 DEF FdTypes
  <2>3. SharedAsMeant'
    BY Zenon, <1>1, <1>2, <2>1 DEF FdTypes, SharedAsMeant, T
  <2>4. \A u \in Tasks : T(u) # NoProc => T(u)' = T(u)
    BY Zenon, <1>1, <1>3, <2>1, FdAssumption DEF FdTypes, T
  <2>5. ASSUME NEW u \in Tasks PROVE OpInv(u)'
    BY SMTT(30), <1>2, <1>3, <2>1, <2>4, FdAssumption DEF OpInv, HoldsFile
  <2> QED  BY Zenon, <1>1, <1>2, <1>3, <2>1, <2>2, <2>3, <2>5 DEF FdInv, Gone, HoldsFile
<1>5. CASE ~shared
  <2>1. /\ tableOf' = [tableOf EXCEPT ![q] = q] /\ sharing' = [sharing EXCEPT ![q] = q]
        /\ fd_table' = [fd_table EXCEPT ![q] = fd_table[T(t)]]
        /\ copied' = copied \cup {fd_table[T(t)][fd] : fd \in Open(T(t))}
    BY Zenon, <1>5 DEF CloneFiles
  <2>2. FdTypes'
    BY Zenon, <1>1, <1>2, <1>3, <2>1 DEF FdTypes
  <2>3. SharedAsMeant'
    BY Zenon, <1>1, <1>2, <2>1 DEF FdTypes, SharedAsMeant
  <2>4. \A u \in Tasks : T(u) # NoProc => T(u)' = T(u)
    BY Zenon, <1>1, <1>3, <2>1, FdAssumption DEF FdTypes, T
  <2>5. \A p \in Procs, fd \in Slots :
          \/ fd_table'[p][fd] = fd_table[p][fd]
          \/ fd_table'[p][fd] = fd_table[T(t)][fd] /\ fd_table[T(t)][fd] \in copied' \cup {0}
    BY Zenon, <1>1, <1>2, <2>1 DEF FdTypes, Open
  <2>6. copied \subseteq copied'
    BY Zenon, <2>1
  <2>7. Gone'
    BY SMTT(30), <1>1, <1>2, <1>3, <2>5, <2>6 DEF Gone, HoldsFile
  <2>8. ASSUME NEW u \in Tasks PROVE OpInv(u)'
    BY SMTT(30), <1>1, <1>2, <1>3, <2>4, <2>5, <2>6, FdAssumption DEF OpInv, HoldsFile
  <2> QED  BY Zenon, <1>1, <1>3, <2>2, <2>3, <2>7, <2>8 DEF FdInv
<1> QED  BY Zenon, <1>4, <1>5

LEMMA ExitClearInv ==
  ASSUME FdInv, NEW t \in Tasks, ExitClear(t) PROVE FdInv'
<1>1. Runs(t, "user") /\ FdTypes /\ failed \subseteq 1..made /\ made \in Nat /\ SharedAsMeant
  BY Zenon DEF ExitClear, FdInv, FdTypes
<1>2. /\ T(t) \in Procs /\ ProcOf[t] \in Procs
      /\ Gone /\ \A u \in Tasks : OpInv(u)
  BY Zenon, <1>1, RunsIn
<1>3. /\ fd_table' = [fd_table EXCEPT ![T(t)] = Empty]
      /\ tableOf' = [tableOf EXCEPT ![ProcOf[t]] = NoProc]
      /\ UNCHANGED <<made, fd_call, panicked, copied, failed, sharing>>
  BY Zenon DEF ExitClear
<1>4. Empty \in [Slots -> Nat] /\ \A fd \in Slots : Empty[fd] = 0
  BY Zenon DEF Empty
<1>5. /\ fd_table' \in [Procs -> [Slots -> Nat]]
      /\ \A p \in Procs, fd \in Slots : fd_table'[p][fd] = fd_table[p][fd] \/ fd_table'[p][fd] = 0
  BY Zenon, <1>1, <1>2, <1>3, <1>4 DEF FdTypes
<1>6. FdTypes'
  BY SMTT(30), <1>1, <1>2, <1>3, <1>5 DEF FdTypes
<1>7. SharedAsMeant'
  BY Zenon, <1>1, <1>2, <1>3 DEF FdTypes, SharedAsMeant
<1>8. \A u \in Tasks : fd_call[u].pc # "user" => T(u)' = T(u)
  BY Zenon, <1>1, <1>3, FdAssumption DEF ExitClear, FdTypes, T
<1>9. Gone'
  BY <1>1, <1>2, <1>3, <1>5 DEF Gone, HoldsFile
<1>10. ASSUME NEW u \in Tasks PROVE OpInv(u)'
  BY SMTT(30), <1>1, <1>2, <1>3, <1>5, <1>8 DEF OpInv, HoldsFile
<1> QED  BY Zenon, <1>1, <1>3, <1>6, <1>7, <1>9, <1>10 DEF FdInv

(* Every call, a panic included, preserves the invariant.                  *)
THEOREM FdSpecInv == FdSpec => []FdInv
<1>1. FdInv /\ [FdNext]_fdVars => FdInv'
  <2> SUFFICES ASSUME FdInv, [FdNext]_fdVars PROVE FdInv'
    OBVIOUS
  <2>1. CASE UNCHANGED fdVars
    BY SMTT(30), <2>1 DEF fdVars, FdInv, FdTypes, SharedAsMeant, Gone, OpInv, HoldsFile, T
  <2>2. ASSUME NEW t \in Tasks, FdStep(t) PROVE FdInv'
    BY Zenon, <2>2, OpenFileInv, CloseInv, DupGetInv, DupAddInv, Dup2Inv, PipeReadInv,
       PipeWriteInv, PipeUndoInv, CloneInv, ExitClearInv DEF FdStep
  <2> QED  BY Zenon, <2>1, <2>2 DEF FdNext
<1> QED  BY FdInitInv, <1>1, PTL DEF FdSpec

(* Processes share a table exactly when the clones between them asked for  *)
(* it.                                                                     *)
THEOREM TablesAreIsolated == FdSpec => []Isolation
<1>1. FdInv => Isolation
  BY Zenon DEF FdInv, SharedAsMeant, Isolation
<1> QED  BY FdSpecInv, <1>1, PTL

(* The read end of a pipe2 that failed is in no table, unless a dup or a   *)
(* clone has copied it meanwhile, however other threads use the table.     *)
THEOREM FailedPipesAreGone == FdSpec => []FailedPipeGone
<1>1. FdInv => FailedPipeGone
  BY Zenon DEF FdInv, Gone, HoldsFile, FailedPipeGone
<1> QED  BY FdSpecInv, <1>1, PTL

-----------------------------------------------------------------------------
(***************************************************************************)
(* Mounts: a mount that passes the test finds no entry of its path, and    *)
(* then the mounts about to add one are at most the threads.               *)
(***************************************************************************)
MountInv == MountTypeOK /\ StackedOnlyByRace

LEMMA PushingFinite ==
  ASSUME NEW p
  PROVE  /\ IsFiniteSet(Pushing(p)) /\ Cardinality(Pushing(p)) \in Nat
         /\ Cardinality(Pushing(p)) <= Cardinality(Mounters) /\ Cardinality(Mounters) \in Nat
<1>1. IsFiniteSet(Mounters) /\ Pushing(p) \in SUBSET Mounters
  BY Zenon, MountAssumption DEF Pushing
<1> QED
  BY Zenon, <1>1, FS_Subset, FS_CardinalityType

LEMMA NoMountType == NoMount \in [pc : MountPCs, path : Points \cup {NoPath}]
  BY Zenon DEF NoMount, MountPCs

LEMMA MountInitInv == MountInit => MountInv
<1> SUFFICES ASSUME MountInit PROVE MountInv
  OBVIOUS
<1>1. MountTypeOK
  BY Zenon, NoMountType DEF MountInit, MountTypeOK, NoMount
<1>2. \A p \in Points : Pushing(p) = {}
  BY Zenon DEF MountInit, Pushing, NoMount
<1>3. StackedOnlyByRace
  <2> SUFFICES ASSUME NEW p \in Points
               PROVE  MOUNTED[p] + Cardinality(Pushing(p)) <= Cardinality(Mounters)
    BY Zenon DEF StackedOnlyByRace
  <2>1. MOUNTED[p] = 0
    BY Zenon DEF MountInit
  <2> QED
    BY <2>1, PushingFinite
<1> QED
  BY Zenon, <1>1, <1>3 DEF MountInv

(* A call that goes to another step, or begins or ends, with no entry      *)
(* added, and no more mounts about to add one.                             *)
LEMMA MountStepInv ==
  ASSUME MountInv, NEW t \in Mounters, NEW c \in [pc : MountPCs, path : Points \cup {NoPath}],
         mounting' = [mounting EXCEPT ![t] = c], c.pc # "user" => c.path \in Points,
         c.pc # "push", UNCHANGED dirs, MOUNTED' \in [Points -> Nat],
         \A p \in Points : MOUNTED'[p] <= MOUNTED[p]
                             \/ (MOUNTED'[p] = MOUNTED[p] + 1 /\ t \in Pushing(p))
  PROVE  MountInv'
<1>1. MountTypeOK'
  BY Zenon DEF MountInv, MountTypeOK
<1>2. ASSUME NEW p \in Points
      PROVE  MOUNTED'[p] + Cardinality(Pushing(p)') <= Cardinality(Mounters)
  <2>1. Pushing(p)' = Pushing(p) \ {t}
    BY Zenon DEF Pushing, MountInv, MountTypeOK
  <2>2. /\ IsFiniteSet(Pushing(p)) /\ Cardinality(Pushing(p)) \in Nat
        /\ Cardinality(Mounters) \in Nat
    BY Zenon, PushingFinite
  <2>3. Cardinality(Pushing(p)') =
          IF t \in Pushing(p) THEN Cardinality(Pushing(p)) - 1 ELSE Cardinality(Pushing(p))
    BY Zenon, <2>1, <2>2, FS_RemoveElement
  <2>4. MOUNTED[p] \in Nat /\ MOUNTED'[p] \in Nat
        /\ MOUNTED[p] + Cardinality(Pushing(p)) <= Cardinality(Mounters)
    BY Zenon DEF MountInv, MountTypeOK, StackedOnlyByRace
  <2>5. MOUNTED'[p] <= MOUNTED[p] \/ (MOUNTED'[p] = MOUNTED[p] + 1 /\ t \in Pushing(p))
    OBVIOUS
  <2> QED
    BY <2>2, <2>3, <2>4, <2>5
<1> QED
  BY Zenon, <1>1, <1>2 DEF MountInv, StackedOnlyByRace

LEMMA MountToInv ==
  ASSUME MountInv, NEW t \in Mounters, UNCHANGED <<dirs, MOUNTED>>,
         NEW l \in MountPCs \ {"push"}, mounting[t].pc # "user",
         MountTo(t, l) \/ MountReturn(t)
  PROVE  MountInv'
<1>1. MOUNTED \in [Points -> Nat] /\ mounting[t] \in [pc : MountPCs, path : Points \cup {NoPath}]
      /\ mounting[t].path \in Points
  BY Zenon DEF MountInv, MountTypeOK
<1>2. MOUNTED' \in [Points -> Nat] /\ \A p \in Points : MOUNTED'[p] <= MOUNTED[p]
  BY <1>1
<1>3. CASE MountTo(t, l)
  <2> DEFINE c == [mounting[t] EXCEPT !.pc = l]
  <2>1. mounting' = [mounting EXCEPT ![t] = c]
    BY Zenon, <1>3 DEF MountTo
  <2>2. c \in [pc : MountPCs, path : Points \cup {NoPath}] /\ c.pc = l /\ c.path \in Points
    BY Zenon, <1>1
  <2> HIDE DEF c
  <2> QED
    BY Zenon, <1>2, <2>1, <2>2, MountStepInv
<1>4. CASE MountReturn(t)
  <2>1. NoMount.pc = "user"
    BY Zenon DEF NoMount
  <2> QED
    BY Zenon, <1>2, <1>4, <2>1, NoMountType, MountStepInv DEF MountReturn
<1> QED
  BY Zenon, <1>3, <1>4

LEMMA MountBeginInv ==
  ASSUME MountInv, NEW t \in Mounters, NEW p \in Points, SysMount(t, p) \/ SysUmount(t, p)
  PROVE  MountInv'
<1>1. UNCHANGED <<dirs, MOUNTED>>
  BY Zenon DEF SysMount, SysUmount
<1>2. MOUNTED \in [Points -> Nat]
  BY Zenon DEF MountInv, MountTypeOK
<1>3. MOUNTED' \in [Points -> Nat] /\ \A q \in Points : MOUNTED'[q] <= MOUNTED[q]
  BY <1>1, <1>2
<1>4. PICK c \in [pc : {"exists", "lookup"}, path : {p}] : mounting' = [mounting EXCEPT ![t] = c]
  <2>1. CASE SysMount(t, p)
    <3>1. mounting' = [mounting EXCEPT ![t] = [NoMount EXCEPT !.pc = "exists", !.path = p]]
      BY Zenon, <2>1 DEF SysMount
    <3>2. [NoMount EXCEPT !.pc = "exists", !.path = p]
            \in [pc : {"exists", "lookup"}, path : {p}]
      BY Zenon DEF NoMount
    <3> QED
      BY Zenon, <3>1, <3>2
  <2>2. CASE SysUmount(t, p)
    <3>1. mounting' = [mounting EXCEPT ![t] = [NoMount EXCEPT !.pc = "lookup", !.path = p]]
      BY Zenon, <2>2 DEF SysUmount
    <3>2. [NoMount EXCEPT !.pc = "lookup", !.path = p]
            \in [pc : {"exists", "lookup"}, path : {p}]
      BY Zenon DEF NoMount
    <3> QED
      BY Zenon, <3>1, <3>2
  <2> QED
    BY Zenon, <2>1, <2>2
<1>5. c \in [pc : MountPCs, path : Points \cup {NoPath}] /\ c.pc # "push" /\ c.path \in Points
  BY Zenon, <1>4 DEF MountPCs
<1> QED
  BY Zenon, <1>1, <1>3, <1>4, <1>5, MountStepInv

LEMMA MountCheckInv ==
  ASSUME MountInv, NEW t \in Mounters, MountCheck(t)
  PROVE  MountInv'
<1> DEFINE q == mounting[t].path
<1>1. /\ mounting[t].pc = "check" /\ UNCHANGED <<dirs, MOUNTED>>
      /\ IF check_mounted(q) THEN MountReturn(t) ELSE MountTo(t, "push")
  BY Zenon DEF MountCheck
<1>2. q \in Points /\ MOUNTED \in [Points -> Nat]
  BY Zenon, <1>1 DEF MountInv, MountTypeOK
<1>3. CASE check_mounted(q)
  BY Zenon, <1>1, <1>3, MountToInv DEF MountPCs
<1>4. CASE ~check_mounted(q)
  <2>1. MOUNTED[q] = 0
    BY <1>2, <1>4, MountAssumption DEF check_mounted
  <2>2. mounting' = [mounting EXCEPT ![t].pc = "push"]
    BY Zenon, <1>1, <1>4 DEF MountTo
  <2>3. MountTypeOK'
    BY Zenon, <1>1, <1>2, <2>2 DEF MountInv, MountTypeOK, MountPCs
  <2>4. ASSUME NEW p \in Points
        PROVE  MOUNTED'[p] + Cardinality(Pushing(p)') <= Cardinality(Mounters)
    <3>1. CASE p = q
      <4>1. Pushing(p)' \in SUBSET Mounters
        BY Zenon DEF Pushing
      <4>2. /\ Cardinality(Pushing(p)') <= Cardinality(Mounters)
            /\ Cardinality(Pushing(p)') \in Nat /\ Cardinality(Mounters) \in Nat
        BY Zenon, <4>1, MountAssumption, FS_Subset, FS_CardinalityType
      <4> QED
        BY <1>1, <2>1, <3>1, <4>2
    <3>2. CASE p # q
      <4>1. Pushing(p)' = Pushing(p)
        BY Zenon, <1>1, <2>2, <3>2 DEF Pushing, MountInv, MountTypeOK
      <4> QED
        BY Zenon, <1>1, <4>1 DEF MountInv, StackedOnlyByRace
    <3> QED
      BY Zenon, <3>1, <3>2
  <2> QED
    BY Zenon, <2>3, <2>4 DEF MountInv, StackedOnlyByRace
<1> QED
  BY Zenon, <1>3, <1>4

LEMMA MountPushInv ==
  ASSUME MountInv, NEW t \in Mounters, MountPush(t) \/ Umount(t)
  PROVE  MountInv'
<1> DEFINE q == mounting[t].path
<1>1. /\ mounting[t].pc \in {"push", "umount"} /\ UNCHANGED dirs /\ MountReturn(t)
  BY Zenon DEF MountPush, Umount
<1>2. q \in Points /\ MOUNTED \in [Points -> Nat]
  BY Zenon, <1>1 DEF MountInv, MountTypeOK
<1>3. mounting' = [mounting EXCEPT ![t] = NoMount] /\ NoMount.pc = "user"
  BY Zenon, <1>1 DEF MountReturn, NoMount
<1>4. MOUNTED' \in [Points -> Nat]
  BY <1>2 DEF MountPush, Umount
<1>5. ASSUME NEW p \in Points
      PROVE  MOUNTED'[p] <= MOUNTED[p] \/ (MOUNTED'[p] = MOUNTED[p] + 1 /\ t \in Pushing(p))
  <2>1. CASE MountPush(t)
    BY <1>2, <2>1 DEF MountPush, Pushing
  <2>2. CASE Umount(t)
    BY <1>2, <2>2 DEF Umount
  <2> QED
    BY Zenon, <2>1, <2>2
<1> QED
  BY Zenon, <1>1, <1>3, <1>4, <1>5, NoMountType, MountStepInv

LEMMA MountNextInv == MountInv /\ [MountNext]_mountVars => MountInv'
<1> SUFFICES ASSUME MountInv, [MountNext]_mountVars PROVE MountInv'
  OBVIOUS
<1>1. ASSUME NEW t \in Mounters, MountExists(t) PROVE MountInv'
  <2>1. MountTo(t, "check") \/ MountReturn(t)
    BY Zenon, <1>1 DEF MountExists
  <2> QED
    BY Zenon, <1>1, <2>1, MountToInv DEF MountExists, MountPCs
<1>2. ASSUME NEW t \in Mounters, UmountExists(t) PROVE MountInv'
  <2>1. MountTo(t, "umount") \/ MountReturn(t)
    BY Zenon, <1>2 DEF UmountExists
  <2> QED
    BY Zenon, <1>2, <2>1, MountToInv DEF UmountExists, MountPCs
<1>3. ASSUME NEW p \in Points, Mkdir(p) \/ Rmdir(p) PROVE MountInv'
  BY Zenon, <1>3 DEF Mkdir, Rmdir, MountInv, MountTypeOK, StackedOnlyByRace, Pushing
<1>4. CASE UNCHANGED mountVars
  BY Zenon, <1>4 DEF mountVars, MountInv, MountTypeOK, StackedOnlyByRace, Pushing
<1> QED
  BY Zenon, <1>1, <1>2, <1>3, <1>4, MountBeginInv, MountCheckInv, MountPushInv DEF MountNext, MountStep

(* However often threads mount and unmount, the entries of a path in       *)
(* MOUNTED and the mounts between the test of sys_mount and its push are   *)
(* never more than the threads: only mounts that race stack.               *)
THEOREM StackedByRaces == MountSpec => []StackedOnlyByRace
<1>1. MountSpec => []MountInv
  BY MountInitInv, MountNextInv, PTL DEF MountSpec
<1>2. MountInv => StackedOnlyByRace
  BY Zenon DEF MountInv
<1> QED
  BY <1>1, <1>2, PTL

-----------------------------------------------------------------------------
(***************************************************************************)
(* Hard links                                                              *)
(***************************************************************************)
LinkCalls == [pc : PCs, old : Paths \cup {None}, new : Paths \cup {None},
          src : Paths \cup {None}, dst : Paths \cup {None}, result : Results]

Types ==
  /\ links \in [Paths -> Paths \cup {None}]
  /\ ref_counts \in [Paths -> Nat]
  /\ call \in [Threads -> LinkCalls]

(* The paths that a call has made before it changes the table.             *)
Made(c) ==
  /\ c.pc = "old" => c.old \in Paths /\ c.new \in Paths
  /\ c.pc = "new" => c.new \in Paths
  /\ c.pc = "path" => c.old \in Paths
  /\ c.pc \in {"new", "check", "insert"} => c.dst \in Paths
  /\ c.pc \in {"check", "insert", "stat", "remove", "rmdir"} => c.src \in Paths

Inv == Types /\ (\A t \in Threads : Made(call[t])) /\ CountsLinks

-----------------------------------------------------------------------------
LEMMA IdleType ==
  ASSUME NEW r \in Results
  PROVE  [Idle EXCEPT !.result = r] \in LinkCalls /\ Made([Idle EXCEPT !.result = r])
  BY Zenon DEF Idle, LinkCalls, PCs, Made

LEMMA InitInv == Init => Inv
<1> SUFFICES ASSUME Init PROVE Inv
  OBVIOUS
<1>1. Idle \in LinkCalls /\ Made(Idle)
  BY Zenon DEF Idle, LinkCalls, PCs, Results, Made
<1>2. Types /\ \A t \in Threads : Made(call[t])
  BY Zenon, <1>1 DEF Init, Types
<1>3. ASSUME NEW p \in Paths PROVE {s \in Paths : links[s] = p} = {}
  BY Zenon, LinksAssumption DEF Init
<1>4. CountsLinks
  BY Zenon, <1>3, FS_EmptySet DEF Init, CountsLinks
<1> QED  BY Zenon, <1>2, <1>4 DEF Inv

(* A step that leaves the table alone.                                     *)
LEMMA CallInv ==
  ASSUME Inv, NEW t \in Threads, NEW c \in LinkCalls, Made(c), call' = [call EXCEPT ![t] = c],
         UNCHANGED table
  PROVE  Inv'
<1>1. Types'
  BY Zenon DEF Inv, Types, table
<1>2. \A u \in Threads : Made(call'[u])
  BY Zenon DEF Inv, Types
<1>3. CountsLinks'
  BY Zenon DEF Inv, CountsLinks, table
<1> QED  BY Zenon, <1>1, <1>2, <1>3 DEF Inv, Made

LEMMA RealPath ==
  ASSUME Inv, NEW p \in Paths PROVE real_path(p) \in Paths
  BY Zenon DEF Inv, Types, real_path

LEMMA CallsInv ==
  ASSUME Inv, NEW t \in Threads,
         \/ \E old, new \in Named : Link(t, old, new)
         \/ LinkOld(t) \/ LinkNew(t) \/ LinkCheck(t)
         \/ \E p \in Named : Unlink(t, p)
         \/ UnlinkPath(t) \/ UnlinkStat(t) \/ UnlinkDir(t)
  PROVE  Inv'
<1>1. call[t] \in LinkCalls /\ Made(call[t])
  BY Zenon DEF Inv, Types
<1>2. ASSUME NEW old \in Named, NEW new \in Named, Link(t, old, new) PROVE Inv'
  <2> DEFINE c == [Idle EXCEPT !.pc = "old", !.old = old, !.new = new]
  <2>1. c \in LinkCalls /\ Made(c)
    BY Zenon, LinksAssumption DEF Idle, LinkCalls, PCs, Results, Made
  <2> QED  BY Zenon, <1>2, <2>1, CallInv DEF Link
<1>3. CASE LinkOld(t)
  <2> DEFINE d == real_path(call[t].old)
             c == [call[t] EXCEPT !.pc = "new", !.old = None, !.dst = d]
  <2>1. d \in Paths /\ call[t].new \in Paths
    BY Zenon, <1>1, <1>3, RealPath DEF LinkOld, Made
  <2>2. call' = [call EXCEPT ![t] = c]
    BY Zenon, <1>3 DEF LinkOld
  <2> HIDE DEF d
  <2>3. c \in LinkCalls /\ Made(c)
    BY Zenon, <1>1, <2>1 DEF LinkCalls, PCs, Made
  <2> QED  BY Zenon, <1>3, <2>2, <2>3, CallInv DEF LinkOld
<1>4. CASE LinkNew(t)
  <2> DEFINE d == real_path(call[t].new)
             c == [call[t] EXCEPT !.pc = "check", !.new = None, !.src = d]
  <2>1. d \in Paths /\ call[t].dst \in Paths
    BY Zenon, <1>1, <1>4, RealPath DEF LinkNew, Made
  <2>2. call' = [call EXCEPT ![t] = c]
    BY Zenon, <1>4 DEF LinkNew
  <2> HIDE DEF d
  <2>3. c \in LinkCalls /\ Made(c)
    BY Zenon, <1>1, <2>1 DEF LinkCalls, PCs, Made
  <2> QED  BY Zenon, <1>4, <2>2, <2>3, CallInv DEF LinkNew
<1>5. ASSUME NEW p \in Named, Unlink(t, p) PROVE Inv'
  <2> DEFINE c == [Idle EXCEPT !.pc = "path", !.old = p]
  <2>1. c \in LinkCalls /\ Made(c)
    BY Zenon, LinksAssumption DEF Idle, LinkCalls, PCs, Results, Made
  <2> QED  BY Zenon, <1>5, <2>1, CallInv DEF Unlink
<1>6. CASE UnlinkPath(t)
  <2> DEFINE d == real_path(call[t].old)
             c(l) == [call[t] EXCEPT !.pc = l, !.old = None, !.src = d]
  <2>1. d \in Paths
    BY Zenon, <1>1, <1>6, RealPath DEF UnlinkPath, Made
  <2>2. PICK l \in {"stat", "rmdir"} : call' = [call EXCEPT ![t] = c(l)]
    BY Zenon, <1>6 DEF UnlinkPath
  <2> HIDE DEF d
  <2>3. c(l) \in LinkCalls /\ Made(c(l))
    BY Zenon, <1>1, <2>1 DEF LinkCalls, PCs, Made
  <2> QED  BY Zenon, <1>6, <2>2, <2>3, CallInv DEF UnlinkPath
<1>7. ASSUME NEW r \in Results, Return(t, r), UNCHANGED table PROVE Inv'
  BY Zenon, <1>7, IdleType, CallInv DEF Return
<1>8. ASSUME NEW l \in {"insert", "remove"}, Goto(t, l), UNCHANGED table,
             l = "insert" => call[t].pc = "check", l = "remove" => call[t].pc = "stat"
      PROVE  Inv'
  <2> DEFINE c == [call[t] EXCEPT !.pc = l]
  <2>1. c \in LinkCalls /\ Made(c)
    BY Zenon, <1>1, <1>8 DEF LinkCalls, PCs, Made
  <2> QED  BY Zenon, <1>8, <2>1, CallInv DEF Goto
<1>9. CASE LinkCheck(t)
  BY Zenon, <1>7, <1>8, <1>9 DEF LinkCheck, Results
<1>10. CASE UnlinkStat(t)
  BY Zenon, <1>7, <1>8, <1>10 DEF UnlinkStat, Results
<1>11. CASE UnlinkDir(t)
  BY Zenon, <1>7, <1>11 DEF UnlinkDir, Results
<1> QED  BY Zenon, <1>2, <1>3, <1>4, <1>5, <1>6, <1>9, <1>10, <1>11

-----------------------------------------------------------------------------
(* The entry of one path changes *)

(* The paths that the map f links to p.                                    *)
To(f, p) == {s \in Paths : f[s] = p}

LEMMA ToFinite ==
  ASSUME NEW f, NEW p PROVE IsFiniteSet(To(f, p)) /\ Cardinality(To(f, p)) \in Nat
<1>1. IsFiniteSet(To(f, p))
  BY Zenon, LinksAssumption, FS_Subset DEF To
<1> QED  BY Zenon, <1>1, FS_CardinalityType

LEMMA ToChanged ==
  ASSUME links \in [Paths -> Paths \cup {None}], NEW src \in Paths, NEW x,
         links[src] # x, links' = [links EXCEPT ![src] = x], NEW p \in Paths
  PROVE  /\ p = x => Cardinality(To(links', p)) = Cardinality(To(links, p)) + 1
         /\ p = links[src] => Cardinality(To(links', p)) = Cardinality(To(links, p)) - 1
         /\ p # x /\ p # links[src] => Cardinality(To(links', p)) = Cardinality(To(links, p))
<1>1. IsFiniteSet(To(links, p))
  BY Zenon, ToFinite
<1>2. ASSUME p = x PROVE Cardinality(To(links', p)) = Cardinality(To(links, p)) + 1
  <2>1. To(links', p) = To(links, p) \cup {src} /\ src \notin To(links, p)
    BY Zenon, <1>2 DEF To
  <2> QED  BY Zenon, <1>1, <2>1, FS_AddElement
<1>3. ASSUME p = links[src] PROVE Cardinality(To(links', p)) = Cardinality(To(links, p)) - 1
  <2>1. To(links', p) = To(links, p) \ {src} /\ src \in To(links, p)
    BY Zenon, <1>3 DEF To
  <2> QED  BY Zenon, <1>1, <2>1, FS_RemoveElement
<1>4. ASSUME p # x, p # links[src] PROVE Cardinality(To(links', p)) = Cardinality(To(links, p))
  <2>1. To(links', p) = To(links, p)
    BY Zenon, <1>4 DEF To
  <2> QED  BY Zenon, <2>1
<1> QED  BY Zenon, <1>2, <1>3, <1>4

(* A path that is linked to has a count to give up.                        *)
LEMMA Counted ==
  ASSUME Inv, NEW src \in Paths, links[src] # None
  PROVE  links[src] \in Paths /\ ref_counts[links[src]] > 0
<1> DEFINE p == links[src]
<1>1. p \in Paths /\ ref_counts[p] \in Nat /\ ref_counts[p] = Cardinality(To(links, p))
  BY Zenon DEF Inv, Types, CountsLinks, To
<1>2. IsFiniteSet(To(links, p)) /\ To(links, p) # {}
  BY Zenon, ToFinite DEF To
<1>3. Cardinality(To(links, p)) # 0
  BY Zenon, <1>2, FS_EmptySet
<1> QED  BY <1>1, <1>3

LEMMA Decreased ==
  ASSUME NEW counts \in [Paths -> Nat], NEW p \in Paths, counts[p] > 0
  PROVE  /\ Decrease(counts, p) \in [Paths -> Nat]
         /\ \A q \in Paths : Decrease(counts, p)[q] = IF q = p THEN counts[q] - 1 ELSE counts[q]
<1>1. counts[p] \in Nat /\ counts[p] - 1 \in Nat
  <2>1. counts[p] \in Nat
    OBVIOUS
  <2> QED  BY <2>1
<1>2. Decrease(counts, p) = [counts EXCEPT ![p] = counts[p] - 1]
  <2>1. counts[p] # 0
    BY <1>1
  <2> QED  BY Zenon, <2>1, Zenon DEF Decrease
<1> QED  BY Zenon, <1>1, <1>2

(* The count of the old target goes down, and that of the new one up.      *)
LEMMA TableInv ==
  ASSUME Inv, NEW t \in Threads, NEW src \in Paths, NEW x \in Paths \cup {None},
         NEW r \in Results, Return(t, r), links[src] # x,
         links' = [links EXCEPT ![src] = x], ref_counts' \in [Paths -> Nat],
         \A p \in Paths : ref_counts'[p] = IF p = x THEN ref_counts[p] + 1
                                          ELSE IF p = links[src] THEN ref_counts[p] - 1
                                          ELSE ref_counts[p]
  PROVE  Inv'
<1>1. links \in [Paths -> Paths \cup {None}] /\ ref_counts \in [Paths -> Nat]
  BY Zenon DEF Inv, Types
<1>2. Types' /\ \A u \in Threads : Made(call[u])'
  <2> DEFINE c == [Idle EXCEPT !.result = r]
  <2>1. c \in LinkCalls /\ Made(c)
    BY Zenon, IdleType
  <2>2. call' = [call EXCEPT ![t] = c]
    BY Zenon DEF Return
  <2> HIDE DEF c
  <2>3. Types'
    BY Zenon, <1>1, <2>1, <2>2 DEF Inv, Types
  <2>4. ASSUME NEW u \in Threads PROVE Made(call'[u])
    BY Zenon, <2>1, <2>2 DEF Inv, Types
  <2> QED  BY Zenon, <2>3, <2>4 DEF Made
<1>3. ASSUME NEW p \in Paths PROVE ref_counts'[p] = Cardinality(To(links', p))
  <2>1. ref_counts[p] = Cardinality(To(links, p)) /\ ref_counts[p] \in Nat
    BY Zenon, <1>1 DEF Inv, CountsLinks, To
  <2> DEFINE n == Cardinality(To(links, p))
             m == Cardinality(To(links', p))
  <2>2. /\ p = x => m = n + 1
        /\ p = links[src] => m = n - 1
        /\ p # x /\ p # links[src] => m = n
    BY Zenon, <1>1, ToChanged
  <2> HIDE DEF n, m
  <2>3. ref_counts'[p] = m
    BY Zenon, <2>1, <2>2 DEF n
  <2> QED  BY Zenon, <2>3 DEF m
<1>4. CountsLinks'
  BY Zenon, <1>3 DEF CountsLinks, To
<1> QED  BY Zenon, <1>2, <1>4 DEF Inv

LEMMA LinkInsertInv ==
  ASSUME Inv, NEW t \in Threads, LinkInsert(t)
  PROVE  Inv'
<1> DEFINE src == call[t].src
           dst == call[t].dst
           was == links[src]
           less == IF was = None THEN ref_counts ELSE Decrease(ref_counts, was)
<1>1. src \in Paths /\ dst \in Paths /\ call[t].pc = "insert"
  BY Zenon DEF LinkInsert, Inv, Made
<1>2. links' = [links EXCEPT ![src] = dst] /\ Return(t, "ok")
  BY Zenon DEF LinkInsert
<1>3. links \in [Paths -> Paths \cup {None}] /\ ref_counts \in [Paths -> Nat]
  BY Zenon DEF Inv, Types
<1>4. CASE was = dst
  <2>1. links' = links /\ ref_counts' = ref_counts
    BY Zenon, <1>1, <1>2, <1>3, <1>4 DEF LinkInsert
  <2> QED  BY Zenon, <1>2, <2>1, IdleType, CallInv DEF Return, Results, table
<1>5. CASE was # dst
  <2>1. ref_counts' = [less EXCEPT ![dst] = @ + 1]
    BY Zenon, <1>5 DEF LinkInsert
  <2>2. /\ less \in [Paths -> Nat]
        /\ \A p \in Paths : less[p] = IF p = was THEN ref_counts[p] - 1 ELSE ref_counts[p]
    <3>1. CASE was = None
      BY Zenon, <1>3, <3>1, LinksAssumption
    <3>2. CASE was # None
      <4>1. was \in Paths /\ ref_counts[was] > 0 /\ ref_counts[was] \in Nat
        BY Zenon, <1>1, <1>3, <3>2, Counted
      <4>2. less = Decrease(ref_counts, was)
        BY Zenon, <3>2
      <4> QED  BY <1>3, <4>1, <4>2, Decreased
    <3> QED  BY Zenon, <3>1, <3>2
  <2> HIDE DEF less
  <2>3. ref_counts' \in [Paths -> Nat]
    BY <1>1, <2>1, <2>2
  <2>4. \A p \in Paths : ref_counts'[p] = IF p = dst THEN ref_counts[p] + 1
                                          ELSE IF p = was THEN ref_counts[p] - 1
                                          ELSE ref_counts[p]
    BY Zenon, <1>1, <1>5, <2>1, <2>2
  <2>5. "ok" \in Results /\ dst \in Paths \cup {None}
    BY Zenon, <1>1 DEF Results
  <2> QED  BY Zenon, <1>1, <1>2, <1>5, <2>3, <2>4, <2>5, TableInv
<1> QED  BY Zenon, <1>4, <1>5

LEMMA UnlinkRemoveInv ==
  ASSUME Inv, NEW t \in Threads, UnlinkRemove(t)
  PROVE  Inv'
<1> DEFINE src == call[t].src
           was == links[src]
<1>1. src \in Paths /\ links \in [Paths -> Paths \cup {None}] /\ ref_counts \in [Paths -> Nat]
  BY Zenon DEF UnlinkRemove, Inv, Types, Made
<1>2. CASE was = None
  <2> DEFINE r == IF Removable(src) THEN "ok" ELSE "ENOENT"
  <2>1. Return(t, r) /\ r \in Results /\ UNCHANGED table
    BY Zenon, <1>2 DEF UnlinkRemove, Results
  <2> QED  BY Zenon, <2>1, IdleType, CallInv DEF Return
<1>3. CASE was # None
  <2>1. was \in Paths /\ ref_counts[was] > 0 /\ ref_counts[was] \in Nat
    BY Zenon, <1>1, <1>3, Counted
  <2>2. /\ links' = [links EXCEPT ![src] = None] /\ Return(t, "ok")
        /\ ref_counts' = Decrease(ref_counts, was)
    BY Zenon, <1>3 DEF UnlinkRemove
  <2>3. ref_counts' \in [Paths -> Nat]
    BY Zenon, <1>1, <2>1, <2>2, Decreased
  <2>4. \A p \in Paths : ref_counts'[p] = IF p = None THEN ref_counts[p] + 1
                                          ELSE IF p = was THEN ref_counts[p] - 1
                                          ELSE ref_counts[p]
    BY <1>1, <2>1, <2>2, LinksAssumption, Decreased
  <2>5. "ok" \in Results /\ None \in Paths \cup {None} /\ links[src] # None
    BY Zenon, <1>3 DEF Results
  <2> QED  BY Zenon, <1>1, <1>3, <2>2, <2>3, <2>4, <2>5, TableInv
<1> QED  BY Zenon, <1>2, <1>3

-----------------------------------------------------------------------------
LEMMA NextInv ==
  ASSUME Inv, [Next]_vars
  PROVE  Inv'
<1>1. CASE UNCHANGED vars
  BY Zenon, <1>1 DEF vars, table, Inv, Types, Made, CountsLinks
<1>2. ASSUME NEW t \in Threads, Step(t) PROVE Inv'
  BY Zenon, <1>2, CallsInv, LinkInsertInv, UnlinkRemoveInv DEF Step
<1>3. ASSUME NEW n, NEW what, Create(n, what) PROVE Inv'
  BY Zenon, <1>3 DEF Create, table, Inv, Types, Made, CountsLinks
<1> QED  BY Zenon, <1>1, <1>2, <1>3 DEF Next

(* The table of links and the counts agree in every state: each count is   *)
(* the number of links to its path, so decrease_ref_count never finds a    *)
(* link whose count is zero and a file goes with the last link to it.      *)
THEOREM CountsAreLinks == Spec => []CountsLinks
<1>1. Inv /\ [Next]_vars => Inv'
  BY Zenon, NextInv
<1>2. Inv => CountsLinks
  BY Zenon DEF Inv
<1> QED  BY InitInv, <1>1, <1>2, PTL DEF Spec

-----------------------------------------------------------------------------
(***************************************************************************)
(* Reading a directory                                                     *)
(***************************************************************************)
(* The entries that have gone into a buffer; the kept one has not yet.     *)
Taken == IF last_dirent = NoEntry THEN pos ELSE pos - 1

(* The buffer of the call that holds the lock.                             *)
Filled == IF owner = NoEntry THEN <<>> ELSE reader[owner].buf

(* s and then b are in the order of the directory, and not past entry k.   *)
Ordered(s, b, k) ==
  /\ s \in Seq(Nat) /\ b \in Seq(Nat)
  /\ \A x \in 1..Len(s) : s[x] <= k
  /\ \A y \in 1..Len(b) : b[y] <= k
  /\ \A x, y \in 1..Len(s) : x < y => s[x] < s[y]
  /\ \A x, y \in 1..Len(b) : x < y => b[x] < b[y]
  /\ \A x \in 1..Len(s), y \in 1..Len(b) : s[x] < b[y]

AllRead == pos = Len(Size) /\ last_dirent = NoEntry /\ Len(seen) = Len(Size)

ReaderCalls == [pc: {"user", "last", "read", "end"}, len: Nat, buf: Seq(Nat), offset: Nat,
                result: {"none", "zero", "some", "EINVAL", "EIO"}]

(* The call of thread t, which has a buffer while it holds the lock.       *)
ReaderOk(t) ==
  /\ reader[t] \in ReaderCalls
  /\ reader[t].pc \in {"read", "end"} <=> owner = t
  /\ owner # t \/ reader[t].offset = 0 => reader[t].buf = <<>>
  /\ owner # t => reader[t].offset = 0
  /\ reader[t].pc = "read" => last_dirent = NoEntry
  /\ reader[t].pc = "end" /\ last_dirent = NoEntry => pos = Len(Size)
  /\ reader[t].result = "zero" /\ ~unread => AllRead

DirInv ==
  /\ pos \in 0..Len(Size) /\ owner \in Readers \cup {NoEntry}
  /\ last_dirent # NoEntry => last_dirent = pos /\ pos > 0
  /\ DOMAIN reader = Readers /\ \A t \in Readers : ReaderOk(t)
  /\ Ordered(seen, Filled, Taken)
  /\ ~unread => Len(seen) + Len(Filled) = Taken

-----------------------------------------------------------------------------
LEMMA DirSizes == Len(Size) \in Nat /\ \A e \in 1..Len(Size) : Size[e] \in Nat \ {0}
BY DirAssumption

(* The next entry goes into the buffer.                                    *)
LEMMA OrderedAppend ==
  ASSUME NEW s, NEW b, NEW k \in Nat, Ordered(s, b, k)
  PROVE  Ordered(s, Append(b, k + 1), k + 1) /\ Len(Append(b, k + 1)) = Len(b) + 1
<1> DEFINE c == Append(b, k + 1)
<1>1. s \in Seq(Nat) /\ b \in Seq(Nat) /\ Len(b) \in Nat
  BY DEF Ordered
<1>2. c \in Seq(Nat) /\ Len(c) = Len(b) + 1 /\ c[Len(b) + 1] = k + 1
  BY <1>1
<1>3. \A y \in 1..Len(b) : c[y] = b[y]
  BY <1>1
<1> HIDE DEF c
<1>4. \A x \in 1..Len(s) : s[x] \in Nat /\ s[x] <= k
  BY <1>1 DEF Ordered
<1>5. \A y \in 1..Len(b) : b[y] \in Nat /\ b[y] <= k
  BY <1>1 DEF Ordered
<1>6. \A y \in 1..Len(c) : y \in 1..Len(b) \/ y = Len(b) + 1
  BY <1>1, <1>2
<1>7. \A y \in 1..Len(c) : c[y] <= k + 1
  BY <1>2, <1>3, <1>5, <1>6
<1>8. \A x, y \in 1..Len(c) : x < y => c[x] < c[y]
  <2> SUFFICES ASSUME NEW x \in 1..Len(c), NEW y \in 1..Len(c), x < y PROVE c[x] < c[y]
    OBVIOUS
  <2>1. x \in 1..Len(b)
    BY <1>1, <1>2
  <2>2. CASE y \in 1..Len(b)
    BY Zenon, <1>3, <2>1, <2>2 DEF Ordered
  <2>3. CASE y = Len(b) + 1
    BY <1>2, <1>3, <1>5, <2>1, <2>3
  <2> QED  BY Zenon, <1>6, <2>2, <2>3
<1>9. \A x \in 1..Len(s), y \in 1..Len(c) : s[x] < c[y]
  <2> SUFFICES ASSUME NEW x \in 1..Len(s), NEW y \in 1..Len(c) PROVE s[x] < c[y]
    OBVIOUS
  <2>2. CASE y \in 1..Len(b)
    BY Zenon, <1>3, <2>2 DEF Ordered
  <2>3. CASE y = Len(b) + 1
    BY <1>2, <1>4, <2>3
  <2> QED  BY Zenon, <1>6, <2>2, <2>3
<1>10. \A x \in 1..Len(s) : s[x] <= k + 1
  BY <1>4
<1>11. Ordered(s, c, k + 1)
  BY Zenon, <1>1, <1>2, <1>7, <1>8, <1>9, <1>10 DEF Ordered
<1> QED  BY Zenon, <1>2, <1>11 DEF c

(* The buffer is given to the program.                                     *)
LEMMA OrderedConcat ==
  ASSUME NEW s, NEW b, NEW k \in Nat, Ordered(s, b, k)
  PROVE  Ordered(s \o b, <<>>, k) /\ Len(s \o b) = Len(s) + Len(b)
<1> DEFINE c == s \o b
<1>1. s \in Seq(Nat) /\ b \in Seq(Nat) /\ Len(b) \in Nat /\ Len(s) \in Nat
  BY DEF Ordered
<1>2. c \in Seq(Nat) /\ Len(c) = Len(s) + Len(b)
  BY <1>1
<1>3. \A x \in 1..Len(s) : c[x] = s[x]
  BY <1>1
<1>4. \A x \in 1..Len(c) : x \in 1..Len(s) \/ (x - Len(s) \in 1..Len(b) /\ c[x] = b[x - Len(s)])
  BY <1>1
<1> HIDE DEF c
<1>5. \A x \in 1..Len(c) : c[x] <= k
  BY Zenon, <1>3, <1>4 DEF Ordered
<1>6. \A x, y \in 1..Len(c) : x < y => c[x] < c[y]
  <2> SUFFICES ASSUME NEW x \in 1..Len(c), NEW y \in 1..Len(c), x < y PROVE c[x] < c[y]
    OBVIOUS
  <2>1. CASE y \in 1..Len(s)
    <3>1. x \in 1..Len(s)
      BY <1>1, <2>1
    <3> QED  BY Zenon, <1>3, <2>1, <3>1 DEF Ordered
  <2>2. CASE y \notin 1..Len(s) /\ x \in 1..Len(s)
    BY Zenon, <1>3, <1>4, <2>2 DEF Ordered
  <2>3. CASE y \notin 1..Len(s) /\ x \notin 1..Len(s)
    <3> DEFINE u == x - Len(s)
               v == y - Len(s)
    <3>1. u \in 1..Len(b) /\ v \in 1..Len(b) /\ c[x] = b[u] /\ c[y] = b[v]
      BY Zenon, <1>4, <2>3
    <3>2. u < v
      BY <1>1, <1>2
    <3> HIDE DEF u, v
    <3> QED  BY Zenon, <3>1, <3>2 DEF Ordered
  <2> QED  BY Zenon, <2>1, <2>2, <2>3
<1>7. Ordered(c, <<>>, k)
  BY <1>2, <1>5, <1>6 DEF Ordered
<1> QED  BY Zenon, <1>2, <1>7 DEF c

(* What was not given to the program may be forgotten.                     *)
LEMMA OrderedForget ==
  ASSUME NEW s, NEW b, NEW k \in Nat, Ordered(s, b, k)
  PROVE  Ordered(s, <<>>, k)
BY DEF Ordered

LEMMA NotReadingType == NotReading \in ReaderCalls
<1>1. <<>> \in Seq(Nat)
  OBVIOUS
<1> QED  BY Zenon, <1>1 DEF NotReading, ReaderCalls

LEMMA AtType ==
  ASSUME NEW c \in ReaderCalls, NEW pc \in {"user", "last", "read", "end"}
  PROVE  /\ [c EXCEPT !.pc = pc] \in ReaderCalls /\ [c EXCEPT !.pc = pc].pc = pc
         /\ [c EXCEPT !.pc = pc].buf = c.buf /\ [c EXCEPT !.pc = pc].offset = c.offset
         /\ [c EXCEPT !.pc = pc].result = c.result
BY Zenon DEF ReaderCalls

LEMMA WriteEntryType ==
  ASSUME NEW c \in ReaderCalls, NEW e \in 1..Len(Size)
  PROVE  /\ write_entry(c, e) \in ReaderCalls /\ write_entry(c, e).pc = c.pc
         /\ write_entry(c, e).buf = Append(c.buf, e)
         /\ write_entry(c, e).offset = c.offset + Size[e] /\ write_entry(c, e).offset # 0
         /\ write_entry(c, e).result = c.result
<1>1. c.offset \in Nat /\ c.buf \in Seq(Nat) /\ Size[e] \in Nat \ {0} /\ e \in Nat
  BY DirSizes DEF ReaderCalls
<1>2. Append(c.buf, e) \in Seq(Nat) /\ c.offset + Size[e] \in Nat \ {0}
  BY <1>1
<1> QED  BY Zenon, <1>2 DEF write_entry, ReaderCalls

LEMMA DirInitInv == DirInit => DirInv
<1> SUFFICES ASSUME DirInit PROVE DirInv
  OBVIOUS
<1>1. /\ pos = 0 /\ last_dirent = NoEntry /\ owner = NoEntry /\ seen = <<>> /\ DOMAIN reader = Readers
      /\ Taken = 0 /\ Filled = <<>>
  BY Zenon DEF DirInit, Taken, Filled
<1>2. \A t \in Readers : ReaderOk(t)
  BY Zenon, <1>1, NotReadingType, DirAssumption DEF DirInit, ReaderOk, NotReading
<1>3. Ordered(seen, Filled, Taken)
  BY <1>1 DEF Ordered
<1> QED  BY <1>1, <1>2, <1>3, DirSizes DEF DirInv

LEMMA TakenIsNat ==
  ASSUME DirInv
  PROVE  /\ Taken \in Nat /\ pos \in Nat /\ Len(Size) \in Nat /\ Filled \in Seq(Nat)
         /\ seen \in Seq(Nat) /\ Len(seen) \in Nat /\ Len(Filled) \in Nat
<1>1. seen \in Seq(Nat) /\ Filled \in Seq(Nat)
  BY Zenon DEF DirInv, Ordered
<1> QED  BY <1>1, DirSizes DEF DirInv, Taken

(* A thread begins a call.                                                 *)
LEMMA GetdentsInv ==
  ASSUME DirInv, NEW t \in Readers, NEW len \in 0..MaxBuf, Getdents(t, len) PROVE DirInv'
<1> DEFINE c == [NotReading EXCEPT !.pc = "last", !.len = len]
<1>1. /\ reader' = [reader EXCEPT ![t] = c] /\ reader[t].pc = "user"
      /\ UNCHANGED <<pos, last_dirent, owner, told>>
  BY Zenon DEF Getdents
<1>2. c.pc = "last" /\ c.buf = <<>> /\ c.offset = 0 /\ c.result = "none"
  BY Zenon DEF NotReading
<1> len \in Nat
  BY DirAssumption
<1> c \in ReaderCalls
  BY Zenon, NotReadingType DEF ReaderCalls
<1> HIDE DEF c
<1>3. owner # t
  BY Zenon, <1>1 DEF DirInv, ReaderOk
<1>4. DOMAIN reader' = Readers /\ reader'[t] = c /\ \A u \in Readers \ {t} : reader'[u] = reader[u]
  BY Zenon, <1>1 DEF DirInv
<1>5. Filled' = Filled /\ Taken' = Taken
  BY Zenon, <1>1, <1>3, <1>4, DirAssumption DEF DirInv, Filled, Taken
<1>6. \A u \in Readers \ {t} : ReaderOk(u)'
  BY Zenon, <1>1, <1>4 DEF DirInv, ReaderOk, AllRead, told
<1>7. ReaderOk(t)'
  BY Zenon, <1>1, <1>2, <1>3, <1>4 DEF ReaderOk
<1> QED  BY Zenon, <1>1, <1>4, <1>5, <1>6, <1>7 DEF DirInv, told

(* A call returns, having given its buffer to the program or not.          *)
LEMMA ReturnInv ==
  ASSUME DirInv, NEW t \in Readers, NEW r \in {"zero", "some", "EINVAL", "EIO"}, ReturnDir(t, r), 
         owner \in {t, NoEntry}, UNCHANGED <<pos, last_dirent>>, unread => unread',
         Ordered(seen', <<>>, Taken), Len(seen') \in Nat,
         ~unread' => Len(seen') = Taken,
         r = "zero" /\ ~unread' => pos = Len(Size) /\ last_dirent = NoEntry
  PROVE  DirInv'
<1> DEFINE c == [NotReading EXCEPT !.result = r]
<1>1. owner' = NoEntry /\ reader' = [reader EXCEPT ![t] = c]
  BY Zenon DEF ReturnDir
<1>2. c.pc = "user" /\ c.buf = <<>> /\ c.offset = 0 /\ c.result = r
  BY Zenon DEF NotReading
<1> c \in ReaderCalls
  BY Zenon, NotReadingType DEF ReaderCalls
<1> HIDE DEF c
<1>3. DOMAIN reader' = Readers /\ reader'[t] = c /\ \A u \in Readers \ {t} : reader'[u] = reader[u]
  BY Zenon, <1>1 DEF DirInv
<1>4. Filled' = <<>> /\ Taken' = Taken
  BY Zenon, <1>1 DEF Filled, Taken
<1>5. ~unread' /\ pos = Len(Size) /\ last_dirent = NoEntry => AllRead'
  BY Zenon, <1>1 DEF Taken, AllRead
<1>6. ReaderOk(t)'
  BY Zenon, <1>1, <1>2, <1>3, <1>5, DirAssumption DEF ReaderOk
<1>7. ASSUME NEW u \in Readers \ {t} PROVE ReaderOk(u)'
  <2>1. ReaderOk(u) /\ owner # u /\ owner' # u
    BY Zenon, <1>1, DirAssumption DEF DirInv
  <2> QED  BY Zenon, <1>1, <1>3, <1>5, <2>1 DEF ReaderOk, AllRead
<1>8. Len(Filled') = 0
  BY Zenon, <1>4
<1> QED  BY <1>1, <1>3, <1>4, <1>6, <1>7, <1>8, TakenIsNat DEF DirInv

(* The lock is taken, and the kept entry put into the buffer.              *)
LEMMA TakeLastInv ==
  ASSUME DirInv, NEW t \in Readers, TakeLast(t) PROVE DirInv'
<1>1. /\ reader[t].pc = "last" /\ owner = NoEntry /\ UNCHANGED <<pos, seen, unread>>
      /\ ReaderOk(t) /\ t # NoEntry /\ Filled = <<>> /\ reader[t].buf = <<>> /\ reader[t].offset = 0
  BY Zenon, DirAssumption DEF TakeLast, told, DirInv, ReaderOk, Filled
<1>2. CASE last_dirent = NoEntry
  <2> DEFINE c == [reader[t] EXCEPT !.pc = "read"]
  <2>1. owner' = t /\ reader' = [reader EXCEPT ![t] = c] /\ UNCHANGED last_dirent
    BY Zenon, <1>2 DEF TakeLast
  <2>2. /\ c \in ReaderCalls /\ c.pc = "read" /\ c.buf = <<>> /\ c.offset = 0
        /\ c.result = reader[t].result
    BY Zenon, <1>1, AtType DEF ReaderOk
  <2> HIDE DEF c
  <2>3. DOMAIN reader' = Readers /\ reader'[t] = c /\ \A u \in Readers \ {t} : reader'[u] = reader[u]
    BY Zenon, <2>1 DEF DirInv
  <2>4. Filled' = Filled /\ Taken' = Taken
    BY Zenon, <1>1, <2>1, <2>2, <2>3 DEF Filled, Taken
  <2>5. \A u \in Readers \ {t} : ReaderOk(u)'
    BY Zenon, <1>1, <2>1, <2>3, DirAssumption DEF DirInv, ReaderOk, AllRead
  <2>6. ReaderOk(t)'
    BY Zenon, <1>1, <1>2, <2>1, <2>2, <2>3 DEF ReaderOk, AllRead
  <2> QED  BY Zenon, <1>1, <1>2, <2>1, <2>3, <2>4, <2>5, <2>6 DEF DirInv
<1>3. CASE last_dirent # NoEntry /\ Fits(reader[t], last_dirent)
  <2> DEFINE e == last_dirent
             w == write_entry(reader[t], e)
             c == [w EXCEPT !.pc = "read"]
  <2>1. owner' = t /\ last_dirent' = NoEntry /\ reader' = [reader EXCEPT ![t] = c]
    BY Zenon, <1>3 DEF TakeLast
  <2>2. e = Taken + 1 /\ e \in 1..Len(Size) /\ Taken \in Nat /\ Taken' = Taken + 1
    BY <1>1, <1>3, <2>1, TakenIsNat DEF DirInv, Taken
  <2>3. /\ w \in ReaderCalls /\ w.buf = Append(<<>>, e) /\ w.offset # 0
        /\ w.result = reader[t].result
    BY SMTT(30), <1>1, <2>2, WriteEntryType DEF ReaderOk
  <2> HIDE DEF w
  <2>4. /\ c \in ReaderCalls /\ c.pc = "read" /\ c.buf = Append(<<>>, e) /\ c.offset # 0
        /\ c.result = reader[t].result
    BY Zenon, <2>3, AtType
  <2> HIDE DEF c
  <2>5. DOMAIN reader' = Readers /\ reader'[t] = c /\ \A u \in Readers \ {t} : reader'[u] = reader[u]
    BY Zenon, <2>1 DEF DirInv
  <2>6. Filled' = Append(<<>>, Taken + 1)
    BY Zenon, <1>1, <2>1, <2>2, <2>4, <2>5 DEF Filled
  <2>7. Ordered(seen', Filled', Taken') /\ Len(Filled') = Len(Filled) + 1
    <3>1. Ordered(seen, Filled, Taken)
      BY Zenon DEF DirInv
    <3> QED  BY Zenon, <1>1, <2>2, <2>6, <3>1, OrderedAppend
  <2>8. ASSUME NEW u \in Readers \ {t} PROVE ReaderOk(u)'
    <3>1. ReaderOk(u) /\ ~AllRead /\ owner # u
      BY Zenon, <1>1, <1>3, DirAssumption DEF DirInv, AllRead
    <3> QED  BY Zenon, <1>1, <2>1, <2>5, <3>1 DEF ReaderOk
  <2>9. ReaderOk(t)'
    <3>1. ~AllRead
      BY Zenon, <1>3 DEF AllRead
    <3> QED  BY Zenon, <1>1, <2>1, <2>4, <2>5, <3>1 DEF ReaderOk
  <2>10. ~unread' => Len(seen') + Len(Filled') = Taken'
    BY <1>1, <2>2, <2>7, TakenIsNat DEF DirInv
  <2> QED  BY Zenon, <1>1, <2>1, <2>5, <2>7, <2>8, <2>9, <2>10 DEF DirInv
<1>4. CASE last_dirent # NoEntry /\ ~Fits(reader[t], last_dirent)
  <2>1. ReturnDir(t, "EINVAL") /\ UNCHANGED last_dirent
    BY Zenon, <1>4 DEF TakeLast
  <2>2. Ordered(seen, <<>>, Taken) /\ (~unread => Len(seen) = Taken)
    BY <1>1, TakenIsNat DEF DirInv
  <2> QED  BY Zenon, <1>1, <2>1, <2>2, TakenIsNat, ReturnInv
<1> QED  BY Zenon, <1>2, <1>3, <1>4

(* The next entry goes into the buffer, or is kept.                        *)
LEMMA ReadDirInv ==
  ASSUME DirInv, NEW t \in Readers, ReadDir(t) PROVE DirInv'
<1>1. /\ reader[t].pc = "read" /\ pos < Len(Size) /\ pos' = pos + 1 /\ pos + 1 \in 1..Len(Size)
      /\ UNCHANGED <<owner, seen, unread>> /\ ReaderOk(t) /\ pos \in Nat
  BY TakenIsNat DEF ReadDir, told, DirInv
<1>2. owner = t /\ t # NoEntry /\ last_dirent = NoEntry /\ Taken = pos /\ Filled = reader[t].buf
  BY Zenon, <1>1, DirAssumption DEF ReaderOk, Taken, Filled
<1>3. NoEntry # pos + 1 /\ ~AllRead
  BY SMTT(30), <1>1, DirAssumption DEF AllRead
<1>4. \A u \in Readers \ {t} : ReaderOk(u) /\ owner # u
  BY Zenon, <1>2 DEF DirInv
<1>5. CASE Fits(reader[t], pos + 1)
  <2> DEFINE c == write_entry(reader[t], pos + 1)
  <2>1. reader' = [reader EXCEPT ![t] = c] /\ UNCHANGED last_dirent
    BY Zenon, <1>5 DEF ReadDir
  <2>2. /\ c \in ReaderCalls /\ c.pc = "read" /\ c.buf = Append(reader[t].buf, pos + 1)
        /\ c.offset # 0 /\ c.result = reader[t].result
    BY Zenon, <1>1, WriteEntryType DEF ReaderOk
  <2> HIDE DEF c
  <2>3. DOMAIN reader' = Readers /\ reader'[t] = c /\ \A u \in Readers \ {t} : reader'[u] = reader[u]
    BY Zenon, <2>1 DEF DirInv
  <2>4. Filled' = Append(Filled, Taken + 1) /\ Taken' = Taken + 1
    BY Zenon, <1>1, <1>2, <2>1, <2>2, <2>3 DEF Filled, Taken
  <2>5. Ordered(seen', Filled', Taken') /\ Len(Filled') = Len(Filled) + 1
    <3>1. Ordered(seen, Filled, Taken)
      BY Zenon DEF DirInv
    <3> QED  BY Zenon, <1>1, <2>4, <3>1, TakenIsNat, OrderedAppend
  <2>6. ReaderOk(t)'
    BY Zenon, <1>1, <1>2, <1>3, <2>1, <2>2, <2>3 DEF ReaderOk
  <2>7. \A u \in Readers \ {t} : ReaderOk(u)'
    BY Zenon, <1>1, <1>3, <1>4, <2>1, <2>3 DEF ReaderOk
  <2>8. ~unread' => Len(seen') + Len(Filled') = Taken'
    BY SMTT(30), <1>1, <2>4, <2>5, TakenIsNat DEF DirInv
  <2> QED  BY <1>1, <1>2, <2>1, <2>3, <2>5, <2>6, <2>7, <2>8 DEF DirInv
<1>6. CASE ~Fits(reader[t], pos + 1)
  <2> DEFINE c == [reader[t] EXCEPT !.pc = "end"]
  <2>1. reader' = [reader EXCEPT ![t] = c] /\ last_dirent' = pos + 1
    BY Zenon, <1>6 DEF ReadDir
  <2>2. /\ c \in ReaderCalls /\ c.pc = "end" /\ c.buf = reader[t].buf
        /\ c.offset = reader[t].offset /\ c.result = reader[t].result
    BY Zenon, <1>1, AtType DEF ReaderOk
  <2> HIDE DEF c
  <2>3. DOMAIN reader' = Readers /\ reader'[t] = c /\ \A u \in Readers \ {t} : reader'[u] = reader[u]
    BY Zenon, <2>1 DEF DirInv
  <2>4. Filled' = Filled /\ Taken' = Taken
    BY <1>1, <1>2, <1>3, <2>1, <2>2, <2>3 DEF Filled, Taken
  <2>5. ReaderOk(t)'
    BY Zenon, <1>1, <1>2, <1>3, <2>1, <2>2, <2>3 DEF ReaderOk
  <2>6. \A u \in Readers \ {t} : ReaderOk(u)'
    BY Zenon, <1>1, <1>3, <1>4, <2>1, <2>3 DEF ReaderOk
  <2> QED  BY <1>1, <1>2, <2>1, <2>3, <2>4, <2>5, <2>6 DEF DirInv
<1> QED  BY Zenon, <1>5, <1>6

(* The directory has no more entries.                                      *)
LEMMA ReadDirEndInv ==
  ASSUME DirInv, NEW t \in Readers, ReadDirEnd(t) PROVE DirInv'
<1> DEFINE c == [reader[t] EXCEPT !.pc = "end"]
<1>1. /\ reader[t].pc = "read" /\ pos = Len(Size) /\ reader' = [reader EXCEPT ![t] = c]
      /\ UNCHANGED <<pos, last_dirent, owner, seen, unread>> /\ ReaderOk(t)
  BY Zenon DEF ReadDirEnd, told, DirInv
<1>2. owner = t /\ t # NoEntry
  BY Zenon, <1>1, DirAssumption DEF ReaderOk
<1>3. /\ c \in ReaderCalls /\ c.pc = "end" /\ c.buf = reader[t].buf
      /\ c.offset = reader[t].offset /\ c.result = reader[t].result
  BY Zenon, <1>1, AtType DEF ReaderOk
<1> HIDE DEF c
<1>4. DOMAIN reader' = Readers /\ reader'[t] = c /\ \A u \in Readers \ {t} : reader'[u] = reader[u]
  BY Zenon, <1>1 DEF DirInv
<1>5. Filled' = Filled /\ Taken' = Taken
  BY Zenon, <1>1, <1>2, <1>3, <1>4 DEF Filled, Taken
<1>6. ReaderOk(t)'
  BY Zenon, <1>1, <1>2, <1>3, <1>4 DEF ReaderOk, AllRead
<1>7. \A u \in Readers \ {t} : ReaderOk(u)'
  BY Zenon, <1>1, <1>4 DEF DirInv, ReaderOk, AllRead
<1> QED  BY Zenon, <1>1, <1>4, <1>5, <1>6, <1>7 DEF DirInv

(* A read that failed, or the end of a call.                               *)
LEMMA FinishInv ==
  ASSUME DirInv, NEW t \in Readers, ReadDirFails(t) \/ Finish(t) PROVE DirInv'
<1>1. reader[t].pc \in {"read", "end"} /\ ReaderOk(t) /\ UNCHANGED <<pos, last_dirent>>
  BY Zenon DEF DirInv, ReadDirFails, Finish
<1>2. owner = t /\ t # NoEntry /\ Filled = reader[t].buf
  BY Zenon, <1>1, DirAssumption DEF ReaderOk, Filled
<1>3. Ordered(seen, reader[t].buf, Taken) /\ (~unread => Len(seen) + Len(reader[t].buf) = Taken)
  BY Zenon, <1>2 DEF DirInv
<1>4. CASE ReadDirFails(t)
  <2>1. ReturnDir(t, "EIO") /\ unread' /\ seen' = seen
    BY Zenon, <1>4 DEF ReadDirFails
  <2>2. Ordered(seen', <<>>, Taken)
    BY Zenon, <1>3, <2>1, OrderedForget, TakenIsNat
  <2> QED  BY Zenon, <1>1, <1>2, <2>1, <2>2, TakenIsNat, ReturnInv
<1>5. CASE Finish(t)
  <2> DEFINE r == IF reader[t].offset = 0
                  THEN IF last_dirent = NoEntry THEN "zero" ELSE "EINVAL"
                  ELSE "some"
  <2>1. ReturnDir(t, r) /\ unread' = unread /\ seen' = seen \o reader[t].buf
    BY Zenon, <1>5 DEF Finish, Deliver
  <2>2. r = "zero" => pos = Len(Size) /\ last_dirent = NoEntry
    BY Zenon, <1>1, <1>5 DEF Finish, ReaderOk
  <2>3. Ordered(seen', <<>>, Taken) /\ Len(seen') = Len(seen) + Len(reader[t].buf)
    BY Zenon, <1>3, <2>1, OrderedConcat, TakenIsNat
  <2>4. r \in {"zero", "some", "EINVAL", "EIO"}
    OBVIOUS
  <2>5. Len(seen') \in Nat
    BY <1>2, <2>3, TakenIsNat
  <2> HIDE DEF r
  <2> QED  BY Zenon, <1>1, <1>2, <1>3, <2>1, <2>2, <2>3, <2>4, <2>5, ReturnInv
<1> QED  BY Zenon, <1>4, <1>5

(* Every step of a getdents64 preserves the invariant.                     *)
THEOREM DirSpecInv == DirSpec => []DirInv
<1>1. DirInv /\ [DirNext]_direntVars => DirInv'
  <2> SUFFICES ASSUME DirInv, [DirNext]_direntVars PROVE DirInv'
    OBVIOUS
  <2>1. CASE UNCHANGED direntVars
    BY Zenon, <2>1 DEF direntVars, told, DirInv, Filled, Taken, ReaderOk, AllRead
  <2>2. CASE DirNext
    BY Zenon, <2>2, GetdentsInv, TakeLastInv, ReadDirInv, ReadDirEndInv, FinishInv DEF DirNext
  <2> QED  BY Zenon, <2>1, <2>2
<1> QED  BY DirInitInv, <1>1, PTL DEF DirSpec

(* Whoever reads a shared directory, with whatever buffers, gets entries   *)
(* that nobody got before, in order; and getdents64 returns zero only when *)
(* all have been reported, or reading has failed.                          *)
THEOREM DirentsAreExact == DirSpec => []DirentsOnceAndAll
<1>1. DirInv => DirentsOnceAndAll
  BY Zenon DEF DirInv, Ordered, ReaderOk, AllRead, DirentsOnceAndAll, InOrderOnce, ZeroMeansAll
<1> QED  BY DirSpecInv, <1>1, PTL
=============================================================================
