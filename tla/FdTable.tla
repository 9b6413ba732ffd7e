------------------------------ MODULE FdTable ------------------------------
(***************************************************************************)
(* The file descriptor tables: FD_TABLE (api/src/file/mod.rs) and the      *)
(* calls that change it, open, close, dup, dup2, fcntl(F_DUPFD)            *)
(* (imp/fs/fd_ops.rs) and pipe2 (imp/fs/pipe.rs), with the copy or the     *)
(* sharing of the table by clone and its clearing by exit.                 *)
(*                                                                         *)
(* Each acquisition of the table's lock is a step: dup takes it twice,     *)
(* pipe2 two or three times, dup2 once.  Tables are named after the        *)
(* process they were made for.                                             *)
(***************************************************************************)
EXTENDS Integers, FiniteSets

CONSTANTS Procs, Root,   \* processes; Root is there from the start
          Tasks, ProcOf,
          Limit,         \* AX_FILE_LIMIT
          MaxNewFd,      \* bound: largest new_fd passed to dup2
          MaxFiles,      \* bound: open files ever made
          NoProc

ASSUME FdAssumption ==
  /\ Root \in Procs /\ NoProc \notin Procs /\ ProcOf \in [Tasks -> Procs]
  /\ Limit \in Nat \ {0} /\ MaxNewFd \in Nat /\ MaxFiles \in Nat

VARIABLES fd_table,  \* descriptor -> open file, 0 when free, for each table
          tableOf,   \* the table each process uses, NoProc when it has none
          made,      \* open files made so far
          fd_call,   \* what each thread is doing
          panicked,  \* the panic the kernel stopped with, or "none"
          copied,    \* files that dup, dup2 or clone has given another entry
          failed,    \* read ends of pipes whose pipe2 has failed
          sharing    \* CLONE_FILES: processes that mean to share a table

fdVars == <<fd_table, tableOf, made, fd_call, panicked, copied, failed, sharing>>

Slots == 0..(Limit - 1)
Files == 1..MaxFiles
Empty == [fd \in Slots |-> 0]
NoOp == [pc |-> "user", file |-> 0, file2 |-> 0, fd |-> 0]
Ops == [pc: {"user", "dup_add", "pipe_write", "pipe_undo"},
          file: 0..MaxFiles, file2: 0..MaxFiles, fd: Slots]

T(t) == tableOf[ProcOf[t]]
Runs(t, l) == panicked = "none" /\ T(t) # NoProc /\ fd_call[t].pc = l
Open(tab) == {fd \in Slots : fd_table[tab][fd] # 0}
Full(tab) == Open(tab) = Slots
LowestFree(tab) == CHOOSE fd \in Slots \ Open(tab) : \A g \in Slots \ Open(tab) : fd <= g

(* FD_TABLE.write().add(f), on a table that is not full.                   *)
add(tab, f) == fd_table' = [fd_table EXCEPT ![tab][LowestFree(tab)] = f]
remove(tab, fd) == fd_table' = [fd_table EXCEPT ![tab][fd] = 0]

-----------------------------------------------------------------------------
(* sys_openat and the other calls that add one new file; EMFILE, and no    *)
(* change, when the table is full.                                         *)
OpenFile(t) ==
  /\ Runs(t, "user") /\ made < MaxFiles /\ ~Full(T(t))
  /\ made' = made + 1
  /\ add(T(t), made + 1)
  /\ UNCHANGED <<tableOf, fd_call, panicked, copied, failed, sharing>>

sys_close(t, fd) ==
  /\ Runs(t, "user") /\ fd_table[T(t)][fd] # 0
  /\ remove(T(t), fd)
  /\ UNCHANGED <<tableOf, made, fd_call, panicked, copied, failed, sharing>>

(* dup_fd: get_file_like, then add_file_like.                              *)
DupGet(t, fd) ==
  /\ Runs(t, "user") /\ fd_table[T(t)][fd] # 0
  /\ fd_call' = [fd_call EXCEPT ![t] = [NoOp EXCEPT !.pc = "dup_add", !.file = fd_table[T(t)][fd]]]
  /\ UNCHANGED <<fd_table, tableOf, made, panicked, copied, failed, sharing>>

DupAdd(t) ==
  /\ Runs(t, "dup_add")
  /\ IF Full(T(t)) THEN UNCHANGED <<fd_table, copied>>
     ELSE add(T(t), fd_call[t].file) /\ copied' = copied \cup {fd_call[t].file}
  /\ fd_call' = [fd_call EXCEPT ![t] = NoOp]
  /\ UNCHANGED <<tableOf, made, panicked, failed, sharing>>

(* sys_dup2 holds the lock throughout.  add_at fails for a descriptor      *)
(* beyond the table, and the kernel panics.                                *)
sys_dup2(t, old_fd, new_fd) ==
  /\ Runs(t, "user") /\ fd_table[T(t)][old_fd] # 0
  /\ old_fd # new_fd
  /\ IF new_fd \in Slots
     THEN /\ fd_table' = [fd_table EXCEPT ![T(t)][new_fd] = fd_table[T(t)][old_fd]]
          /\ copied' = copied \cup {fd_table[T(t)][old_fd]}
          /\ UNCHANGED panicked
     ELSE panicked' = "dup2" /\ UNCHANGED <<fd_table, copied>>
  /\ UNCHANGED <<tableOf, made, fd_call, failed, sharing>>

(* sys_pipe2: the read end is added, then the write end; when that fails   *)
(* the descriptor of the read end is closed again.                         *)
PipeRead(t) ==
  /\ Runs(t, "user") /\ made + 2 <= MaxFiles /\ ~Full(T(t))
  /\ made' = made + 2
  /\ add(T(t), made + 1)
  /\ fd_call' = [fd_call EXCEPT ![t] = [pc |-> "pipe_write", file |-> made + 1,
                                  file2 |-> made + 2, fd |-> LowestFree(T(t))]]
  /\ UNCHANGED <<tableOf, panicked, copied, failed, sharing>>

(* Variant: the error of the write end is returned as it is.               *)
PipeWriteNoUndo(t) ==
  /\ Runs(t, "pipe_write")
  /\ IF Full(T(t)) THEN failed' = failed \cup {fd_call[t].file} /\ UNCHANGED fd_table
     ELSE add(T(t), fd_call[t].file2) /\ UNCHANGED failed
  /\ fd_call' = [fd_call EXCEPT ![t] = NoOp]
  /\ UNCHANGED <<tableOf, made, panicked, copied, sharing>>

PipeWrite(t) ==
  /\ Runs(t, "pipe_write")
  /\ IF Full(T(t))
     THEN fd_call' = [fd_call EXCEPT ![t].pc = "pipe_undo"] /\ UNCHANGED fd_table
     ELSE fd_call' = [fd_call EXCEPT ![t] = NoOp] /\ add(T(t), fd_call[t].file2)
  /\ UNCHANGED <<tableOf, made, panicked, copied, failed, sharing>>

(* close_file_like(read_fd).unwrap().                                      *)
PipeUndo(t) ==
  /\ Runs(t, "pipe_undo")
  /\ IF fd_table[T(t)][fd_call[t].fd] = 0
     THEN panicked' = "pipe2" /\ UNCHANGED fd_table
     ELSE remove(T(t), fd_call[t].fd) /\ UNCHANGED panicked
  /\ failed' = failed \cup {fd_call[t].file}
  /\ fd_call' = [fd_call EXCEPT ![t] = NoOp]
  /\ UNCHANGED <<tableOf, made, copied, sharing>>

-----------------------------------------------------------------------------
(* clone and exit *)

(* Variant: clone always shares the table.                                 *)
CloneFilesShared(t, q, files) ==
  /\ Runs(t, "user") /\ tableOf[q] = NoProc /\ fd_table[q] = Empty
  /\ tableOf' = [tableOf EXCEPT ![q] = T(t)]
  /\ sharing' = IF files THEN [sharing EXCEPT ![q] = sharing[ProcOf[t]]] ELSE sharing
  /\ UNCHANGED <<fd_table, made, fd_call, panicked, copied, failed>>

(* sys_clone: with CLONE_FILES the caller's table is shared, otherwise the *)
(* child gets a copy of it.                                                *)
CloneFiles(t, q, files) ==
  /\ Runs(t, "user") /\ tableOf[q] = NoProc /\ fd_table[q] = Empty
  /\ \A p \in Procs : tableOf[p] # q
  /\ IF files
     THEN /\ tableOf' = [tableOf EXCEPT ![q] = T(t)]
          /\ sharing' = [sharing EXCEPT ![q] = sharing[ProcOf[t]]]
          /\ UNCHANGED <<fd_table, copied>>
     ELSE /\ tableOf' = [tableOf EXCEPT ![q] = q]
          /\ fd_table' = [fd_table EXCEPT ![q] = fd_table[T(t)]]
          /\ copied' = copied \cup {fd_table[T(t)][fd] : fd \in Open(T(t))}
          /\ sharing' = [sharing EXCEPT ![q] = q]
  /\ UNCHANGED <<made, fd_call, panicked, failed>>

(* The last thread of a process leaves: FD_TABLE.clear().                  *)
ExitClear(t) ==
  /\ Runs(t, "user")
  /\ \A u \in Tasks : ProcOf[u] = ProcOf[t] => fd_call[u].pc = "user"
  /\ fd_table' = [fd_table EXCEPT ![T(t)] = Empty]
  /\ tableOf' = [tableOf EXCEPT ![ProcOf[t]] = NoProc]
  /\ UNCHANGED <<made, fd_call, panicked, copied, failed, sharing>>

-----------------------------------------------------------------------------
FdInit ==
  /\ fd_table = [p \in Procs |-> IF p = Root /\ MaxFiles > 0
                              THEN [Empty EXCEPT ![0] = 1] ELSE Empty]
  /\ tableOf = [p \in Procs |-> IF p = Root THEN Root ELSE NoProc]
  /\ made = IF MaxFiles > 0 THEN 1 ELSE 0
  /\ fd_call = [t \in Tasks |-> NoOp]
  /\ panicked = "none"
  /\ copied = {} /\ failed = {}
  /\ sharing = [p \in Procs |-> p]

FdStep(t) ==
  \/ OpenFile(t) \/ DupAdd(t) \/ PipeRead(t) \/ PipeWrite(t) \/ PipeUndo(t)
  \/ ExitClear(t)
  \/ \E fd \in Slots : sys_close(t, fd) \/ DupGet(t, fd)
  \/ \E old_fd \in Slots, new_fd \in 0..MaxNewFd : sys_dup2(t, old_fd, new_fd)
  \/ \E q \in Procs, files \in BOOLEAN : CloneFiles(t, q, files)
FdNext == \E t \in Tasks : FdStep(t)

FdSpec == FdInit /\ [][FdNext]_fdVars

-----------------------------------------------------------------------------
(* Every variable keeps its type.                                          *)
FdTypeOK ==
  /\ fd_table \in [Procs -> [Slots -> 0..MaxFiles]]
  /\ tableOf \in [Procs -> Procs \cup {NoProc}]
  /\ made \in 0..MaxFiles
  /\ fd_call \in [Tasks -> Ops]
  /\ \A t \in Tasks : fd_call[t].pc # "user" => fd_call[t].file \in Files
  /\ panicked \in {"none", "dup2", "pipe2"}
  /\ copied \subseteq Files /\ failed \subseteq Files
  /\ sharing \in [Procs -> Procs]

(* Two processes use the same table exactly when the clones between them   *)
(* asked for it with CLONE_FILES: otherwise what one of them opens, closes *)
(* or clears at its exit is not seen by the other.                         *)
Isolation ==
  \A p, q \in Procs :
    (tableOf[p] # NoProc /\ tableOf[q] # NoProc)
      => ((tableOf[p] = tableOf[q]) <=> (sharing[p] = sharing[q]))

(* After a pipe2 that failed because the table filled up between its two   *)
(* ends, the read end is in no table, unless another call copied it.       *)
FailedPipeGone ==
  panicked = "none" =>
    \A f \in failed \ copied : \A p \in Procs, fd \in Slots : fd_table[p][fd] # f
=============================================================================
