------------------------------ MODULE ShmFork ------------------------------
(***************************************************************************)
(* Shared memory together with the system calls that make and replace      *)
(* address spaces: fork (api/src/imp/task/clone.rs) copies the mappings    *)
(* and gives the child an empty table of attachments, execve (execve.rs)   *)
(* drops the mappings and keeps the table.                                 *)
(***************************************************************************)
EXTENDS Shm

CONSTANT Root    \* the process the system starts with

ASSUME RootAssumption == Root \in Procs

VARIABLE inherited    \* the areas of segments a process has since it was forked

forkVars == <<vars, inherited>>

(* An area that is unmapped, or mapped anew, is not inherited any more.    *)
Inherit ==
  inherited' = [p \in Procs |-> [a \in Addrs |->
                  IF mapped'[p][a] = mapped[p][a] THEN inherited[p][a] ELSE 0]]

ThreadsOf(p) == {t \in Threads : ProcOf[t] = p}

(* Variant: the child inherits the table, and nobody counts it.            *)
ForkCopiesTable(t, child) ==
  LET p == ProcOf[t]
  IN  /\ pc[t] = "user"
      /\ AspaceFree(p)
      /\ \A u \in ThreadsOf(child) : pc[u] = "exited"
      /\ \E u \in ThreadsOf(child) : pc' = [pc EXCEPT ![u] = "user"]
      /\ mapped' = [mapped EXCEPT ![child] = mapped[p]]
      /\ attached' = [attached EXCEPT ![child] = attached[p]]
      /\ inherited' = [inherited EXCEPT ![child] = [a \in Addrs |->
                          IF mapped[p][a] \in Serials THEN mapped[p][a] ELSE 0]]
      /\ UNCHANGED <<mgrVars, segVars, seg>>

(* sys_clone without CLONE_VM: try_clone under the address space, then a   *)
(* ProcessData with ProcessShmData::new().  The child has one thread.      *)
Fork(t, child) ==
  LET p == ProcOf[t]
  IN  /\ pc[t] = "user"
      /\ AspaceFree(p)
      /\ \A u \in ThreadsOf(child) : pc[u] = "exited"
      /\ \E u \in ThreadsOf(child) : pc' = [pc EXCEPT ![u] = "user"]
      /\ mapped' = [mapped EXCEPT ![child] = mapped[p]]
      /\ attached' = [attached EXCEPT ![child] = [a \in Addrs |-> 0]]
      /\ inherited' = [inherited EXCEPT ![child] = [a \in Addrs |->
                          IF mapped[p][a] \in Serials THEN mapped[p][a] ELSE 0]]
      /\ UNCHANGED <<mgrVars, segVars, seg>>

(* sys_clone with CLONE_THREAD.                                            *)
CloneThread(t, u) ==
  /\ pc[t] = "user"
  /\ ProcOf[u] = ProcOf[t] /\ pc[u] = "exited"
  /\ AspaceFree(ProcOf[t])
  /\ pc' = [pc EXCEPT ![u] = "user"]
  /\ UNCHANGED <<mgrVars, segVars, memVars, seg, inherited>>

(* sys_execve by the only thread of its process.                           *)
Execve(t) ==
  LET p == ProcOf[t]
  IN  /\ pc[t] = "user"
      /\ \A u \in ThreadsOf(p) \ {t} : pc[u] = "exited"
      /\ AspaceFree(p)
      /\ mapped' = [mapped EXCEPT ![p] = [a \in Addrs |-> 0]]
      /\ Inherit
      /\ UNCHANGED <<mgrVars, segVars, attached, thrVars>>

(* One thread of the root process, and no other.                           *)
OneThread ==
  \E t \in ThreadsOf(Root) :
    pc = [u \in Threads |-> IF u = t THEN "user" ELSE "exited"]

ForkInit == ShmInit /\ OneThread /\ inherited = [p \in Procs |-> [a \in Addrs |-> 0]]

ForkNext ==
  \/ Next /\ Inherit
  \/ \E t \in Threads :
       \/ Execve(t)
       \/ \E child \in Procs : Fork(t, child)
       \/ \E u \in Threads : CloneThread(t, u)

ForkSpec == ForkInit /\ [][ForkNext]_forkVars

-----------------------------------------------------------------------------
(* An area of a segment in an address space is in the table of that        *)
(* process, at the same address, so that shmdt can find it, unless the     *)
(* process was forked with it: fork copies the mappings and not the table. *)
TrackedOrInherited ==
  \A p \in Procs, a \in Addrs :
    mapped[p][a] \in Serials => mapped[p][a] \in {attached[p][a], inherited[p][a]}
=============================================================================
