-------------------------------- MODULE Shm --------------------------------
(***************************************************************************)
(* System V shared memory: the global ShmManager (core/src/shm.rs), the    *)
(* per-process table of attachments, and the system calls of               *)
(* api/src/imp/mm/shm.rs, run by several threads of several processes.     *)
(*                                                                         *)
(* A step is a stretch of code between two lock acquisitions.  Two mutexes *)
(* are held across such points: the manager's (by shmctl while it copies   *)
(* from or to user memory) and the address space's (by shmat and shmdt     *)
(* while they wait for the manager).  Who holds them follows from the      *)
(* program counters.  The shm_data mutex is only taken by a thread that    *)
(* already holds the address space, and shmid_ds is a leaf lock.           *)
(***************************************************************************)
EXTENDS Integers, FiniteSets

CONSTANTS Procs,        \* processes
          Threads,      \* threads, all of them
          ProcOf,       \* the process of a thread
          Keys,         \* keys other than IPC_PRIVATE
          IPC_PRIVATE,
          Addrs,        \* page-aligned user addresses a segment may occupy
          Modes,        \* sets of access rights a mode can grant
          MaxId,        \* i32::MAX
          MAX_ATTEMPTS, \* collisions alloc_id tolerates
          MaxAttach,    \* the limit on shm_nattch in validate()
          MaxSegs       \* bound: successful calls of alloc_id

ASSUME ShmAssumption ==
  /\ ProcOf \in [Threads -> Procs]
  /\ IsFiniteSet(Procs) /\ IsFiniteSet(Threads) /\ IsFiniteSet(Addrs)
  /\ IPC_PRIVATE \notin Keys
  /\ Addrs \cap {0} = {}
  /\ Modes \subseteq SUBSET {"r", "w"}
  /\ {MaxId, MAX_ATTEMPTS, MaxSegs} \subseteq Nat \ {0}
  /\ MaxAttach \in Nat

VARIABLES segments,   \* ShmManager.segments: id -> segment, 0 when absent
          key_to_id,  \* ShmManager.key_to_id: key -> id, 0 when absent
          next_id,    \* ShmManager.next_id
          created,    \* identifiers handed out; segment s got the s-th
          ds,         \* what ShmSegment::new and set_perm record
          nattch,     \* shmid_ds.shm_nattch
          marked,     \* marked_for_deletion
          attached,   \* ProcessShmData.attached: addr -> segment, 0 when absent
          mapped,     \* the address space: addr -> segment, Foreign or 0
          pc,         \* where in a system call a thread is
          seg         \* the Arc<ShmSegment> a system call holds

mgrVars == <<segments, key_to_id, next_id, created>>
segVars == <<ds, nattch, marked>>
memVars == <<attached, mapped>>
thrVars == <<pc, seg>>
vars == <<mgrVars, segVars, memVars, thrVars>>

Serials == 1..MaxSegs
Ids == 1..MaxId
Foreign == -1    \* an area that sys_mmap made

Ds == [id: Ids \cup {0}, key: Keys \cup {IPC_PRIVATE}, size: {0, 1},
       mode: SUBSET {"r", "w"}]

(* Where a thread can be: in user code, gone, or inside a system call      *)
(* between two lock acquisitions.                                          *)
PCs == {"user", "exited", "shmat_lookup", "shmat_map", "shmdt_remove",
        "shmctl_copy"}

(* The mutex of the manager, and the mutex of the address space of p.      *)
HoldsManager(t) == pc[t] = "shmctl_copy"
HoldsAspace(t) == pc[t] \in {"shmat_lookup", "shmat_map", "shmdt_remove"}
ManagerFree == \A t \in Threads : ~HoldsManager(t)
AspaceFree(p) == \A t \in Threads : ProcOf[t] = p => ~HoldsAspace(t)

Goto(t, l, s) == /\ pc' = [pc EXCEPT ![t] = l]
                 /\ seg' = [seg EXCEPT ![t] = s]
Return(t) == Goto(t, "user", 0)

-----------------------------------------------------------------------------
(* ShmManager *)

(* The identifier alloc_id tries after k collisions; wrapping_add and the  *)
(* reset to 1 keep it in 1..i32::MAX.                                      *)
IdAfter(k) == ((next_id - 1 + k) % MaxId) + 1

Live == {i \in Ids : segments[i] # 0}

(* Variant: alloc_id without collision detection.                          *)
IdFoundUnchecked(k) == Cardinality(Live) < MaxId \div 2 /\ k = 0

(* alloc_id returns the first unused identifier among MAX_ATTEMPTS         *)
(* candidates, unless the table is already half full.                      *)
IdFound(k) ==
  /\ Cardinality(Live) < MaxId \div 2
  /\ k < MAX_ATTEMPTS
  /\ IdAfter(k) \notin Live
  /\ \A j \in 0..(k - 1) : IdAfter(j) \in Live

(* ShmSegment::new, then the insertion into the tables.                    *)
NewSegment(k, key, size, mode) ==
  LET s == created + 1
  IN  /\ created' = s
      /\ next_id' = IdAfter(k + 1)
      /\ segments' = [segments EXCEPT ![IdAfter(k)] = s]
      /\ key_to_id' = IF key = IPC_PRIVATE THEN key_to_id
                      ELSE [key_to_id EXCEPT ![key] = IdAfter(k)]
      /\ ds' = [ds EXCEPT ![s] = [id |-> IdAfter(k), key |-> key,
                                  size |-> size, mode |-> mode]]
      /\ UNCHANGED <<nattch, marked>>

(* ShmSegment::new fails for want of pages: the identifier is used up.     *)
NoPages(k) ==
  /\ created' = created + 1
  /\ next_id' = IdAfter(k + 1)
  /\ UNCHANGED <<segments, key_to_id, segVars>>

(* ShmManager::remove of an identifier that is present.                    *)
Remove(id) ==
  LET key == ds[segments[id]].key
  IN  /\ segments' = [segments EXCEPT ![id] = 0]
      /\ key_to_id' = IF key = IPC_PRIVATE THEN key_to_id
                      ELSE [key_to_id EXCEPT ![key] = 0]
      /\ UNCHANGED <<next_id, created>>

(* ShmSegment::dec_attach.                                                 *)
DecAttach(s) == nattch' = [nattch EXCEPT ![s] = IF @ > 0 THEN @ - 1 ELSE @]

(* ShmSegment::validate, for what can vary: the size asked for and nattch. *)
Validate(s) == nattch[s] <= MaxAttach /\ ds[s].size # 0

(* Variant: validate_segment without the deletion mark.                    *)
ValidateSegmentAnyMark(s, access) == Validate(s) /\ access \subseteq ds[s].mode

(* validate_segment, with check_permissions for the rights asked for.      *)
ValidateSegment(s, access) ==
  ~marked[s] /\ Validate(s) /\ access \subseteq ds[s].mode

-----------------------------------------------------------------------------
(* System calls.  An error return that changes nothing is not a step, and  *)
(* neither is shmget finding the segment of its key.  The arm of           *)
(* get_or_create for a key whose identifier is not in the table has no     *)
(* action: KeyToId below shows it is never taken.                          *)

(* sys_shmget, where get_or_create makes a segment: for IPC_PRIVATE, or    *)
(* with IPC_CREAT for a key that is not registered.                        *)
ShmgetNew(t, key, size, mode) ==
  /\ pc[t] = "user"
  /\ ManagerFree
  /\ size = 0 => key = IPC_PRIVATE
  /\ key # IPC_PRIVATE => key_to_id[key] = 0
  /\ created < MaxSegs
  /\ \E k \in 0..(MaxId - 1) :
       /\ IdFound(k)
       /\ NewSegment(k, key, size, mode) \/ NoPages(k)
  /\ UNCHANGED <<memVars, thrVars>>

(* sys_shmget when alloc_id runs out of attempts: only next_id has moved.  *)
ShmgetNoId(t, key) ==
  /\ pc[t] = "user"
  /\ ManagerFree
  /\ key # IPC_PRIVATE => key_to_id[key] = 0
  /\ Cardinality(Live) < MaxId \div 2
  /\ \A j \in 0..(MAX_ATTEMPTS - 1) : IdAfter(j) \in Live
  /\ next_id' = IdAfter(MAX_ATTEMPTS)
  /\ UNCHANGED <<segments, key_to_id, created, segVars, memVars, thrVars>>

(* sys_shmat takes the address space.                                      *)
ShmatLock(t) ==
  /\ pc[t] = "user"
  /\ AspaceFree(ProcOf[t])
  /\ Goto(t, "shmat_lookup", 0)
  /\ UNCHANGED <<mgrVars, segVars, memVars>>

(* Under the manager: get_by_id, validate_segment, inc_attach; an error    *)
(* returns from the call.                                                  *)
ShmatLookup(t, id, access) ==
  LET s == segments[id]
  IN  /\ pc[t] = "shmat_lookup"
      /\ ManagerFree
      /\ IF s # 0 /\ ValidateSegment(s, access)
         THEN /\ nattch' = [nattch EXCEPT ![s] = @ + 1]
              /\ Goto(t, "shmat_map", s)
         ELSE /\ UNCHANGED nattch
              /\ Return(t)
      /\ UNCHANGED <<mgrVars, ds, marked, memVars>>

(* AddrSpace::contains_range, of a user address: 0 is below its base.      *)
ContainsRange(shmaddr) == shmaddr \in Addrs

FreeAreas(p) == {a \in Addrs : mapped[p][a] = 0}

(* sys_shmat returns EINVAL or ENOMEM while it chooses an address: 0 with  *)
(* SHM_RND, a usable address without it, or no free area.                  *)
ShmatNoAddress(t, rnd, shmaddr) ==
  /\ pc[t] = "shmat_map"
  /\ \/ rnd /\ shmaddr = 0
     \/ ~rnd /\ ContainsRange(shmaddr)
     \/ ~rnd /\ FreeAreas(ProcOf[t]) = {}
  /\ Return(t)
  /\ UNCHANGED <<mgrVars, segVars, memVars>>

(* The address sys_shmat ends up with.                                     *)
ChosenAddr(t, rnd, shmaddr, a) ==
  \/ rnd /\ shmaddr # 0 /\ a = shmaddr
  \/ ~rnd /\ ~ContainsRange(shmaddr) /\ a \in FreeAreas(ProcOf[t])

(* map_linear fails: the area overlaps another, or there are no pages for  *)
(* the tables.  inc_attach is undone.                                      *)
ShmatMapFails(t, rnd, shmaddr) ==
  /\ pc[t] = "shmat_map"
  /\ \E a \in Addrs : ChosenAddr(t, rnd, shmaddr, a)
  /\ DecAttach(seg[t])
  /\ Return(t)
  /\ UNCHANGED <<mgrVars, ds, marked, memVars>>

(* map_linear succeeds and the attachment is recorded, over whatever entry *)
(* the table still had for that address.                                   *)
ShmatAttach(t, rnd, shmaddr) ==
  LET p == ProcOf[t]
  IN  /\ pc[t] = "shmat_map"
      /\ \E a \in FreeAreas(p) :
           /\ ChosenAddr(t, rnd, shmaddr, a)
           /\ mapped' = [mapped EXCEPT ![p][a] = seg[t]]
           /\ attached' = [attached EXCEPT ![p][a] = seg[t]]
      /\ Return(t)
      /\ UNCHANGED <<mgrVars, segVars>>

(* Variant: detach without unmap.                                          *)
ShmdtDetachKeepsArea(t, a) ==
  LET p == ProcOf[t]
  IN  /\ pc[t] = "user"
      /\ AspaceFree(p)
      /\ attached[p][a] # 0
      /\ attached' = [attached EXCEPT ![p][a] = 0]
      /\ DecAttach(attached[p][a])
      /\ Goto(t, "shmdt_remove", attached[p][a])
      /\ UNCHANGED <<mgrVars, ds, marked, mapped>>

(* sys_shmdt up to the manager's lock: detach, unmap, dec_attach.          *)
ShmdtDetach(t, a) ==
  LET p == ProcOf[t]
  IN  /\ pc[t] = "user"
      /\ AspaceFree(p)
      /\ attached[p][a] # 0
      /\ attached' = [attached EXCEPT ![p][a] = 0]
      /\ mapped' = [mapped EXCEPT ![p][a] = 0]
      /\ DecAttach(attached[p][a])
      /\ Goto(t, "shmdt_remove", attached[p][a])
      /\ UNCHANGED <<mgrVars, ds, marked>>

(* The last detach of a marked segment removes it.                         *)
LastDetach(s) == marked[s] /\ nattch[s] = 0

(* sys_shmdt under the manager's lock; when another call has removed the   *)
(* segment meanwhile, remove fails and so does shmdt.                      *)
ShmdtRemove(t) ==
  LET s == seg[t]
  IN  /\ pc[t] = "shmdt_remove"
      /\ ManagerFree
      /\ IF LastDetach(s) /\ segments[ds[s].id] # 0
         THEN Remove(ds[s].id)
         ELSE UNCHANGED mgrVars
      /\ Return(t)
      /\ UNCHANGED <<segVars, memVars>>

(* Variant: IPC_RMID removes whatever the count says.                      *)
ShmctlRmidAtOnce(t, id) ==
  LET s == segments[id]
  IN  /\ pc[t] = "user"
      /\ ManagerFree
      /\ s # 0
      /\ marked' = [marked EXCEPT ![s] = TRUE]
      /\ Remove(id)
      /\ UNCHANGED <<ds, nattch, memVars, thrVars>>

(* sys_shmctl, IPC_RMID.                                                   *)
ShmctlRmid(t, id) ==
  LET s == segments[id]
  IN  /\ pc[t] = "user"
      /\ ManagerFree
      /\ s # 0
      /\ marked' = [marked EXCEPT ![s] = TRUE]
      /\ IF nattch[s] = 0 THEN Remove(id) ELSE UNCHANGED mgrVars
      /\ UNCHANGED <<ds, nattch, memVars, thrVars>>

(* sys_shmctl, IPC_STAT and IPC_SET up to the access to user memory, which *)
(* takes the address space while the manager is held.                      *)
ShmctlLock(t, id) ==
  /\ pc[t] = "user"
  /\ ManagerFree
  /\ segments[id] # 0
  /\ Goto(t, "shmctl_copy", segments[id])
  /\ UNCHANGED <<mgrVars, segVars, memVars>>

(* IPC_STAT, or an IPC_SET that faults, changes nothing; IPC_SET stores    *)
(* the mode it read.                                                       *)
ShmctlCopy(t) ==
  /\ pc[t] = "shmctl_copy"
  /\ AspaceFree(ProcOf[t])
  /\ \/ UNCHANGED ds
     \/ \E mode \in Modes : ds' = [ds EXCEPT ![seg[t]].mode = mode]
  /\ Return(t)
  /\ UNCHANGED <<mgrVars, nattch, marked, memVars>>

(* sys_mmap (at a free address, or over an old area with MAP_FIXED).       *)
Mmap(t, a) ==
  /\ pc[t] = "user"
  /\ AspaceFree(ProcOf[t])
  /\ mapped' = [mapped EXCEPT ![ProcOf[t]][a] = Foreign]
  /\ UNCHANGED <<mgrVars, segVars, attached, thrVars>>

(* sys_munmap, which knows nothing of attachments.                         *)
Munmap(t, a) ==
  /\ pc[t] = "user"
  /\ AspaceFree(ProcOf[t])
  /\ mapped' = [mapped EXCEPT ![ProcOf[t]][a] = 0]
  /\ UNCHANGED <<mgrVars, segVars, attached, thrVars>>

(* do_exit.  With the last thread of a process its attachments are dropped *)
(* and its address space goes; neither the segments nor the manager hear   *)
(* of it.                                                                  *)
Exit(t) ==
  LET p == ProcOf[t]
      last == \A u \in Threads \ {t} : ProcOf[u] = p => pc[u] = "exited"
      Nothing == [a \in Addrs |-> 0]
  IN  /\ pc[t] = "user"
      /\ pc' = [pc EXCEPT ![t] = "exited"]
      /\ IF last THEN /\ attached' = [attached EXCEPT ![p] = Nothing]
                      /\ mapped' = [mapped EXCEPT ![p] = Nothing]
                 ELSE UNCHANGED memVars
      /\ UNCHANGED <<mgrVars, segVars, seg>>

-----------------------------------------------------------------------------
(* No segment exists and nobody is inside a system call.                   *)
ShmInit ==
  /\ segments = [i \in Ids |-> 0]
  /\ key_to_id = [k \in Keys |-> 0]
  /\ next_id = 1
  /\ created = 0
  /\ ds \in [Serials -> [id: {0}, key: {IPC_PRIVATE}, size: {0}, mode: {{}}]]
  /\ nattch = [s \in Serials |-> 0]
  /\ marked = [s \in Serials |-> FALSE]
  /\ attached = [p \in Procs |-> [a \in Addrs |-> 0]]
  /\ mapped = [p \in Procs |-> [a \in Addrs |-> 0]]
  /\ seg = [t \in Threads |-> 0]

Init == ShmInit /\ pc = [t \in Threads |-> "user"]

(* What a thread may do next.                                              *)
Shmget(t) ==
  \/ \E key \in Keys \cup {IPC_PRIVATE}, size \in {0, 1}, mode \in Modes :
       ShmgetNew(t, key, size, mode)
  \/ \E key \in Keys \cup {IPC_PRIVATE} : ShmgetNoId(t, key)

Shmat(t) ==
  \/ ShmatLock(t)
  \/ \E id \in Ids, access \in {{"r"}, {"r", "w"}} : ShmatLookup(t, id, access)
  \/ \E rnd \in BOOLEAN, shmaddr \in Addrs \cup {0} :
       \/ ShmatNoAddress(t, rnd, shmaddr)
       \/ ShmatMapFails(t, rnd, shmaddr)
       \/ ShmatAttach(t, rnd, shmaddr)

Shmdt(t) == (\E a \in Addrs : ShmdtDetach(t, a)) \/ ShmdtRemove(t)

Shmctl(t) ==
  \/ \E id \in Ids : ShmctlRmid(t, id) \/ ShmctlLock(t, id)
  \/ ShmctlCopy(t)

Next ==
  \E t \in Threads :
    \/ Shmget(t) \/ Shmat(t) \/ Shmdt(t) \/ Shmctl(t) \/ Exit(t)
    \/ \E a \in Addrs : Mmap(t, a) \/ Munmap(t, a)

Spec == Init /\ [][Next]_vars

-----------------------------------------------------------------------------
(* Every variable keeps the type its Rust declaration gives it.            *)
TypeOK ==
  /\ segments \in [Ids -> 0..MaxSegs]
  /\ key_to_id \in [Keys -> 0..MaxId]
  /\ next_id \in Ids
  /\ created \in 0..MaxSegs
  /\ ds \in [Serials -> Ds]
  /\ nattch \in [Serials -> Nat]
  /\ marked \in [Serials -> BOOLEAN]
  /\ attached \in [Procs -> [Addrs -> 0..MaxSegs]]
  /\ mapped \in [Procs -> [Addrs -> -1..MaxSegs]]
  /\ pc \in [Threads -> PCs]
  /\ seg \in [Threads -> 0..MaxSegs]

(* The two tables of ShmManager agree: a key leads to a registered segment *)
(* that carries it, and a registered segment with a key is the one the key *)
(* leads to.  So get_or_create never meets a key without a segment.        *)
KeyToId ==
  /\ \A i \in Ids : segments[i] # 0 => ds[segments[i]].id = i
  /\ \A k \in Keys : key_to_id[k] # 0 =>
        segments[key_to_id[k]] # 0 /\ ds[segments[key_to_id[k]]].key = k
  /\ \A i \in Ids : segments[i] # 0 /\ ds[segments[i]].key # IPC_PRIVATE =>
        key_to_id[ds[segments[i]].key] = i

(* The attachments of s, and the calls of shmat that have counted          *)
(* themselves but not recorded an attachment yet.                          *)
Attachments(s) == {pa \in Procs \X Addrs : attached[pa[1]][pa[2]] = s}
Attaching(s) == {t \in Threads : pc[t] = "shmat_map" /\ seg[t] = s}

(* shm_nattch never falls short of the attachments that exist or are being *)
(* made, whatever fails in between.                                        *)
CountCoversUse ==
  \A s \in Serials :
    nattch[s] >= Cardinality(Attachments(s)) + Cardinality(Attaching(s))

(* A segment is not taken from the manager while a process has it attached *)
(* or is attaching it: RMID and the last shmdt only remove unused segments.*)
UsedStaysRegistered ==
  \A s \in Serials :
    Attachments(s) # {} \/ Attaching(s) # {} => segments[ds[s].id] = s

(* An area of a segment in an address space is in the table of that        *)
(* process, at the same address, so that shmdt can find it.                *)
TrackedMappings ==
  \A p \in Procs, a \in Addrs :
    mapped[p][a] \in Serials => attached[p][a] = mapped[p][a]

(* Once IPC_RMID has marked a segment, no shmat adds an attachment to its  *)
(* count, however the two calls interleave, and the mark stays.            *)
NoAttachAfterRmid ==
  [][\A s \in Serials : marked[s] => nattch'[s] <= nattch[s] /\ marked'[s]]_vars
=============================================================================
