----------------------------- MODULE ShmProofs -----------------------------
(***************************************************************************)
(* Proofs about Shm for any processes, threads, keys, addresses and limits.*)
(* The tables of the manager come first; the counts of the segments and    *)
(* the attachments rest on them.  All of it is first shown for a fixed set *)
(* of threads, and then with fork, clone and execve.                       *)
(***************************************************************************)
EXTENDS ShmFork, FiniteSetTheorems, TLAPS

(* A segment that ShmSegment::new has made.                                *)
Known(s) == s \in 1..created /\ ds[s].id \in Ids

(* Tables, attachments and running calls refer to segments that were made. *)
AllKnown ==
  /\ \A i \in Ids : segments[i] # 0 => Known(segments[i])
  /\ \A t \in Threads : seg[t] # 0 => Known(seg[t])
  /\ \A p \in Procs, a \in Addrs : attached[p][a] # 0 => Known(attached[p][a])
  /\ \A t \in Threads :
       pc[t] \in {"shmat_map", "shmdt_remove", "shmctl_copy"} => seg[t] # 0

TablesInv == TypeOK /\ AllKnown /\ KeyToId

-----------------------------------------------------------------------------
(* The constants, as the types below need them.                            *)
LEMMA Constants ==
  /\ MaxId \in Nat \ {0} /\ MaxSegs \in Nat \ {0}
  /\ 0 \in 0..MaxSegs /\ 0 \in -1..MaxSegs /\ -1 \in -1..MaxSegs
  /\ \A t \in Threads : ProcOf[t] \in Procs
  BY SMTT(30), ShmAssumption

(* A thread moves on within a call, or returns.                            *)
LEMMA GotoTypes ==
  ASSUME TypeOK, NEW t \in Threads, NEW l \in PCs, NEW s \in 0..MaxSegs,
         Goto(t, l, s)
  PROVE  pc' \in [Threads -> PCs] /\ seg' \in [Threads -> 0..MaxSegs]
  BY Zenon DEF TypeOK, Goto

(* dec_attach keeps the counts natural numbers.                            *)
LEMMA DecAttachTypes ==
  ASSUME TypeOK, NEW s \in Serials, DecAttach(s)
  PROVE  /\ nattch' \in [Serials -> Nat]
         /\ \A r \in Serials : nattch'[r] <= nattch[r]
         /\ \A r \in Serials \ {s} : nattch'[r] = nattch[r]
         /\ nattch'[s] >= nattch[s] - 1
  BY DEF TypeOK, DecAttach

(* An area is put into, or taken out of, an address space.                 *)
LEMMA AreaTypes ==
  ASSUME TypeOK, NEW p \in Procs, NEW a \in Addrs, NEW v \in -1..MaxSegs,
         mapped' = [mapped EXCEPT ![p][a] = v]
  PROVE  mapped' \in [Procs -> [Addrs -> -1..MaxSegs]]
  BY Zenon DEF TypeOK

(* alloc_id only ever tries identifiers from 1 to i32::MAX.                *)
LEMMA IdAfterInIds ==
  ASSUME TypeOK, NEW k \in Nat PROVE IdAfter(k) \in Ids
<1>1. MaxId \in Nat \ {0} /\ next_id - 1 + k \in Nat
  BY ShmAssumption DEF TypeOK, Ids
<1>2. (next_id - 1 + k) % MaxId \in 0..(MaxId - 1)
  BY <1>1
<1> QED  BY <1>1, <1>2 DEF IdAfter, Ids

(* An empty manager and no attachments satisfy the invariant.              *)
LEMMA InitTables ==
  ASSUME ShmInit, pc \in [Threads -> {"user", "exited"}] PROVE TablesInv
<1>1. pc \in [Threads -> PCs]
      /\ \A t \in Threads : pc[t] \notin {"shmat_map", "shmdt_remove", "shmctl_copy"}
  BY Zenon DEF PCs
<1>2. TypeOK
  BY <1>1, ShmAssumption DEF ShmInit, TypeOK, Ids, Serials, Ds
<1>3. AllKnown /\ KeyToId
  BY Zenon, <1>1 DEF ShmInit, AllKnown, KeyToId
<1> QED  BY Zenon, <1>2, <1>3 DEF TablesInv

(* get_or_create puts a new segment under an identifier and a key that are *)
(* both unused.                                                            *)
LEMMA NewSegmentTables ==
  ASSUME TablesInv, NEW k \in Nat, IdFound(k), created < MaxSegs,
         NEW key \in Keys \cup {IPC_PRIVATE}, NEW size \in {0, 1},
         NEW mode \in Modes, key # IPC_PRIVATE => key_to_id[key] = 0,
         NewSegment(k, key, size, mode), UNCHANGED <<memVars, thrVars>>
  PROVE  TablesInv'
<1> DEFINE s == created + 1
           id == IdAfter(k)
<1>1. id \in Ids /\ IdAfter(k + 1) \in Ids
  BY IdAfterInIds DEF TablesInv
<1>2. s \in Serials /\ s \in 0..MaxSegs /\ segments[id] = 0
  BY <1>1, ShmAssumption DEF TablesInv, TypeOK, Serials, IdFound, Live
<1>3. /\ created' = s /\ next_id' = IdAfter(k + 1)
      /\ segments' = [segments EXCEPT ![id] = s]
      /\ key_to_id' = IF key = IPC_PRIVATE THEN key_to_id
                      ELSE [key_to_id EXCEPT ![key] = id]
      /\ ds' = [ds EXCEPT ![s] = [id |-> id, key |-> key,
                                  size |-> size, mode |-> mode]]
      /\ UNCHANGED <<nattch, marked, attached, mapped, pc, seg>>
  BY Zenon DEF NewSegment, memVars, thrVars
<1> HIDE DEF id
<1>4. ds'[s] = [id |-> id, key |-> key, size |-> size, mode |-> mode]
  BY Zenon, <1>2, <1>3 DEF TablesInv, TypeOK
<1>5. \A r \in Serials : r # s => ds'[r] = ds[r]
  BY Zenon, <1>2, <1>3 DEF TablesInv, TypeOK
<1>6. TypeOK'
  <2>1. [id |-> id, key |-> key, size |-> size, mode |-> mode] \in Ds
    BY Zenon, <1>1, ShmAssumption DEF Ds
  <2> QED  BY SMTT(30), <1>1, <1>2, <1>3, <2>1 DEF TablesInv, TypeOK, Ids
<1>7. AllKnown'
  <2>1. \A r : Known(r) => Known(r)'
    BY SMTT(30), <1>2, <1>3, <1>5, ShmAssumption DEF Known, TablesInv, TypeOK, Serials
  <2>2. \A r : r = s => Known(r)'
    BY SMTT(30), <1>1, <1>2, <1>3, <1>4 DEF Known, Serials
  <2> QED  BY Zenon, <1>1, <1>2, <1>3, <2>1, <2>2 DEF TablesInv, AllKnown, TypeOK
<1>8. KeyToId'
  <2>1. \A i \in Ids : segments[i] # 0 => segments[i] \in Serials /\ segments[i] # s
    BY ShmAssumption DEF TablesInv, AllKnown, Known, TypeOK, Serials
  <2>2. \A i \in Ids : segments'[i] = IF i = id THEN s ELSE segments[i]
    BY Zenon, <1>1, <1>3 DEF TablesInv, TypeOK
  <2>3. \A j \in Keys : key_to_id'[j] = IF j = key THEN id ELSE key_to_id[j]
    BY Zenon, <1>3, ShmAssumption DEF TablesInv, TypeOK
  <2>4. ASSUME NEW i \in Ids, segments'[i] # 0 PROVE ds'[segments'[i]].id = i
    BY <1>4, <1>5, <2>1, <2>2, <2>4 DEF TablesInv, KeyToId
  <2>5. ASSUME NEW j \in Keys, key_to_id'[j] # 0
        PROVE  segments'[key_to_id'[j]] # 0 /\ ds'[segments'[key_to_id'[j]]].key = j
    <3>1. CASE j = key
      BY SMTT(30), <1>1, <1>2, <1>4, <2>2, <2>3, <3>1 DEF Serials
    <3>2. CASE j # key
      <4>1. key_to_id'[j] = key_to_id[j] /\ key_to_id[j] \in Ids
        BY <2>3, <2>5, <3>2, ShmAssumption DEF TablesInv, TypeOK, Ids
      <4> QED  BY <1>2, <1>5, <2>1, <2>2, <2>5, <4>1 DEF TablesInv, KeyToId
    <3> QED  BY Zenon, <3>1, <3>2
  <2>6. ASSUME NEW i \in Ids, segments'[i] # 0,
               ds'[segments'[i]].key # IPC_PRIVATE
        PROVE  key_to_id'[ds'[segments'[i]].key] = i
    <3>1. CASE i = id
      BY <1>4, <2>2, <2>3, <2>6, <3>1
    <3>2. CASE i # id
      <4>1. segments'[i] = segments[i] /\ segments[i] \in Serials
            /\ ds'[segments'[i]] = ds[segments[i]]
        BY Zenon, <1>5, <2>1, <2>2, <2>6, <3>2
      <4>2. ds[segments[i]].key \in Keys /\ key_to_id[ds[segments[i]].key] = i
        BY <2>6, <4>1 DEF TablesInv, TypeOK, KeyToId, Ds
      <4>3. ds[segments[i]].key # key
        BY SMTT(20), <4>2, ShmAssumption DEF Ids
      <4> QED  BY Zenon, <2>3, <4>1, <4>2, <4>3
    <3> QED  BY Zenon, <3>1, <3>2
  <2> QED  BY Zenon, <2>4, <2>5, <2>6 DEF KeyToId
<1> QED  BY Zenon, <1>6, <1>7, <1>8 DEF TablesInv

(* ShmManager::remove takes a segment out of both tables and leaves the    *)
(* others.                                                                 *)
LEMMA RemoveTables ==
  ASSUME TablesInv, NEW id \in Ids, segments[id] # 0, Remove(id), UNCHANGED ds
  PROVE  /\ segments' \in [Ids -> 0..MaxSegs] /\ key_to_id' \in [Keys -> 0..MaxId]
         /\ \A i \in Ids : segments'[i] = IF i = id THEN 0 ELSE segments[i]
         /\ UNCHANGED <<next_id, created>>
         /\ KeyToId'
<1>1. \A i \in Ids : segments[i] # 0 =>
        segments[i] \in Serials /\ ds[segments[i]] \in Ds
  BY ShmAssumption DEF TablesInv, TypeOK, Serials
<1>2. PICK key \in Keys \cup {IPC_PRIVATE} :
        /\ key = ds[segments[id]].key
        /\ segments' = [segments EXCEPT ![id] = 0]
        /\ key_to_id' = IF key = IPC_PRIVATE THEN key_to_id
                        ELSE [key_to_id EXCEPT ![key] = 0]
        /\ UNCHANGED <<next_id, created>>
  BY Zenon, <1>1 DEF Remove, Ds
<1>3. /\ segments' \in [Ids -> 0..MaxSegs] /\ key_to_id' \in [Keys -> 0..MaxId]
      /\ \A i \in Ids : segments'[i] = IF i = id THEN 0 ELSE segments[i]
      /\ \A k \in Keys : key_to_id'[k] = IF k = key THEN 0 ELSE key_to_id[k]
  BY <1>2, ShmAssumption DEF TablesInv, TypeOK
<1>4. \A k \in Keys : key_to_id[k] # 0 =>
        /\ key_to_id[k] \in Ids /\ segments[key_to_id[k]] # 0
        /\ ds[segments[key_to_id[k]]].key = k
  BY ShmAssumption DEF TablesInv, TypeOK, KeyToId, Ids
<1>5. ASSUME NEW k \in Keys, key_to_id'[k] # 0
      PROVE  segments'[key_to_id'[k]] # 0 /\ ds'[segments'[key_to_id'[k]]].key = k
  <2>1. k # key /\ key_to_id'[k] = key_to_id[k] /\ key_to_id[k] # id
    BY <1>2, <1>3, <1>4, <1>5
  <2> QED  BY Zenon, <1>3, <1>4, <1>5, <2>1
<1>6. ASSUME NEW i \in Ids, segments'[i] # 0, ds'[segments'[i]].key # IPC_PRIVATE
      PROVE  key_to_id'[ds'[segments'[i]].key] = i
  <2>1. i # id /\ segments'[i] = segments[i] /\ segments[i] # 0
    BY Zenon, <1>3, <1>6
  <2>2. ds[segments[i]].key \in Keys /\ key_to_id[ds[segments[i]].key] = i
    BY Zenon, <1>1, <1>6, <2>1 DEF TablesInv, KeyToId, Ds
  <2>3. ds[segments[i]].key # key
    <3> SUFFICES ASSUME ds[segments[i]].key = key PROVE FALSE  OBVIOUS
    <3>1. key # IPC_PRIVATE
      BY Zenon, <2>2, ShmAssumption
    <3>2. key_to_id[key] = id
      BY Zenon, <1>2, <3>1 DEF TablesInv, KeyToId
    <3> QED  BY Zenon, <2>1, <2>2, <3>2
  <2> QED  BY Zenon, <1>3, <2>1, <2>2, <2>3
<1>7. \A i \in Ids : segments'[i] # 0 => ds'[segments'[i]].id = i
  BY Zenon, <1>3 DEF TablesInv, KeyToId
<1> QED  BY Zenon, <1>2, <1>3, <1>5, <1>6, <1>7 DEF KeyToId

(* Where the manager and the segments' records are left alone, so are the  *)
(* statements about them.                                                  *)
LEMMA SameTables ==
  ASSUME TablesInv, UNCHANGED <<mgrVars, ds>>
  PROVE  KeyToId' /\ \A s : Known(s)' <=> Known(s)
  BY Zenon DEF TablesInv, KeyToId, Known, mgrVars

(* shmget.                                                                 *)
LEMMA ShmgetTables ==
  ASSUME TablesInv, NEW t \in Threads, Shmget(t) PROVE TablesInv'
<1>1. ASSUME NEW key \in Keys \cup {IPC_PRIVATE}, NEW size \in {0, 1},
             NEW mode \in Modes, ShmgetNew(t, key, size, mode)
      PROVE  TablesInv'
  <2>1. PICK k \in 0..(MaxId - 1) :
          IdFound(k) /\ (NewSegment(k, key, size, mode) \/ NoPages(k))
    BY Zenon, <1>1 DEF ShmgetNew
  <2>2. k \in Nat /\ created < MaxSegs /\ UNCHANGED <<memVars, thrVars>>
    BY <1>1 DEF ShmgetNew
  <2>3. CASE NewSegment(k, key, size, mode)
    BY Zenon, <1>1, <2>1, <2>2, <2>3, NewSegmentTables DEF ShmgetNew
  <2>4. CASE NoPages(k)
    <3>1. IdAfter(k + 1) \in Ids
      BY <2>2, IdAfterInIds DEF TablesInv
    <3>2. TypeOK'
      BY <2>2, <2>4, <3>1, ShmAssumption
         DEF TablesInv, TypeOK, NoPages, segVars, memVars, thrVars
    <3>3. \A s : Known(s) => Known(s)'
      BY <2>4 DEF TablesInv, TypeOK, Known, NoPages, segVars
    <3>4. AllKnown'
      BY Zenon, <2>2, <2>4, <3>3 DEF TablesInv, AllKnown, NoPages, memVars, thrVars
    <3>5. KeyToId'
      BY Zenon, <2>4 DEF TablesInv, KeyToId, NoPages, segVars
    <3> QED  BY Zenon, <3>2, <3>4, <3>5 DEF TablesInv
  <2> QED  BY Zenon, <2>1, <2>3, <2>4
<1>2. ASSUME NEW key \in Keys \cup {IPC_PRIVATE}, ShmgetNoId(t, key)
      PROVE  TablesInv'
  <2>1. IdAfter(MAX_ATTEMPTS) \in Ids
    BY Zenon, IdAfterInIds, ShmAssumption DEF TablesInv
  <2> QED  BY Zenon, <1>2, <2>1 DEF TablesInv, TypeOK, AllKnown, Known, KeyToId,
              ShmgetNoId, segVars, memVars, thrVars
<1> QED  BY Zenon, <1>1, <1>2 DEF Shmget

(* Every action with an id argument refers to a segment of the table.      *)
LEMMA LookedUp ==
  ASSUME TablesInv, NEW id \in Ids, segments[id] # 0
  PROVE  /\ segments[id] \in Serials /\ Known(segments[id])
         /\ ds[segments[id]].id = id
  BY ShmAssumption DEF TablesInv, TypeOK, AllKnown, KeyToId, Serials

(* So does every call that holds a segment, and every attachment.          *)
LEMMA Held ==
  ASSUME TablesInv
  PROVE  /\ \A t \in Threads :
              pc[t] \in {"shmat_map", "shmdt_remove", "shmctl_copy"}
                => seg[t] \in Serials /\ Known(seg[t])
         /\ \A p \in Procs, a \in Addrs :
              attached[p][a] # 0 => attached[p][a] \in Serials
  BY Constants DEF TablesInv, TypeOK, AllKnown, Serials

(* shmat.                                                                  *)
LEMMA ShmatTables ==
  ASSUME TablesInv, NEW t \in Threads, Shmat(t) PROVE TablesInv'
<1>1. CASE ShmatLock(t)
  <2>1. TypeOK'
    BY Zenon, <1>1, Constants, GotoTypes DEF TablesInv, TypeOK, PCs, ShmatLock, mgrVars,
       segVars, memVars
  <2>2. KeyToId' /\ \A s : Known(s)' <=> Known(s)
    BY Zenon, <1>1, SameTables DEF ShmatLock, segVars
  <2>3. AllKnown'
    BY Zenon, <1>1, <2>2 DEF TablesInv, TypeOK, AllKnown, ShmatLock, Goto, mgrVars, memVars
  <2> QED  BY Zenon, <2>1, <2>2, <2>3 DEF TablesInv
<1>2. ASSUME NEW id \in Ids, NEW access, ShmatLookup(t, id, access)
      PROVE  TablesInv'
  <2>1. TypeOK'
    <3>1. pc' \in [Threads -> PCs] /\ seg' \in [Threads -> 0..MaxSegs]
      BY Zenon, <1>2, Constants, LookedUp, GotoTypes
         DEF TablesInv, TypeOK, PCs, ShmatLookup, Return
    <3>2. nattch' \in [Serials -> Nat]
      BY <1>2, LookedUp DEF TablesInv, TypeOK, ShmatLookup
    <3> QED  BY Zenon, <1>2, <3>1, <3>2 DEF TablesInv, TypeOK, ShmatLookup, mgrVars, memVars
  <2>2. KeyToId' /\ \A s : Known(s)' <=> Known(s)
    BY Zenon, <1>2, SameTables DEF ShmatLookup
  <2>3. AllKnown'
    <3>1. UNCHANGED <<segments, attached>>
      BY Zenon, <1>2 DEF ShmatLookup, mgrVars, memVars
    <3>2. \A u \in Threads \ {t} : pc'[u] = pc[u] /\ seg'[u] = seg[u]
      BY Zenon, <1>2 DEF TablesInv, TypeOK, ShmatLookup, Goto, Return
    <3>3. \/ pc'[t] = "user" /\ seg'[t] = 0
          \/ segments[id] # 0 /\ seg'[t] = segments[id]
      BY Zenon, <1>2 DEF TablesInv, TypeOK, ShmatLookup, Goto, Return
    <3>4. segments[id] # 0 => Known(segments[id])
      BY Zenon, LookedUp
    <3> QED  BY Zenon, <2>2, <3>1, <3>2, <3>3, <3>4 DEF TablesInv, AllKnown
  <2> QED  BY Zenon, <2>1, <2>2, <2>3 DEF TablesInv
<1>3. ASSUME NEW rnd, NEW shmaddr,
             ShmatNoAddress(t, rnd, shmaddr) \/ ShmatMapFails(t, rnd, shmaddr)
      PROVE  TablesInv'
  <2>1. TypeOK'
    <3>1. pc' \in [Threads -> PCs] /\ seg' \in [Threads -> 0..MaxSegs]
      BY Zenon, <1>3, Constants, GotoTypes
         DEF TablesInv, PCs, ShmatNoAddress, ShmatMapFails, Return
    <3>2. nattch' \in [Serials -> Nat]
      BY Zenon, <1>3, Held, DecAttachTypes
         DEF TablesInv, TypeOK, ShmatNoAddress, ShmatMapFails, segVars
    <3> QED  BY Zenon, <1>3, <3>1, <3>2 DEF TablesInv, TypeOK, ShmatNoAddress, ShmatMapFails,
                mgrVars, segVars, memVars
  <2>2. KeyToId' /\ \A s : Known(s)' <=> Known(s)
    BY Zenon, <1>3, SameTables DEF ShmatNoAddress, ShmatMapFails, segVars
  <2>3. AllKnown'
    BY Zenon, <1>3, <2>2 DEF TablesInv, TypeOK, AllKnown, ShmatNoAddress, ShmatMapFails,
       Goto, Return, mgrVars, memVars
  <2> QED  BY Zenon, <2>1, <2>2, <2>3 DEF TablesInv
<1>4. ASSUME NEW rnd, NEW shmaddr, ShmatAttach(t, rnd, shmaddr)
      PROVE  TablesInv'
  <2>1. PICK a \in FreeAreas(ProcOf[t]) :
          /\ mapped' = [mapped EXCEPT ![ProcOf[t]][a] = seg[t]]
          /\ attached' = [attached EXCEPT ![ProcOf[t]][a] = seg[t]]
    BY Zenon, <1>4 DEF ShmatAttach
  <2>2. a \in Addrs /\ ProcOf[t] \in Procs
    BY Zenon, <2>1, ShmAssumption DEF FreeAreas
  <2>3. TypeOK'
    <3>1. pc' \in [Threads -> PCs] /\ seg' \in [Threads -> 0..MaxSegs]
      BY Zenon, <1>4, Constants, GotoTypes DEF TablesInv, PCs, ShmatAttach, Return
    <3>2. seg[t] \in 0..MaxSegs /\ seg[t] \in -1..MaxSegs
      BY Constants DEF TablesInv, TypeOK
    <3>3. /\ attached' \in [Procs -> [Addrs -> 0..MaxSegs]]
          /\ mapped' \in [Procs -> [Addrs -> -1..MaxSegs]]
      BY Zenon, <2>1, <2>2, <3>2 DEF TablesInv, TypeOK
    <3> QED  BY Zenon, <1>4, <3>1, <3>3 DEF TablesInv, TypeOK, ShmatAttach, mgrVars, segVars
  <2>4. KeyToId' /\ \A s : Known(s)' <=> Known(s)
    BY Zenon, <1>4, SameTables DEF ShmatAttach, segVars
  <2>5. AllKnown'
    BY <1>4, <2>1, <2>2, <2>4 DEF TablesInv, TypeOK, AllKnown, ShmatAttach,
       Goto, Return, mgrVars
  <2> QED  BY Zenon, <2>3, <2>4, <2>5 DEF TablesInv
<1> QED  BY Zenon, <1>1, <1>2, <1>3, <1>4 DEF Shmat

(* shmdt.                                                                  *)
LEMMA ShmdtTables ==
  ASSUME TablesInv, NEW t \in Threads, Shmdt(t) PROVE TablesInv'
<1>1. ASSUME NEW a \in Addrs, ShmdtDetach(t, a) PROVE TablesInv'
  <2>1. ProcOf[t] \in Procs
    BY Zenon, ShmAssumption
  <2>2. TypeOK'
    <3>1. attached[ProcOf[t]][a] \in 0..MaxSegs
      BY Zenon, <2>1 DEF TablesInv, TypeOK
    <3>2. pc' \in [Threads -> PCs] /\ seg' \in [Threads -> 0..MaxSegs]
      BY Zenon, <1>1, <3>1, GotoTypes DEF TablesInv, PCs, ShmdtDetach
    <3>3. nattch' \in [Serials -> Nat]
      BY Zenon, <1>1, <2>1, Held, DecAttachTypes DEF TablesInv, ShmdtDetach
    <3>4. /\ attached' \in [Procs -> [Addrs -> 0..MaxSegs]]
          /\ mapped' \in [Procs -> [Addrs -> -1..MaxSegs]]
      BY Zenon, <1>1, <2>1, Constants DEF TablesInv, TypeOK, ShmdtDetach
    <3> QED  BY Zenon, <1>1, <3>2, <3>3, <3>4 DEF TablesInv, TypeOK, ShmdtDetach, mgrVars
  <2>3. KeyToId' /\ \A s : Known(s)' <=> Known(s)
    BY Zenon, <1>1, SameTables DEF ShmdtDetach
  <2>4. AllKnown'
    BY Zenon, <1>1, <2>1, <2>3 DEF TablesInv, TypeOK, AllKnown, ShmdtDetach, Goto, mgrVars
  <2> QED  BY Zenon, <2>2, <2>3, <2>4 DEF TablesInv
<1>2. CASE ShmdtRemove(t)
  <2> DEFINE id == ds[seg[t]].id
  <2>1. Known(seg[t]) /\ id \in Ids
    BY Zenon, <1>2 DEF ShmdtRemove, TablesInv, AllKnown, Known
  <2>2. /\ segments' \in [Ids -> 0..MaxSegs] /\ key_to_id' \in [Keys -> 0..MaxId]
        /\ \A i \in Ids : segments'[i] \in {0, segments[i]}
        /\ UNCHANGED <<next_id, created>> /\ KeyToId'
    <3>1. UNCHANGED <<ds, nattch, marked, attached, mapped>>
      BY Zenon, <1>2 DEF ShmdtRemove, segVars, memVars
    <3>2. CASE Remove(id) /\ segments[id] # 0
      BY Zenon, <2>1, <3>1, <3>2, RemoveTables
    <3>3. CASE UNCHANGED mgrVars
      BY Zenon, <3>1, <3>3, SameTables DEF TablesInv, TypeOK, mgrVars
    <3> QED  BY Zenon, <1>2, <3>2, <3>3 DEF ShmdtRemove
  <2>3. TypeOK'
    <3>1. pc' \in [Threads -> PCs] /\ seg' \in [Threads -> 0..MaxSegs]
      BY Zenon, <1>2, Constants, GotoTypes DEF TablesInv, PCs, ShmdtRemove, Return
    <3> QED  BY SMTT(20), <1>2, <2>2, <3>1 DEF TablesInv, TypeOK, ShmdtRemove, segVars, memVars
  <2>4. AllKnown'
    BY Zenon, <1>2, <2>2 DEF TablesInv, TypeOK, AllKnown, Known, ShmdtRemove, Goto, Return,
       segVars, memVars
  <2> QED  BY Zenon, <2>2, <2>3, <2>4 DEF TablesInv
<1> QED  BY Zenon, <1>1, <1>2 DEF Shmdt

(* shmctl.                                                                 *)
LEMMA ShmctlTables ==
  ASSUME TablesInv, NEW t \in Threads, Shmctl(t) PROVE TablesInv'
<1>1. ASSUME NEW id \in Ids, ShmctlRmid(t, id) PROVE TablesInv'
  <2>1. segments[id] # 0 /\ segments[id] \in Serials
    BY Zenon, <1>1, LookedUp DEF ShmctlRmid
  <2>2. /\ segments' \in [Ids -> 0..MaxSegs] /\ key_to_id' \in [Keys -> 0..MaxId]
        /\ \A i \in Ids : segments'[i] \in {0, segments[i]}
        /\ UNCHANGED <<next_id, created>> /\ KeyToId'
    <3>1. CASE Remove(id)
      BY Zenon, <1>1, <2>1, <3>1, RemoveTables DEF ShmctlRmid
    <3>2. CASE UNCHANGED mgrVars
      BY Zenon, <1>1, <3>2, SameTables DEF ShmctlRmid, TablesInv, TypeOK, mgrVars
    <3> QED  BY Zenon, <1>1, <3>1, <3>2 DEF ShmctlRmid
  <2>3. TypeOK'
    BY Zenon, <1>1, <2>1, <2>2 DEF TablesInv, TypeOK, ShmctlRmid, memVars, thrVars
  <2>4. AllKnown'
    BY Zenon, <1>1, <2>2 DEF TablesInv, TypeOK, AllKnown, Known, ShmctlRmid, memVars, thrVars
  <2> QED  BY SMTT(20), <2>2, <2>3, <2>4 DEF TablesInv
<1>2. ASSUME NEW id \in Ids, ShmctlLock(t, id) PROVE TablesInv'
  <2>1. TypeOK'
    BY Zenon, <1>2, LookedUp DEF TablesInv, TypeOK, PCs, ShmctlLock, Goto, mgrVars, segVars,
       memVars
  <2>2. KeyToId' /\ \A s : Known(s)' <=> Known(s)
    BY Zenon, <1>2, SameTables DEF ShmctlLock, segVars
  <2>3. AllKnown'
    BY Zenon, <1>2, <2>2, LookedUp DEF TablesInv, TypeOK, AllKnown, ShmctlLock, Goto,
       mgrVars, memVars
  <2> QED  BY Zenon, <2>1, <2>2, <2>3 DEF TablesInv
<1>3. CASE ShmctlCopy(t)
  <2>1. seg[t] \in Serials
    BY <1>3, ShmAssumption DEF ShmctlCopy, TablesInv, TypeOK, AllKnown, Known, Serials
  <2>2. /\ ds' \in [Serials -> Ds]
        /\ \A s \in Serials : ds'[s].id = ds[s].id /\ ds'[s].key = ds[s].key
    <3>1. CASE UNCHANGED ds
      BY Zenon, <3>1 DEF TablesInv, TypeOK
    <3>2. ASSUME NEW mode \in Modes, ds' = [ds EXCEPT ![seg[t]].mode = mode]
          PROVE  /\ ds' \in [Serials -> Ds]
                 /\ \A s \in Serials : ds'[s].id = ds[s].id /\ ds'[s].key = ds[s].key
      <4>1. mode \in SUBSET {"r", "w"}
        BY Zenon, ShmAssumption
      <4>2. PICK d \in Ds : /\ d.id = ds[seg[t]].id /\ d.key = ds[seg[t]].key
                             /\ d = [ds[seg[t]] EXCEPT !.mode = mode]
        <5>1. ds[seg[t]] \in Ds
          BY Zenon, <2>1 DEF TablesInv, TypeOK
        <5> QED  BY Zenon, <4>1, <5>1 DEF Ds
      <4>3. ds' = [ds EXCEPT ![seg[t]] = d]
        BY Zenon, <3>2, <4>2
      <4> QED  BY Zenon, <2>1, <4>2, <4>3 DEF TablesInv, TypeOK
    <3> QED  BY Zenon, <1>3, <3>1, <3>2 DEF ShmctlCopy
  <2>3. TypeOK'
    <3>1. pc' \in [Threads -> PCs] /\ seg' \in [Threads -> 0..MaxSegs]
      BY Zenon, <1>3, Constants, GotoTypes DEF TablesInv, PCs, ShmctlCopy, Return
    <3> QED  BY Zenon, <1>3, <2>2, <3>1 DEF TablesInv, TypeOK, ShmctlCopy, mgrVars, memVars
  <2>4. \A s : Known(s) => Known(s)'
    BY SMTT(30), <1>3, <2>2, ShmAssumption
       DEF Known, Serials, TablesInv, TypeOK, ShmctlCopy, mgrVars
  <2>5. AllKnown'
    BY Zenon, <1>3, <2>4 DEF TablesInv, TypeOK, AllKnown, ShmctlCopy, Goto, Return, mgrVars,
       memVars
  <2>6. KeyToId'
    <3>1. UNCHANGED <<segments, key_to_id>>
      BY Zenon, <1>3 DEF ShmctlCopy, mgrVars
    <3>2. \A i \in Ids : segments[i] # 0 => segments[i] \in Serials
      BY Zenon, LookedUp
    <3>3. \A k \in Keys : key_to_id[k] # 0 => key_to_id[k] \in Ids
      BY ShmAssumption DEF TablesInv, TypeOK, Ids
    <3> QED  BY Zenon, <2>2, <3>1, <3>2, <3>3 DEF TablesInv, KeyToId
  <2> QED  BY Zenon, <2>3, <2>5, <2>6 DEF TablesInv
<1> QED  BY Zenon, <1>1, <1>2, <1>3 DEF Shmctl

(* mmap, munmap and exit.                                                  *)
LEMMA MemoryTables ==
  ASSUME TablesInv, NEW t \in Threads,
         Exit(t) \/ \E a \in Addrs : Mmap(t, a) \/ Munmap(t, a)
  PROVE  TablesInv'
<1>1. /\ pc' \in [Threads -> PCs] /\ UNCHANGED <<mgrVars, segVars, seg>>
      /\ \A u \in Threads : pc'[u] \in {pc[u], "exited"}
  BY Zenon DEF TablesInv, TypeOK, PCs, Exit, Mmap, Munmap, thrVars
<1>2. /\ mapped' \in [Procs -> [Addrs -> -1..MaxSegs]]
      /\ attached' \in [Procs -> [Addrs -> 0..MaxSegs]]
      /\ \A p \in Procs, a \in Addrs : attached'[p][a] \in {attached[p][a], 0}
  <2>1. CASE Exit(t)
    <3>1. CASE UNCHANGED memVars
      BY Zenon, <3>1 DEF TablesInv, TypeOK, memVars
    <3>2. CASE /\ attached' = [attached EXCEPT ![ProcOf[t]] = [a \in Addrs |-> 0]]
               /\ mapped' = [mapped EXCEPT ![ProcOf[t]] = [a \in Addrs |-> 0]]
      BY Zenon, <3>2, Constants DEF TablesInv, TypeOK
    <3> QED  BY Zenon, <2>1, <3>1, <3>2 DEF Exit
  <2>2. ASSUME NEW a \in Addrs, Mmap(t, a) \/ Munmap(t, a)
        PROVE  mapped' \in [Procs -> [Addrs -> -1..MaxSegs]] /\ UNCHANGED attached
    BY Zenon, <2>2, Constants, AreaTypes DEF TablesInv, Mmap, Munmap, Foreign
  <2> QED  BY Zenon, <2>1, <2>2 DEF TablesInv, TypeOK
<1>3. KeyToId' /\ \A s : Known(s)' <=> Known(s)
  BY Zenon, <1>1, SameTables DEF segVars
<1>4. TypeOK' /\ AllKnown'
  BY Zenon, <1>1, <1>2, <1>3 DEF TablesInv, TypeOK, AllKnown, mgrVars, segVars
<1> QED  BY Zenon, <1>3, <1>4 DEF TablesInv

(* Every step keeps the tables in order.                                   *)
LEMMA NextTables == TablesInv /\ [Next]_vars => TablesInv'
<1> SUFFICES ASSUME TablesInv, [Next]_vars PROVE TablesInv'  OBVIOUS
<1>1. CASE UNCHANGED vars
  BY Zenon, <1>1 DEF TablesInv, TypeOK, AllKnown, Known, KeyToId, vars, mgrVars, segVars,
     memVars, thrVars
<1>2. CASE Next
  BY Zenon, <1>2, ShmgetTables, ShmatTables, ShmdtTables, ShmctlTables, MemoryTables DEF Next
<1> QED  BY Zenon, <1>1, <1>2

(* The invariant about the tables holds throughout.                        *)
LEMMA TablesInvariant == Spec => []TablesInv
<1>1. Init => TablesInv
  BY Zenon, InitTables DEF Init
<1> QED  BY <1>1, NextTables, PTL DEF Spec

(* Types: identifiers stay within 1..i32::MAX and calls refer to segments. *)
THEOREM TypeCorrect == Spec => []TypeOK
  BY TablesInvariant, PTL DEF TablesInv

(* The tables of ShmManager agree at every step, through wrap-around of    *)
(* the identifiers, failed allocations and racing removals.                *)
THEOREM TablesAgree == Spec => []KeyToId
  BY TablesInvariant, PTL DEF TablesInv

-----------------------------------------------------------------------------
(* What a step may do to the counts and the marks *)

(* Only a shmat that finds a segment unmarked raises its count, by one; a  *)
(* mark is never taken back.                                               *)
LEMMA MarkStep ==
  ASSUME TablesInv, [Next]_vars, NEW s \in Serials
  PROVE  marked[s] => nattch'[s] <= nattch[s] /\ marked'[s]
<1>1. nattch[s] \in Nat /\ marked[s] \in BOOLEAN
  BY Zenon DEF TablesInv, TypeOK
<1>2. ASSUME UNCHANGED <<nattch, marked>>
      PROVE  marked[s] => nattch'[s] <= nattch[s] /\ marked'[s]
  BY <1>1, <1>2
<1>3. ASSUME NEW r \in Serials, DecAttach(r), UNCHANGED marked
      PROVE  marked[s] => nattch'[s] <= nattch[s] /\ marked'[s]
  BY Zenon, <1>1, <1>3, DecAttachTypes DEF TablesInv
<1>4. ASSUME NEW t \in Threads, NEW id \in Ids, NEW access, ShmatLookup(t, id, access)
      PROVE  marked[s] => nattch'[s] <= nattch[s] /\ marked'[s]
  <2>1. CASE UNCHANGED nattch
    BY Zenon, <1>2, <1>4, <2>1 DEF ShmatLookup
  <2>2. CASE ~UNCHANGED nattch
    <3>1. /\ segments[id] \in Serials /\ ~marked[segments[id]] /\ UNCHANGED marked
          /\ nattch' = [nattch EXCEPT ![segments[id]] = @ + 1]
      BY Zenon, <1>4, <2>2, LookedUp DEF ShmatLookup, ValidateSegment
    <3> QED  BY SMTT(20), <1>1, <3>1 DEF TablesInv, TypeOK
  <2> QED  BY Zenon, <2>1, <2>2
<1>5. ASSUME NEW t \in Threads, NEW rnd, NEW shmaddr, ShmatMapFails(t, rnd, shmaddr)
      PROVE  marked[s] => nattch'[s] <= nattch[s] /\ marked'[s]
  BY Zenon, <1>3, <1>5, Held DEF ShmatMapFails
<1>6. ASSUME NEW t \in Threads, NEW a \in Addrs, ShmdtDetach(t, a)
      PROVE  marked[s] => nattch'[s] <= nattch[s] /\ marked'[s]
  BY Zenon, <1>3, <1>6, Held, Constants DEF ShmdtDetach
<1>7. ASSUME NEW t \in Threads, NEW id \in Ids, ShmctlRmid(t, id)
      PROVE  marked[s] => nattch'[s] <= nattch[s] /\ marked'[s]
  BY <1>1, <1>7, LookedUp DEF ShmctlRmid, TablesInv, TypeOK
<1>8. ASSUME NEW t \in Threads, Shmget(t) PROVE UNCHANGED <<nattch, marked>>
  BY Zenon, <1>8 DEF Shmget, ShmgetNew, NewSegment, NoPages, ShmgetNoId, segVars
<1>9. ASSUME NEW t \in Threads, Shmat(t)
      PROVE  marked[s] => nattch'[s] <= nattch[s] /\ marked'[s]
  BY Zenon, <1>2, <1>4, <1>5, <1>9
     DEF Shmat, ShmatLock, ShmatNoAddress, ShmatAttach, segVars
<1>10. ASSUME NEW t \in Threads, Shmdt(t)
       PROVE  marked[s] => nattch'[s] <= nattch[s] /\ marked'[s]
  BY Zenon, <1>2, <1>6, <1>10 DEF Shmdt, ShmdtRemove, segVars
<1>11. ASSUME NEW t \in Threads, Shmctl(t)
       PROVE  marked[s] => nattch'[s] <= nattch[s] /\ marked'[s]
  BY Zenon, <1>2, <1>7, <1>11 DEF Shmctl, ShmctlLock, ShmctlCopy, segVars
<1>12. ASSUME NEW t \in Threads, Exit(t) \/ \E a \in Addrs : Mmap(t, a) \/ Munmap(t, a)
       PROVE  UNCHANGED <<nattch, marked>>
  BY Zenon, <1>12 DEF Exit, Mmap, Munmap, segVars
<1> QED  BY Zenon, <1>2, <1>8, <1>9, <1>10, <1>11, <1>12 DEF Next, vars, segVars

(* Once IPC_RMID has marked a segment its count only falls.                *)
THEOREM NoAttachmentAfterRmid == Spec => NoAttachAfterRmid
<1>1. TablesInv /\ [Next]_vars =>
        \A s \in Serials : marked[s] => nattch'[s] <= nattch[s] /\ marked'[s]
  BY Zenon, MarkStep
<1> QED  BY <1>1, TablesInvariant, PTL DEF Spec, NoAttachAfterRmid

-----------------------------------------------------------------------------
(* Counts and uses *)

(* One element more, at most.                                              *)
LEMMA CardPlus ==
  ASSUME NEW S, IsFiniteSet(S), NEW x, NEW T, T \subseteq S \cup {x}
  PROVE  IsFiniteSet(T) /\ Cardinality(T) <= Cardinality(S) + 1
<1>1. /\ IsFiniteSet(S \cup {x}) /\ Cardinality(S \cup {x}) \in Nat
      /\ Cardinality(S) \in Nat
      /\ Cardinality(S \cup {x}) <= Cardinality(S) + 1
  BY FS_AddElement, FS_CardinalityType
<1> QED  BY <1>1, FS_Subset, FS_CardinalityType

(* One element fewer, at least.                                            *)
LEMMA CardMinus ==
  ASSUME NEW S, IsFiniteSet(S), NEW x \in S, NEW T, T \subseteq S \ {x}
  PROVE  IsFiniteSet(T) /\ Cardinality(T) <= Cardinality(S) - 1
<1>1. /\ IsFiniteSet(S \ {x}) /\ Cardinality(S) \in Nat
      /\ Cardinality(S \ {x}) = Cardinality(S) - 1
  BY Zenon, FS_RemoveElement, FS_CardinalityType
<1> QED  BY <1>1, FS_Subset, FS_CardinalityType

(* The uses of a segment can be counted.                                   *)
LEMMA UsesFinite ==
  ASSUME NEW s
  PROVE  /\ IsFiniteSet(Attachments(s)) /\ Cardinality(Attachments(s)) \in Nat
         /\ IsFiniteSet(Attaching(s)) /\ Cardinality(Attaching(s)) \in Nat
         /\ IsFiniteSet(Attachments(s)') /\ Cardinality(Attachments(s)') \in Nat
         /\ IsFiniteSet(Attaching(s)') /\ Cardinality(Attaching(s)') \in Nat
<1>1. IsFiniteSet(Procs \X Addrs)
  BY Zenon, ShmAssumption, FS_Product
<1>2. /\ Attachments(s) \subseteq Procs \X Addrs /\ Attaching(s) \subseteq Threads
      /\ Attachments(s)' \subseteq Procs \X Addrs /\ Attaching(s)' \subseteq Threads
  BY SMTT(20) DEF Attachments, Attaching
<1> QED  BY Zenon, <1>1, <1>2, ShmAssumption, FS_Subset, FS_CardinalityType

(* The count covers the uses of s.                                         *)
Covered(s) ==
  nattch[s] >= Cardinality(Attachments(s)) + Cardinality(Attaching(s))

(* How a step may move the count n of a segment, the number a of its       *)
(* attachments and the number b of the shmat calls that hold it.           *)
CountMove(n, a, b, m, c, d) ==
  \/ m = n + 1  /\ c = a      /\ d <= b + 1
  \/ m >= n - 1 /\ c = a      /\ d <= b - 1
  \/ m = n      /\ c <= a + 1 /\ d <= b - 1
  \/ m >= n - 1 /\ c <= a - 1 /\ d <= b
  \/ m = n      /\ c <= a     /\ d <= b

(* The move of the count and the uses of s in a step.                      *)
Moved(s) ==
  CountMove(nattch[s], Cardinality(Attachments(s)), Cardinality(Attaching(s)),
            nattch'[s], Cardinality(Attachments(s)'), Cardinality(Attaching(s)'))

(* After such a step the count still covers the uses.                      *)
LEMMA CountStep ==
  \A n, a, b, m, c, d \in Nat :
    n >= a + b /\ CountMove(n, a, b, m, c, d) => m >= c + d
  BY DEF CountMove

(* The same for the uses of a segment.                                     *)
LEMMA MovedCovered ==
  ASSUME NEW s \in Serials, Covered(s), Moved(s),
         nattch[s] \in Nat, nattch'[s] \in Nat,
         Cardinality(Attachments(s)) \in Nat, Cardinality(Attachments(s)') \in Nat,
         Cardinality(Attaching(s)) \in Nat, Cardinality(Attaching(s)') \in Nat
  PROVE  Covered(s)'
  BY Zenon, CountStep DEF Covered, Moved

(* A step that makes no use of a segment and keeps its count.              *)
LEMMA KeepsCovered ==
  ASSUME TablesInv, NEW s \in Serials, Covered(s), nattch'[s] = nattch[s],
         Attachments(s)' \subseteq Attachments(s),
         Attaching(s)' \subseteq Attaching(s)
  PROVE  Covered(s)'
<1>1. /\ Cardinality(Attachments(s)') <= Cardinality(Attachments(s))
      /\ Cardinality(Attaching(s)') <= Cardinality(Attaching(s))
  BY Zenon, UsesFinite, FS_Subset
<1>2. /\ nattch[s] \in Nat
      /\ Cardinality(Attachments(s)) \in Nat /\ Cardinality(Attachments(s)') \in Nat
      /\ Cardinality(Attaching(s)) \in Nat /\ Cardinality(Attaching(s)') \in Nat
  <2>1. nattch[s] \in Nat
    BY Zenon DEF TablesInv, TypeOK
  <2> QED  BY Zenon, <2>1, UsesFinite
<1>3. Moved(s)
  BY Zenon, <1>1 DEF Moved, CountMove
<1> QED  BY Zenon, <1>2, <1>3, MovedCovered

(* shmat and shmdt keep the counts above the uses: a use appears after it  *)
(* has been counted and is given up before the count falls.                *)
LEMMA ShmatCovered ==
  ASSUME TablesInv, NEW t \in Threads, Shmat(t), NEW s \in Serials, Covered(s)
  PROVE  Covered(s)'
<1>0. /\ nattch[s] \in Nat
      /\ Cardinality(Attachments(s)) \in Nat /\ Cardinality(Attachments(s)') \in Nat
      /\ Cardinality(Attaching(s)) \in Nat /\ Cardinality(Attaching(s)') \in Nat
  <2>1. nattch[s] \in Nat
    BY Zenon DEF TablesInv, TypeOK
  <2> QED  BY Zenon, <2>1, UsesFinite
<1>1. CASE ShmatLock(t)
  <2>1. Attachments(s)' = Attachments(s) /\ Attaching(s)' \subseteq Attaching(s)
    BY Zenon, <1>1 DEF ShmatLock, Goto, TablesInv, TypeOK, Attachments, Attaching, memVars
  <2> QED  BY Zenon, <1>1, <2>1, KeepsCovered DEF ShmatLock, segVars
<1>2. ASSUME NEW id \in Ids, NEW access, ShmatLookup(t, id, access)
      PROVE  Covered(s)'
  <2>1. Attachments(s)' = Attachments(s)
    BY Zenon, <1>2 DEF ShmatLookup, memVars, Attachments
  <2>2. CASE segments[id] # s \/ UNCHANGED nattch
    <3>1. Attaching(s)' \subseteq Attaching(s)
      BY <1>2, <2>2, LookedUp
         DEF ShmatLookup, Goto, Return, TablesInv, TypeOK, Attaching
    <3>2. nattch'[s] = nattch[s]
      BY Zenon, <1>2, <2>2 DEF ShmatLookup, TablesInv, TypeOK
    <3> QED  BY Zenon, <2>1, <3>1, <3>2, KeepsCovered
  <2>3. CASE segments[id] = s /\ ~UNCHANGED nattch
    <3>1. Attaching(s)' \subseteq Attaching(s) \cup {t}
      BY Zenon, <1>2, <2>3 DEF ShmatLookup, Goto, Return, TablesInv, TypeOK, Attaching
    <3>2. nattch'[s] = nattch[s] + 1
      BY Zenon, <1>2, <2>3 DEF ShmatLookup, TablesInv, TypeOK
    <3>3. Cardinality(Attaching(s)') <= Cardinality(Attaching(s)) + 1
      BY ZenonT(30), <3>1, UsesFinite, CardPlus
    <3>4. Cardinality(Attachments(s)') = Cardinality(Attachments(s))
      BY Zenon, <2>1
    <3>5. nattch'[s] \in Nat
      BY <1>0, <3>2
    <3>6. Moved(s)
      BY Zenon, <3>2, <3>3, <3>4 DEF Moved, CountMove
    <3> QED  BY Zenon, <1>0, <3>5, <3>6, MovedCovered
  <2> QED  BY SMTT(20), <2>2, <2>3
<1>3. ASSUME NEW rnd, NEW shmaddr, ShmatNoAddress(t, rnd, shmaddr)
      PROVE  Covered(s)'
  <2>1. Attachments(s)' = Attachments(s) /\ Attaching(s)' \subseteq Attaching(s)
    BY Zenon, <1>3 DEF ShmatNoAddress, Goto, Return, TablesInv, TypeOK, Attachments,
       Attaching, memVars
  <2> QED  BY Zenon, <1>3, <2>1, KeepsCovered DEF ShmatNoAddress, segVars
<1>4. ASSUME NEW rnd, NEW shmaddr, ShmatMapFails(t, rnd, shmaddr)
      PROVE  Covered(s)'
  <2>1. Attachments(s)' = Attachments(s) /\ Attaching(s)' \subseteq Attaching(s) \ {t}
    BY SMTT(20), <1>4 DEF ShmatMapFails, Goto, Return, TablesInv, TypeOK, Attachments,
       Attaching, memVars
  <2>2. seg[t] \in Serials /\ DecAttach(seg[t]) /\ pc[t] = "shmat_map"
    BY Zenon, <1>4, Held DEF ShmatMapFails
  <2>3. CASE seg[t] # s
    BY ZenonT(30), <2>1, <2>2, <2>3, DecAttachTypes, KeepsCovered DEF TablesInv
  <2>4. CASE seg[t] = s
    <3>1. t \in Attaching(s) /\ nattch'[s] >= nattch[s] - 1 /\ nattch'[s] \in Nat
      BY Zenon, <2>2, <2>4, DecAttachTypes DEF TablesInv, Attaching
    <3>2. Cardinality(Attaching(s)') <= Cardinality(Attaching(s)) - 1
      BY Zenon, <2>1, <3>1, UsesFinite, CardMinus
    <3>3. Cardinality(Attachments(s)') = Cardinality(Attachments(s))
      BY Zenon, <2>1
    <3>4. Moved(s)
      BY Zenon, <3>1, <3>2, <3>3 DEF Moved, CountMove
    <3> QED  BY Zenon, <1>0, <3>1, <3>4, MovedCovered
  <2> QED  BY Zenon, <2>3, <2>4
<1>5. ASSUME NEW rnd, NEW shmaddr, ShmatAttach(t, rnd, shmaddr)
      PROVE  Covered(s)'
  <2>1. PICK a \in Addrs : attached' = [attached EXCEPT ![ProcOf[t]][a] = seg[t]]
    BY Zenon, <1>5 DEF ShmatAttach, FreeAreas
  <2>2. /\ pc[t] = "shmat_map" /\ nattch'[s] = nattch[s] /\ ProcOf[t] \in Procs
        /\ Attaching(s)' \subseteq Attaching(s) \ {t}
    BY Zenon, <1>5, Constants DEF ShmatAttach, Goto, Return, TablesInv, TypeOK, Attaching,
       segVars
  <2>3. CASE seg[t] # s
    <3>1. Attachments(s)' \subseteq Attachments(s)
      BY SMTT(20), <2>1, <2>2, <2>3 DEF TablesInv, TypeOK, Attachments
    <3> QED  BY Zenon, <2>2, <3>1, KeepsCovered
  <2>4. CASE seg[t] = s
    <3>1. Attachments(s)' \subseteq Attachments(s) \cup {<<ProcOf[t], a>>}
      BY <2>1, <2>2, <2>4 DEF TablesInv, TypeOK, Attachments
    <3>2. Cardinality(Attachments(s)') <= Cardinality(Attachments(s)) + 1
      BY Zenon, <3>1, UsesFinite, CardPlus
    <3>3. Cardinality(Attaching(s)') <= Cardinality(Attaching(s)) - 1
      <4>1. t \in Attaching(s)
        BY Zenon, <2>2, <2>4 DEF Attaching
      <4> QED  BY ZenonT(30), <2>2, <4>1, UsesFinite, CardMinus
    <3>4. Moved(s)
      BY Zenon, <2>2, <3>2, <3>3 DEF Moved, CountMove
    <3> QED  BY Zenon, <1>0, <2>2, <3>4, MovedCovered
  <2> QED  BY Zenon, <2>3, <2>4
<1> QED  BY Zenon, <1>1, <1>2, <1>3, <1>4, <1>5 DEF Shmat

(* shmdt gives up its attachment in the step in which it lowers the count. *)
LEMMA ShmdtCovered ==
  ASSUME TablesInv, NEW t \in Threads, Shmdt(t), NEW s \in Serials, Covered(s)
  PROVE  Covered(s)'
<1>0. /\ nattch[s] \in Nat
      /\ Cardinality(Attachments(s)) \in Nat /\ Cardinality(Attachments(s)') \in Nat
      /\ Cardinality(Attaching(s)) \in Nat /\ Cardinality(Attaching(s)') \in Nat
  <2>1. nattch[s] \in Nat
    BY Zenon DEF TablesInv, TypeOK
  <2> QED  BY Zenon, <2>1, UsesFinite
<1>1. ASSUME NEW a \in Addrs, ShmdtDetach(t, a) PROVE Covered(s)'
  <2> DEFINE p == ProcOf[t]
             r == attached[p][a]
  <2>1. p \in Procs /\ r \in Serials /\ DecAttach(r)
    BY Zenon, <1>1, Constants, Held DEF ShmdtDetach
  <2>2. attached' = [attached EXCEPT ![p][a] = 0] /\ 0 \notin Serials
    BY <1>1 DEF ShmdtDetach, Serials
  <2>3. Attaching(s)' \subseteq Attaching(s)
    BY Zenon, <1>1 DEF ShmdtDetach, Goto, TablesInv, TypeOK, Attaching
  <2>4. Attachments(s)' \subseteq Attachments(s) \ {<<p, a>>}
    BY <2>1, <2>2 DEF TablesInv, TypeOK, Attachments
  <2>5. CASE r # s
    BY ZenonT(30), <2>1, <2>3, <2>4, <2>5, DecAttachTypes, KeepsCovered DEF TablesInv
  <2>6. CASE r = s
    <3>1. <<p, a>> \in Attachments(s)
      BY Zenon, <2>1, <2>6 DEF Attachments
    <3>2. Cardinality(Attachments(s)') <= Cardinality(Attachments(s)) - 1
      BY Zenon, <2>4, <3>1, UsesFinite, CardMinus
    <3>3. nattch'[s] >= nattch[s] - 1 /\ nattch'[s] \in Nat /\ nattch[s] \in Nat
      BY Zenon, <2>1, <2>6, DecAttachTypes DEF TablesInv, TypeOK
    <3>4. Cardinality(Attaching(s)') <= Cardinality(Attaching(s))
      BY Zenon, <2>3, UsesFinite, FS_Subset
    <3>5. Moved(s)
      BY Zenon, <3>2, <3>3, <3>4 DEF Moved, CountMove
    <3> QED  BY Zenon, <1>0, <3>3, <3>5, MovedCovered
  <2> QED  BY Zenon, <2>5, <2>6
<1>2. CASE ShmdtRemove(t)
  <2>1. Attachments(s)' = Attachments(s) /\ Attaching(s)' \subseteq Attaching(s)
    BY Zenon, <1>2 DEF ShmdtRemove, Goto, Return, TablesInv, TypeOK, Attachments,
       Attaching, memVars
  <2> QED  BY Zenon, <1>2, <2>1, KeepsCovered DEF ShmdtRemove, segVars
<1> QED  BY Zenon, <1>1, <1>2 DEF Shmdt

(* No other call touches a count, and none adds a use.                     *)
LEMMA OthersCovered ==
  ASSUME TablesInv, NEW t \in Threads, NEW s \in Serials, Covered(s),
         \/ Shmget(t) \/ Shmctl(t) \/ Exit(t)
         \/ \E a \in Addrs : Mmap(t, a) \/ Munmap(t, a)
  PROVE  Covered(s)'
<1>1. nattch' = nattch
  BY Zenon DEF Shmget, ShmgetNew, NewSegment, NoPages, ShmgetNoId, Shmctl, ShmctlRmid,
     ShmctlLock, ShmctlCopy, Exit, Mmap, Munmap, segVars
<1>2. Attaching(s)' \subseteq Attaching(s)
  BY Zenon DEF TablesInv, TypeOK, Attaching, Shmget, ShmgetNew, ShmgetNoId, Shmctl,
     ShmctlRmid, ShmctlLock, ShmctlCopy, Exit, Mmap, Munmap, Goto, Return, thrVars
<1>3. Attachments(s)' \subseteq Attachments(s)
  <2>1. CASE UNCHANGED attached
    BY Zenon, <2>1 DEF Attachments
  <2>2. CASE attached' = [attached EXCEPT ![ProcOf[t]] = [a \in Addrs |-> 0]]
    BY <2>2, Constants DEF Attachments, TablesInv, TypeOK, Serials
  <2> QED  BY Zenon, <2>1, <2>2 DEF Shmget, ShmgetNew, ShmgetNoId, Shmctl, ShmctlRmid,
              ShmctlLock, ShmctlCopy, Exit, Mmap, Munmap, memVars
<1> QED  BY Zenon, <1>1, <1>2, <1>3, KeepsCovered

(* No attachment and no running shmat: the uses of s are none.             *)
LEMMA InitCovered ==
  ASSUME ShmInit, pc \in [Threads -> {"user", "exited"}]
  PROVE  CountCoversUse /\ \A s \in Serials : Attachments(s) = {} /\ Attaching(s) = {}
<1>1. ASSUME NEW s \in Serials
      PROVE  Attachments(s) = {} /\ Attaching(s) = {} /\ nattch[s] = 0
  BY DEF ShmInit, Attachments, Attaching, Serials
<1>2. Cardinality({}) = 0 /\ 0 >= 0 + 0
  BY FS_EmptySet
<1> QED  BY Zenon, <1>1, <1>2 DEF CountCoversUse

(* A step keeps every count above the uses.                                *)
LEMMA NextCovered == TablesInv /\ CountCoversUse /\ [Next]_vars => CountCoversUse'
<1> SUFFICES ASSUME TablesInv, CountCoversUse, [Next]_vars, NEW s \in Serials
             PROVE  Covered(s)'
  BY Zenon DEF CountCoversUse, Covered
<1>1. Covered(s)
  BY Zenon DEF CountCoversUse, Covered
<1>2. CASE UNCHANGED vars
  BY Zenon, <1>1, <1>2 DEF Covered, Attachments, Attaching, vars, segVars, memVars, thrVars
<1>3. CASE Next
  BY Zenon, <1>1, <1>3, ShmatCovered, ShmdtCovered, OthersCovered DEF Next
<1> QED  BY Zenon, <1>2, <1>3

(* shm_nattch never falls short of the attachments there are or will be.   *)
THEOREM CountsCoverUses == Spec => []CountCoversUse
<1>1. Init => CountCoversUse
  BY Zenon, InitCovered DEF Init
<1> QED  BY <1>1, TablesInvariant, NextCovered, PTL DEF Spec

(* Where an area of a segment is after a step, the step has put it into    *)
(* the table of the process as well, or it has touched neither.            *)
LEMMA AreaStep ==
  ASSUME TablesInv, [Next]_vars, NEW p \in Procs, NEW a \in Addrs,
         mapped'[p][a] \in Serials
  PROVE  \/ attached'[p][a] = mapped'[p][a]
         \/ mapped'[p][a] = mapped[p][a] /\ attached'[p][a] = attached[p][a]
<1> DEFINE Kept == \/ attached'[p][a] = mapped'[p][a]
                   \/ mapped'[p][a] = mapped[p][a] /\ attached'[p][a] = attached[p][a]
<1>1. CASE mapped' = mapped /\ attached' = attached
  BY Zenon, <1>1
<1>2. ASSUME NEW t \in Threads, NEW rnd, NEW shmaddr, ShmatAttach(t, rnd, shmaddr)
      PROVE  Kept
  BY SMTT(30), <1>2, Constants DEF ShmatAttach, FreeAreas, TablesInv, TypeOK
<1>3. ASSUME NEW t \in Threads, NEW b \in Addrs, ShmdtDetach(t, b) PROVE Kept
  BY Zenon, <1>3, Constants DEF ShmdtDetach, TablesInv, TypeOK
<1>4. ASSUME NEW t \in Threads, NEW b \in Addrs, Mmap(t, b) \/ Munmap(t, b) PROVE Kept
  <2>1. PICK v \in {0, Foreign} : mapped' = [mapped EXCEPT ![ProcOf[t]][b] = v]
    BY Zenon, <1>4 DEF Mmap, Munmap
  <2>2. attached' = attached /\ v \notin Serials
    BY <1>4, <2>1 DEF Mmap, Munmap, Foreign, Serials
  <2> QED  BY Zenon, <2>1, <2>2, Constants DEF TablesInv, TypeOK
<1>5. ASSUME NEW t \in Threads, Exit(t) PROVE Kept
  <2>1. CASE UNCHANGED memVars
    BY Zenon, <1>1, <2>1 DEF memVars
  <2>2. CASE /\ attached' = [attached EXCEPT ![ProcOf[t]] = [b \in Addrs |-> 0]]
             /\ mapped' = [mapped EXCEPT ![ProcOf[t]] = [b \in Addrs |-> 0]]
    BY Zenon, <2>2, Constants DEF TablesInv, TypeOK
  <2> QED  BY Zenon, <1>5, <2>1, <2>2 DEF Exit
<1>6. ASSUME NEW t \in Threads, Shmget(t) \/ Shmctl(t) \/ ShmatLock(t) \/ ShmdtRemove(t)
      PROVE  mapped' = mapped /\ attached' = attached
  BY Zenon, <1>6 DEF Shmget, ShmgetNew, ShmgetNoId, Shmctl, ShmctlRmid, ShmctlLock,
     ShmctlCopy, ShmatLock, ShmdtRemove, memVars
<1>7. ASSUME NEW t \in Threads, NEW id, NEW access, NEW rnd, NEW shmaddr,
             \/ ShmatLookup(t, id, access) \/ ShmatNoAddress(t, rnd, shmaddr)
             \/ ShmatMapFails(t, rnd, shmaddr)
      PROVE  mapped' = mapped /\ attached' = attached
  BY Zenon, <1>7 DEF ShmatLookup, ShmatNoAddress, ShmatMapFails, memVars
<1>8. ASSUME NEW t \in Threads, Shmat(t) PROVE Kept
  BY Zenon, <1>1, <1>2, <1>6, <1>7, <1>8 DEF Shmat
<1>9. CASE UNCHANGED vars
  BY Zenon, <1>1, <1>9 DEF vars, memVars
<1> QED  BY Zenon, <1>1, <1>3, <1>4, <1>5, <1>6, <1>8, <1>9 DEF Next, Shmdt

(* An area of a segment is always in the table of its process: shmat puts  *)
(* both, and shmdt and exit take both.                                     *)
THEOREM MappingsTracked == Spec => []TrackedMappings
<1>1. Init => TrackedMappings
  BY SMTT(20) DEF Init, ShmInit, TrackedMappings, Serials
<1>2. TablesInv /\ TrackedMappings /\ [Next]_vars => TrackedMappings'
  BY Zenon, AreaStep DEF TrackedMappings
<1> QED  BY <1>1, <1>2, TablesInvariant, PTL DEF Spec

-----------------------------------------------------------------------------
(* Used segments stay registered, as long as identifiers are not reused *)

(* The s-th identifier is s: next_id has not wrapped around.               *)
FreshIds ==
  /\ created < MaxId => next_id = created + 1
  /\ \A s \in Serials : ds[s].id \in {0, s}

Used(s) == Attachments(s) # {} \/ Attaching(s) # {}

(* A registered segment is found under its own number.                     *)
LEMMA FoundUnderItself ==
  ASSUME TablesInv, FreshIds, NEW i \in Ids, segments[i] # 0
  PROVE  segments[i] = i /\ i <= created
<1>1. segments[i] \in Serials /\ Known(segments[i]) /\ ds[segments[i]].id = i
  BY Zenon, LookedUp
<1>2. segments[i] = i
  BY <1>1 DEF FreshIds, Ids
<1> QED  BY <1>1, <1>2 DEF Known

(* While next_id is new, alloc_id takes it at the first attempt.           *)
LEMMA FirstAttempt ==
  ASSUME TablesInv, FreshIds, created < MaxId
  PROVE  /\ IdAfter(0) = created + 1 /\ IdAfter(0) \notin Live
         /\ created + 1 < MaxId => IdAfter(1) = created + 2
<1>1. next_id = created + 1 /\ created \in Nat /\ MaxId \in Nat \ {0}
  BY Constants DEF FreshIds, TablesInv, TypeOK
<1>2. (next_id - 1 + 0) % MaxId = created
  BY <1>1
<1>3. created + 1 < MaxId => (next_id - 1 + 1) % MaxId = created + 1
  BY <1>1
<1>4. IdAfter(0) = created + 1
  BY Zenon, <1>1, <1>2 DEF IdAfter
<1>5. created + 1 \notin Live
  BY SMTT(30), <1>1, FoundUnderItself DEF Live
<1> QED  BY <1>1, <1>3, <1>4, <1>5 DEF IdAfter

(* The identifiers stay in step with the segments.                         *)
LEMMA NextFreshIds ==
  ASSUME MaxSegs <= MaxId, TablesInv, FreshIds, [Next]_vars PROVE FreshIds'
<1>1. ASSUME NEW t \in Threads, NEW key \in Keys \cup {IPC_PRIVATE},
             NEW size \in {0, 1}, NEW mode \in Modes, ShmgetNew(t, key, size, mode)
      PROVE  FreshIds'
  <2>1. PICK k \in 0..(MaxId - 1) :
          IdFound(k) /\ (NewSegment(k, key, size, mode) \/ NoPages(k))
    BY Zenon, <1>1 DEF ShmgetNew
  <2>2. created < MaxId /\ created \in Nat /\ created + 1 \in Serials
    BY <1>1, Constants DEF ShmgetNew, TablesInv, TypeOK, Serials
  <2>3. k = 0
    BY <2>1, <2>2, FirstAttempt DEF IdFound
  <2>4. created' = created + 1 /\ next_id' = IdAfter(1)
    BY SMTT(30), <2>1, <2>3 DEF NewSegment, NoPages
  <2>5. ds' = ds \/ ds' = [ds EXCEPT ![created + 1] =
                       [id |-> created + 1, key |-> key, size |-> size, mode |-> mode]]
    BY Zenon, <2>1, <2>2, <2>3, FirstAttempt DEF NewSegment, NoPages, segVars
  <2>6. \A s \in Serials : ds'[s].id \in {0, s}
    BY SMTT(30), <2>2, <2>5 DEF FreshIds, TablesInv, TypeOK
  <2> QED  BY <2>2, <2>4, <2>6, FirstAttempt DEF FreshIds
<1>2. ASSUME NEW t \in Threads, NEW key, ShmgetNoId(t, key) PROVE FreshIds'
  <2>1. created >= MaxId
    <3> SUFFICES ASSUME created < MaxId PROVE FALSE
      BY Constants DEF TablesInv, TypeOK
    <3>1. 0 \in 0..(MAX_ATTEMPTS - 1)
      BY ShmAssumption
    <3> QED  BY Zenon, <1>2, <3>1, FirstAttempt DEF ShmgetNoId
  <2> QED  BY <1>2, <2>1, Constants DEF ShmgetNoId, FreshIds, TablesInv, TypeOK, segVars
<1>3. ASSUME NEW t \in Threads, ShmctlCopy(t) PROVE FreshIds'
  <2>1. seg[t] \in Serials
    BY Zenon, <1>3, Held DEF ShmctlCopy
  <2>2. \A s \in Serials : ds'[s].id = ds[s].id
    <3>1. CASE UNCHANGED ds
      BY Zenon, <3>1
    <3>2. ASSUME NEW mode \in Modes, ds' = [ds EXCEPT ![seg[t]].mode = mode]
          PROVE  \A s \in Serials : ds'[s].id = ds[s].id
      BY Zenon, <2>1, <3>2 DEF TablesInv, TypeOK, Ds
    <3> QED  BY Zenon, <1>3, <3>1, <3>2 DEF ShmctlCopy
  <2> QED  BY Zenon, <1>3, <2>2 DEF FreshIds, ShmctlCopy, mgrVars
<1>4. ASSUME UNCHANGED <<created, next_id, ds>> PROVE FreshIds'
  BY Zenon, <1>4 DEF FreshIds
<1>5. ASSUME NEW t \in Threads,
             Shmat(t) \/ Exit(t) \/ \E a \in Addrs : Mmap(t, a) \/ Munmap(t, a)
      PROVE  UNCHANGED <<created, next_id, ds>>
  BY Zenon, <1>5 DEF Shmat, ShmatLock, ShmatLookup, ShmatNoAddress, ShmatMapFails,
     ShmatAttach, Exit, Mmap, Munmap, mgrVars, segVars
<1>6. ASSUME NEW t \in Threads, Shmdt(t) PROVE UNCHANGED <<created, next_id, ds>>
  BY Zenon, <1>6 DEF Shmdt, ShmdtDetach, ShmdtRemove, Remove, mgrVars, segVars
<1>7. ASSUME NEW t \in Threads, NEW id \in Ids, ShmctlRmid(t, id) \/ ShmctlLock(t, id)
      PROVE  UNCHANGED <<created, next_id, ds>>
  BY Zenon, <1>7 DEF ShmctlRmid, ShmctlLock, Remove, mgrVars, segVars
<1> QED  BY Zenon, <1>1, <1>2, <1>3, <1>4, <1>5, <1>6, <1>7
         DEF Next, Shmget, Shmctl, vars, mgrVars, segVars

(* A used segment has been made, so it has an identifier.                  *)
LEMMA UsedKnown ==
  ASSUME TablesInv, NEW s \in Serials, Used(s) PROVE Known(s)
<1>1. CASE Attachments(s) # {}
  BY <1>1 DEF Attachments, TablesInv, AllKnown, Serials
<1>2. CASE Attaching(s) # {}
  BY Zenon, <1>2 DEF Attaching, TablesInv, AllKnown, Serials
<1> QED  BY Zenon, <1>1, <1>2 DEF Used

(* Only shmat begins to use a segment, and it has just looked it up.       *)
LEMMA UseBegins ==
  ASSUME TablesInv, [Next]_vars, NEW s \in Serials, Used(s)', ~Used(s)
  PROVE  /\ UNCHANGED <<segments, ds>>
         /\ segments[ds[s].id] = s
<1>1. ASSUME NEW t \in Threads, NEW id \in Ids, NEW access, ShmatLookup(t, id, access)
      PROVE  UNCHANGED <<segments, ds>> /\ segments[ds[s].id] = s
  <2>1. Attachments(s)' = Attachments(s)
    BY Zenon, <1>1 DEF ShmatLookup, memVars, Attachments
  <2>2. PICK u \in Threads : pc'[u] = "shmat_map" /\ seg'[u] = s
                            /\ ~(pc[u] = "shmat_map" /\ seg[u] = s)
    BY Zenon, <2>1 DEF Used, Attaching
  <2>3. u = t /\ segments[id] = s
    BY Zenon, <1>1, <2>2 DEF ShmatLookup, Goto, Return, TablesInv, TypeOK
  <2>4. segments[id] # 0
    BY <2>3 DEF Serials
  <2> QED  BY Zenon, <1>1, <2>3, <2>4, LookedUp DEF ShmatLookup, mgrVars
<1>2. ASSUME Attachments(s)' \subseteq Attachments(s), Attaching(s)' \subseteq Attaching(s)
      PROVE  FALSE
  BY Zenon, <1>2 DEF Used
<1>3. ASSUME NEW t \in Threads, NEW rnd, NEW shmaddr, ShmatAttach(t, rnd, shmaddr)
      PROVE  FALSE
  <2>1. PICK a \in Addrs : attached' = [attached EXCEPT ![ProcOf[t]][a] = seg[t]]
    BY Zenon, <1>3 DEF ShmatAttach, FreeAreas
  <2>2. pc[t] = "shmat_map" /\ Attaching(s)' \subseteq Attaching(s)
    BY SMTT(20), <1>3 DEF ShmatAttach, Goto, Return, TablesInv, TypeOK, Attaching
  <2>3. seg[t] # s
    BY Zenon, <2>2 DEF Used, Attaching
  <2>4. Attachments(s)' \subseteq Attachments(s)
    BY Zenon, <2>1, <2>3, Constants DEF TablesInv, TypeOK, Attachments
  <2> QED  BY Zenon, <1>2, <2>2, <2>4
<1>4. ASSUME NEW t \in Threads, NEW rnd, NEW shmaddr,
             ShmatLock(t) \/ ShmatNoAddress(t, rnd, shmaddr)
               \/ ShmatMapFails(t, rnd, shmaddr)
      PROVE  FALSE
  <2>1. Attachments(s)' = Attachments(s) /\ Attaching(s)' \subseteq Attaching(s)
    BY Zenon, <1>4 DEF ShmatLock, ShmatNoAddress, ShmatMapFails, Goto, Return, TablesInv,
       TypeOK, Attachments, Attaching, memVars
  <2> QED  BY Zenon, <1>2, <2>1
<1>5. ASSUME NEW t \in Threads, Shmdt(t) PROVE FALSE
  <2>1. Attaching(s)' \subseteq Attaching(s)
    BY Zenon, <1>5 DEF Shmdt, ShmdtDetach, ShmdtRemove, Goto, Return, TablesInv, TypeOK,
       Attaching
  <2>2. Attachments(s)' \subseteq Attachments(s)
    <3>1. CASE UNCHANGED attached
      BY Zenon, <3>1 DEF Attachments
    <3>2. ASSUME NEW a \in Addrs, attached' = [attached EXCEPT ![ProcOf[t]][a] = 0]
          PROVE  Attachments(s)' \subseteq Attachments(s)
      BY <3>2, Constants DEF TablesInv, TypeOK, Attachments, Serials
    <3> QED  BY Zenon, <1>5, <3>1, <3>2 DEF Shmdt, ShmdtDetach, ShmdtRemove, memVars
  <2> QED  BY Zenon, <1>2, <2>1, <2>2
<1>6. ASSUME NEW t \in Threads,
             \/ Shmget(t) \/ Shmctl(t) \/ Exit(t)
             \/ \E a \in Addrs : Mmap(t, a) \/ Munmap(t, a)
      PROVE  FALSE
  <2>1. Attaching(s)' \subseteq Attaching(s)
    BY Zenon, <1>6 DEF TablesInv, TypeOK, Attaching, Shmget, ShmgetNew, ShmgetNoId, Shmctl,
       ShmctlRmid, ShmctlLock, ShmctlCopy, Exit, Mmap, Munmap, Goto, Return, thrVars
  <2>2. Attachments(s)' \subseteq Attachments(s)
    <3>1. CASE UNCHANGED attached
      BY Zenon, <3>1 DEF Attachments
    <3>2. CASE attached' = [attached EXCEPT ![ProcOf[t]] = [a \in Addrs |-> 0]]
      BY SMTT(20), <3>2, Constants DEF Attachments, TablesInv, TypeOK, Serials
    <3> QED  BY Zenon, <1>6, <3>1, <3>2 DEF Shmget, ShmgetNew, ShmgetNoId, Shmctl,
                ShmctlRmid, ShmctlLock, ShmctlCopy, Exit, Mmap, Munmap, memVars
  <2> QED  BY Zenon, <1>2, <2>1, <2>2
<1>7. CASE UNCHANGED vars
  BY Zenon, <1>2, <1>7 DEF Attachments, Attaching, vars, memVars, thrVars
<1> QED  BY Zenon, <1>1, <1>3, <1>4, <1>5, <1>6, <1>7 DEF Next, Shmat

(* A count that covers two numbers is zero only if both are.               *)
LEMMA SumPositive ==
  ASSUME NEW n \in Nat, NEW a \in Nat, NEW b \in Nat, n >= a + b, a # 0 \/ b # 0
  PROVE  n # 0
  OBVIOUS

(* remove only takes out a segment without uses.                           *)
LEMMA UseKeeps ==
  ASSUME TablesInv, FreshIds, CountCoversUse, [Next]_vars, NEW s \in Serials,
         Used(s), segments[ds[s].id] = s
  PROVE  segments'[ds'[s].id] = s
<1>1. Known(s) /\ ds[s].id \in Ids /\ ds[s].id = s /\ segments[s] = s
  <2>1. Known(s)
    BY Zenon, UsedKnown
  <2>2. ds[s].id \in Ids /\ ds[s].id \in {0, s}
    BY Zenon, <2>1 DEF Known, FreshIds
  <2>3. 0 \notin Ids
    BY DEF Ids
  <2> QED  BY Zenon, <2>1, <2>2, <2>3
<1>2. nattch[s] # 0
  <2>1. Cardinality(Attachments(s)) # 0 \/ Cardinality(Attaching(s)) # 0
    BY Zenon, UsesFinite, FS_EmptySet DEF Used
  <2>2. Cardinality(Attachments(s)) \in Nat /\ Cardinality(Attaching(s)) \in Nat
    BY Zenon, UsesFinite
  <2>3. nattch[s] \in Nat
    BY Zenon DEF TablesInv, TypeOK
  <2>4. nattch[s] >= Cardinality(Attachments(s)) + Cardinality(Attaching(s))
    BY Zenon DEF CountCoversUse
  <2> QED  BY Zenon, <2>1, <2>2, <2>3, <2>4, SumPositive
<1>3. ASSUME NEW id \in Ids, segments[id] # 0, nattch[segments[id]] = 0 \/ id # s,
             Remove(id), UNCHANGED ds
      PROVE  segments'[ds'[s].id] = s
  <2>1. id # s
    BY Zenon, <1>1, <1>2, <1>3
  <2> QED  BY Zenon, <1>1, <1>3, <2>1, RemoveTables
<1>4. ASSUME UNCHANGED <<segments, ds>> PROVE segments'[ds'[s].id] = s
  BY Zenon, <1>4
<1>5. ASSUME NEW t \in Threads, Shmget(t) PROVE segments'[ds'[s].id] = s
  <2>1. CASE UNCHANGED <<segments, ds>>
    BY Zenon, <2>1
  <2>2. ASSUME NEW k \in 0..(MaxId - 1), NEW key \in Keys \cup {IPC_PRIVATE},
               NEW size \in {0, 1}, NEW mode \in Modes,
               IdFound(k), NewSegment(k, key, size, mode)
        PROVE  segments'[ds'[s].id] = s
    <3>1. IdAfter(k) # ds[s].id /\ s # created + 1
      BY <1>1, <2>2 DEF IdFound, Live, Known, Serials, TablesInv, TypeOK
    <3> QED  BY Zenon, <1>1, <2>2, <3>1 DEF NewSegment, TablesInv, TypeOK
  <2> QED  BY Zenon, <1>5, <2>1, <2>2
           DEF Shmget, ShmgetNew, ShmgetNoId, NoPages, segVars
<1>6. ASSUME NEW t \in Threads, ShmdtRemove(t) PROVE segments'[ds'[s].id] = s
  <2>1. CASE UNCHANGED mgrVars
    BY Zenon, <1>4, <1>6, <2>1 DEF ShmdtRemove, mgrVars, segVars
  <2>2. CASE LastDetach(seg[t]) /\ segments[ds[seg[t]].id] # 0 /\ Remove(ds[seg[t]].id)
    <3>1. seg[t] \in Serials /\ ds[seg[t]].id \in Ids /\ ds[seg[t]].id = seg[t]
      <4>1. seg[t] \in Serials /\ Known(seg[t])
        BY Zenon, <1>6, Held DEF ShmdtRemove
      <4> QED  BY SMTT(30), <4>1 DEF Known, FreshIds, Ids
    <3>2. nattch[seg[t]] = 0
      BY Zenon, <2>2 DEF LastDetach
    <3>3. ds[seg[t]].id # s
      BY Zenon, <1>2, <3>1, <3>2
    <3> QED  BY Zenon, <1>3, <1>6, <2>2, <3>1, <3>3 DEF ShmdtRemove, segVars
  <2> QED  BY Zenon, <1>6, <2>1, <2>2 DEF ShmdtRemove
<1>7. ASSUME NEW t \in Threads, NEW id \in Ids, ShmctlRmid(t, id)
      PROVE  segments'[ds'[s].id] = s
  BY Zenon, <1>3, <1>4, <1>7 DEF ShmctlRmid, mgrVars
<1>8. ASSUME NEW t \in Threads, ShmctlCopy(t) PROVE segments'[ds'[s].id] = s
  <2>1. ds'[s].id = ds[s].id
    BY <1>8, Held DEF ShmctlCopy, TablesInv, TypeOK, Ds
  <2> QED  BY Zenon, <1>8, <2>1 DEF ShmctlCopy, mgrVars
<1>9. ASSUME NEW t \in Threads,
             \/ Shmat(t) \/ Exit(t)
             \/ \E a \in Addrs : Mmap(t, a) \/ Munmap(t, a) \/ ShmdtDetach(t, a)
             \/ \E id \in Ids : ShmctlLock(t, id)
      PROVE  UNCHANGED <<segments, ds>>
  BY Zenon, <1>9 DEF Shmat, ShmatLock, ShmatLookup, ShmatNoAddress, ShmatMapFails,
     ShmatAttach, ShmdtDetach, ShmctlLock, Exit, Mmap, Munmap, mgrVars, segVars
<1> QED  BY ZenonT(30), <1>4, <1>5, <1>6, <1>7, <1>8, <1>9
         DEF Next, Shmdt, Shmctl, vars, mgrVars, segVars

(* A step keeps used segments registered, and the identifiers in step.     *)
LEMMA NextRegistered ==
  ASSUME MaxSegs <= MaxId, TablesInv, CountCoversUse, FreshIds, UsedStaysRegistered,
         [Next]_vars
  PROVE  FreshIds' /\ UsedStaysRegistered'
<1>1. ASSUME NEW s \in Serials, Used(s)' PROVE segments'[ds'[s].id] = s
  <2>1. CASE Used(s)
    <3>1. segments[ds[s].id] = s
      BY Zenon, <2>1 DEF UsedStaysRegistered, Used
    <3> QED  BY Zenon, <2>1, <3>1, UseKeeps
  <2>2. CASE ~Used(s)
    <3>1. segments' = segments /\ ds' = ds /\ segments[ds[s].id] = s
      BY Zenon, <1>1, <2>2, UseBegins
    <3> QED  BY Zenon, <3>1
  <2> QED  BY Zenon, <2>1, <2>2
<1>2. FreshIds'
  BY Zenon, NextFreshIds
<1> QED  BY Zenon, <1>1, <1>2 DEF UsedStaysRegistered, Used

(* At the start no segment is used and no identifier was given out.        *)
LEMMA InitRegistered ==
  ASSUME ShmInit, pc \in [Threads -> {"user", "exited"}]
  PROVE  FreshIds /\ UsedStaysRegistered
<1>1. FreshIds
  BY DEF ShmInit, FreshIds
<1> QED  BY Zenon, <1>1, InitCovered DEF UsedStaysRegistered

(* As long as fewer segments have been made than there are identifiers, no *)
(* segment leaves the manager while it is attached or being attached.      *)
THEOREM UsedStaysInManager ==
  ASSUME MaxSegs <= MaxId PROVE Spec => []UsedStaysRegistered
<1>1. Init => FreshIds /\ UsedStaysRegistered
  BY Zenon, InitRegistered DEF Init
<1>2. TablesInv /\ CountCoversUse /\ FreshIds /\ UsedStaysRegistered /\ [Next]_vars
        => FreshIds' /\ UsedStaysRegistered'
  BY Zenon, NextRegistered
<1> QED  BY <1>1, <1>2, TablesInvariant, CountsCoverUses, PTL DEF Spec

-----------------------------------------------------------------------------
(* The same with fork, clone and execve *)

(* The system calls that make and replace processes.                       *)
Making ==
  \E t \in Threads :
    \/ Execve(t)
    \/ \E child \in Procs : Fork(t, child)
    \/ \E u \in Threads : CloneThread(t, u)

(* A step is one of the calls above, or makes or replaces a process.       *)
LEMMA ForkSteps ==
  ASSUME [ForkNext]_forkVars PROVE [Next]_vars \/ Making
  BY Zenon DEF ForkNext, forkVars, Making

(* What these calls leave alone: the manager and the segments; attachments *)
(* only go, and a thread only begins, in user code.                        *)
LEMMA MakingKeeps ==
  ASSUME TablesInv, Making
  PROVE  /\ UNCHANGED <<segments, key_to_id, next_id, created>>
         /\ UNCHANGED <<ds, nattch, marked, seg>>
         /\ \A u \in Threads : pc'[u] = pc[u] \/ pc'[u] = "user"
         /\ \A p \in Procs, a \in Addrs :
              attached'[p][a] = attached[p][a] \/ attached'[p][a] = 0
         /\ TypeOK'
<1>1. PICK t \in Threads : \/ Execve(t)
                           \/ \E child \in Procs : Fork(t, child)
                           \/ \E u \in Threads : CloneThread(t, u)
  BY Zenon DEF Making
<1>2. /\ UNCHANGED <<segments, key_to_id, next_id, created>>
      /\ UNCHANGED <<ds, nattch, marked, seg>>
  BY Zenon, <1>1 DEF Execve, Fork, CloneThread, mgrVars, segVars, memVars, thrVars
<1>3. /\ pc \in [Threads -> PCs] /\ attached \in [Procs -> [Addrs -> 0..MaxSegs]]
      /\ mapped \in [Procs -> [Addrs -> -1..MaxSegs]]
      /\ ProcOf[t] \in Procs /\ "user" \in PCs
      /\ [a \in Addrs |-> 0] \in [Addrs -> 0..MaxSegs]
      /\ [a \in Addrs |-> 0] \in [Addrs -> -1..MaxSegs]
  <2>1. "user" \in PCs
    BY Zenon DEF PCs
  <2> QED  BY Zenon, <2>1, Constants DEF TablesInv, TypeOK
<1>4. pc' = pc \/ \E u \in Threads : pc' = [pc EXCEPT ![u] = "user"]
  BY Zenon, <1>1 DEF Execve, Fork, CloneThread, ThreadsOf, thrVars
<1>5. pc' \in [Threads -> PCs] /\ \A u \in Threads : pc'[u] = pc[u] \/ pc'[u] = "user"
  BY Zenon, <1>3, <1>4
<1>6. \/ attached' = attached
      \/ \E q \in Procs : attached' = [attached EXCEPT ![q] = [a \in Addrs |-> 0]]
  BY Zenon, <1>1 DEF Execve, Fork, CloneThread, memVars
<1>7. /\ attached' \in [Procs -> [Addrs -> 0..MaxSegs]]
      /\ \A p \in Procs, a \in Addrs :
           attached'[p][a] = attached[p][a] \/ attached'[p][a] = 0
  <2>1. CASE attached' = attached
    BY Zenon, <1>3, <2>1
  <2>2. ASSUME NEW q \in Procs, attached' = [attached EXCEPT ![q] = [a \in Addrs |-> 0]]
        PROVE  /\ attached' \in [Procs -> [Addrs -> 0..MaxSegs]]
               /\ \A p \in Procs : attached'[p] = attached[p]
                                  \/ attached'[p] = [a \in Addrs |-> 0]
    BY Zenon, <1>3, <2>2
  <2>3. /\ attached' \in [Procs -> [Addrs -> 0..MaxSegs]]
        /\ \A p \in Procs : attached'[p] = attached[p]
                           \/ attached'[p] = [a \in Addrs |-> 0]
    BY Zenon, <1>3, <1>6, <2>1, <2>2
  <2> QED  BY Zenon, <2>3
<1>8. \/ mapped' = mapped
      \/ \E q \in Procs : \/ mapped' = [mapped EXCEPT ![q] = [a \in Addrs |-> 0]]
                          \/ mapped' = [mapped EXCEPT ![q] = mapped[ProcOf[t]]]
  BY Zenon, <1>1, <1>3 DEF Execve, Fork, CloneThread, memVars
<1>9. mapped' \in [Procs -> [Addrs -> -1..MaxSegs]]
  BY Zenon, <1>3, <1>8
<1>10. TypeOK'
  <2>1. /\ segments' = segments /\ key_to_id' = key_to_id /\ next_id' = next_id
        /\ created' = created /\ ds' = ds /\ nattch' = nattch /\ marked' = marked
        /\ seg' = seg
    BY Zenon, <1>2
  <2> QED  BY Zenon, <1>5, <1>7, <1>9, <2>1 DEF TablesInv, TypeOK
<1> QED  BY Zenon, <1>2, <1>5, <1>7, <1>10

(* They keep the tables in order.                                          *)
LEMMA MakingTables ==
  ASSUME TablesInv, Making PROVE TablesInv'
<1>1. /\ segments' = segments /\ key_to_id' = key_to_id /\ created' = created
      /\ ds' = ds /\ seg' = seg /\ UNCHANGED <<mgrVars, ds>>
  BY Zenon, MakingKeeps DEF mgrVars
<1>2. KeyToId' /\ \A s : Known(s)' <=> Known(s)
  BY Zenon, <1>1, SameTables
<1>3. AllKnown'
  <2>1. \A t \in Threads : pc'[t] \in {"shmat_map", "shmdt_remove", "shmctl_copy"}
          => pc[t] \in {"shmat_map", "shmdt_remove", "shmctl_copy"}
    BY Zenon, MakingKeeps
  <2>2. \A p \in Procs, a \in Addrs : attached'[p][a] # 0 => attached'[p][a] = attached[p][a]
    BY Zenon, MakingKeeps
  <2> QED  BY Zenon, <1>1, <1>2, <2>1, <2>2 DEF TablesInv, AllKnown
<1> QED  BY Zenon, <1>2, <1>3, MakingKeeps DEF TablesInv

(* They begin no use of a segment.                                         *)
LEMMA MakingUses ==
  ASSUME TablesInv, Making, NEW s \in Serials
  PROVE  Attachments(s)' \subseteq Attachments(s) /\ Attaching(s)' \subseteq Attaching(s)
<1>1. seg' = seg /\ s # 0
  BY MakingKeeps DEF Serials
<1>2. Attaching(s)' \subseteq Attaching(s)
  BY Zenon, <1>1, MakingKeeps DEF Attaching
<1>3. \A p \in Procs, a \in Addrs : attached'[p][a] = s => attached[p][a] = s
  BY Zenon, <1>1, MakingKeeps
<1>4. Attachments(s)' \subseteq Attachments(s)
  BY Zenon, <1>3 DEF Attachments
<1> QED  BY Zenon, <1>2, <1>4

(* With them a step keeps the tables, the counts, and what is registered.  *)
LEMMA ForkNextTables == TablesInv /\ [ForkNext]_forkVars => TablesInv'
  BY Zenon, ForkSteps, NextTables, MakingTables

LEMMA ForkNextCovered ==
  TablesInv /\ CountCoversUse /\ [ForkNext]_forkVars => CountCoversUse'
<1> SUFFICES ASSUME TablesInv, CountCoversUse, Making PROVE CountCoversUse'
  BY Zenon, ForkSteps, NextCovered
<1>1. ASSUME NEW s \in Serials PROVE Covered(s)'
  <2>1. Covered(s)
    BY Zenon DEF CountCoversUse, Covered
  <2>2. nattch'[s] = nattch[s]
    <3>1. nattch' = nattch
      BY Zenon, MakingKeeps
    <3> QED  BY Zenon, <3>1
  <2> QED  BY Zenon, <2>1, <2>2, MakingUses, KeepsCovered
<1> QED  BY Zenon, <1>1 DEF CountCoversUse, Covered

LEMMA ForkNextRegistered ==
  ASSUME MaxSegs <= MaxId, TablesInv, CountCoversUse, FreshIds, UsedStaysRegistered,
         [ForkNext]_forkVars
  PROVE  FreshIds' /\ UsedStaysRegistered'
<1>1. CASE [Next]_vars
  BY Zenon, <1>1, NextRegistered
<1>2. CASE Making
  <2>1. segments' = segments /\ created' = created /\ next_id' = next_id /\ ds' = ds
    BY Zenon, <1>2, MakingKeeps
  <2>2. FreshIds'
    BY Zenon, <2>1 DEF FreshIds
  <2>3. ASSUME NEW s \in Serials, Attachments(s)' # {} \/ Attaching(s)' # {}
        PROVE  segments'[ds'[s].id] = s
    <3>1. Attachments(s) # {} \/ Attaching(s) # {}
      BY Zenon, <1>2, <2>3, MakingUses
    <3> QED  BY Zenon, <2>1, <3>1 DEF UsedStaysRegistered
  <2> QED  BY Zenon, <2>2, <2>3 DEF UsedStaysRegistered
<1> QED  BY Zenon, <1>1, <1>2, ForkSteps

(* One thread runs at the start.                                           *)
LEMMA ForkInitRuns == ForkInit => ShmInit /\ pc \in [Threads -> {"user", "exited"}]
<1> SUFFICES ASSUME ForkInit PROVE pc \in [Threads -> {"user", "exited"}]
  BY Zenon DEF ForkInit
<1> QED  BY Zenon DEF ForkInit, OneThread

LEMMA ForkTablesInvariant == ForkSpec => []TablesInv
<1>1. ForkInit => TablesInv
  BY Zenon, ForkInitRuns, InitTables
<1> QED  BY <1>1, ForkNextTables, PTL DEF ForkSpec

(* The tables of ShmManager agree whatever processes are made, replaced    *)
(* and ended meanwhile.                                                    *)
THEOREM TablesAgreeWithFork == ForkSpec => []KeyToId
  BY ForkTablesInvariant, PTL DEF TablesInv

(* shm_nattch covers the attachments: fork gives the child an empty table, *)
(* and what exit and execve leave behind is counted still.                 *)
THEOREM CountsCoverUsesWithFork == ForkSpec => []CountCoversUse
<1>1. ForkInit => CountCoversUse
  BY Zenon, ForkInitRuns, InitCovered
<1> QED  BY <1>1, ForkTablesInvariant, ForkNextCovered, PTL DEF ForkSpec

(* Once IPC_RMID has marked a segment its count only falls, and no fork    *)
(* raises it.                                                              *)
THEOREM NoAttachmentAfterRmidWithFork == ForkSpec => NoAttachAfterRmid
<1>1. TablesInv /\ [ForkNext]_forkVars =>
        \A s \in Serials : marked[s] => nattch'[s] <= nattch[s] /\ marked'[s]
  <2> SUFFICES ASSUME TablesInv, [ForkNext]_forkVars, NEW s \in Serials, marked[s]
               PROVE  nattch'[s] <= nattch[s] /\ marked'[s]
    BY Zenon
  <2>1. CASE [Next]_vars
    BY Zenon, <2>1, MarkStep
  <2>2. CASE Making
    <3>1. nattch' = nattch /\ marked' = marked
      BY Zenon, <2>2, MakingKeeps
    <3>2. nattch[s] \in Nat
      BY Zenon DEF TablesInv, TypeOK
    <3> QED  BY <3>1, <3>2
  <2> QED  BY Zenon, <2>1, <2>2, ForkSteps
<1> QED  BY <1>1, ForkTablesInvariant, PTL DEF ForkSpec, NoAttachAfterRmid

(* A segment that is attached or being attached stays with the manager, as *)
(* long as identifiers are not used twice, whoever forks or exits.         *)
THEOREM UsedStaysInManagerWithFork ==
  ASSUME MaxSegs <= MaxId PROVE ForkSpec => []UsedStaysRegistered
<1>1. ForkInit => FreshIds /\ UsedStaysRegistered
  BY Zenon, ForkInitRuns, InitRegistered
<1>2. TablesInv /\ CountCoversUse /\ FreshIds /\ UsedStaysRegistered
        /\ [ForkNext]_forkVars => FreshIds' /\ UsedStaysRegistered'
  BY Zenon, ForkNextRegistered
<1> QED  BY <1>1, <1>2, ForkTablesInvariant, CountsCoverUsesWithFork, PTL DEF ForkSpec

-----------------------------------------------------------------------------
(* Areas that nobody can detach come from fork alone *)

InheritedType == inherited \in [Procs -> [Addrs -> 0..MaxSegs]]

(* fork gives the child the areas of its parent, and they are inherited.   *)
LEMMA ForkTracked ==
  ASSUME TablesInv, InheritedType, TrackedOrInherited,
         NEW t \in Threads, NEW child \in Procs, Fork(t, child)
  PROVE  InheritedType' /\ TrackedOrInherited'
<1> DEFINE old == mapped[ProcOf[t]]
           given == [a \in Addrs |-> IF old[a] \in Serials THEN old[a] ELSE 0]
<1>1. /\ mapped \in [Procs -> [Addrs -> -1..MaxSegs]]
      /\ attached \in [Procs -> [Addrs -> 0..MaxSegs]]
      /\ inherited \in [Procs -> [Addrs -> 0..MaxSegs]]
      /\ ProcOf[t] \in Procs
  BY Zenon, Constants DEF TablesInv, TypeOK, InheritedType
<1>2. /\ mapped' = [mapped EXCEPT ![child] = old]
      /\ attached' = [attached EXCEPT ![child] = [a \in Addrs |-> 0]]
      /\ inherited' = [inherited EXCEPT ![child] = given]
  BY Zenon DEF Fork
<1>3. given \in [Addrs -> 0..MaxSegs]
  BY Constants DEF Serials
<1> HIDE DEF given
<1>4. InheritedType'
  BY Zenon, <1>1, <1>2, <1>3 DEF InheritedType
<1>5. ASSUME NEW p \in Procs, NEW a \in Addrs, mapped'[p][a] \in Serials
      PROVE  mapped'[p][a] \in {attached'[p][a], inherited'[p][a]}
  <2>1. CASE p = child
    <3>1. mapped'[p] = old /\ inherited'[p] = given
      BY Zenon, <1>1, <1>2, <2>1
    <3> QED  BY Zenon, <1>5, <3>1 DEF given
  <2>2. CASE p # child
    <3>1. mapped'[p] = mapped[p] /\ inherited'[p] = inherited[p] /\ attached'[p] = attached[p]
      BY Zenon, <1>1, <1>2, <2>2
    <3> QED  BY Zenon, <1>5, <3>1 DEF TrackedOrInherited
  <2> QED  BY Zenon, <2>1, <2>2
<1> QED  BY Zenon, <1>4, <1>5 DEF TrackedOrInherited

(* An area that a step leaves in place stays inherited.                    *)
LEMMA InheritKeeps ==
  ASSUME Inherit, InheritedType
  PROVE  /\ InheritedType'
         /\ \A p \in Procs, a \in Addrs :
              mapped'[p][a] = mapped[p][a] => inherited'[p][a] = inherited[p][a]
<1>1. \A p \in Procs, a \in Addrs : inherited[p][a] \in 0..MaxSegs
  BY Zenon DEF InheritedType
<1>2. 0 \in 0..MaxSegs
  BY Zenon, Constants
<1>3. InheritedType'
  BY Zenon, <1>1, <1>2 DEF Inherit, InheritedType
<1> QED  BY Zenon, <1>3 DEF Inherit

(* execve leaves no area, so none that its table does not know.            *)
LEMMA ExecveTracked ==
  ASSUME TablesInv, InheritedType, TrackedOrInherited, NEW t \in Threads, Execve(t)
  PROVE  InheritedType' /\ TrackedOrInherited'
<1>1. mapped \in [Procs -> [Addrs -> -1..MaxSegs]] /\ ProcOf[t] \in Procs
  BY Zenon, Constants DEF TablesInv, TypeOK
<1>2. mapped' = [mapped EXCEPT ![ProcOf[t]] = [a \in Addrs |-> 0]] /\ Inherit
      /\ attached' = attached
  BY Zenon DEF Execve
<1>3. ASSUME NEW p \in Procs, NEW a \in Addrs, mapped'[p][a] \in Serials
      PROVE  mapped'[p][a] = mapped[p][a]
  <2>1. 0 \notin Serials
    BY DEF Serials
  <2>2. mapped'[p] = mapped[p] \/ mapped'[p] = [b \in Addrs |-> 0]
    BY Zenon, <1>1, <1>2
  <2> QED  BY Zenon, <1>3, <2>1, <2>2
<1> QED  BY Zenon, <1>2, <1>3, InheritKeeps DEF TrackedOrInherited

(* The other calls.                                                        *)
LEMMA NextTracked ==
  ASSUME TablesInv, InheritedType, TrackedOrInherited, [Next]_vars, Inherit
  PROVE  InheritedType' /\ TrackedOrInherited'
<1>1. ASSUME NEW p \in Procs, NEW a \in Addrs, mapped'[p][a] \in Serials
      PROVE  mapped'[p][a] \in {attached'[p][a], inherited'[p][a]}
  <2>1. CASE attached'[p][a] = mapped'[p][a]
    BY Zenon, <2>1
  <2>2. CASE mapped'[p][a] = mapped[p][a] /\ attached'[p][a] = attached[p][a]
    <3>1. inherited'[p][a] = inherited[p][a]
      BY Zenon, <2>2, InheritKeeps
    <3>2. mapped[p][a] \in {attached[p][a], inherited[p][a]}
      BY Zenon, <1>1, <2>2 DEF TrackedOrInherited
    <3> QED  BY Zenon, <2>2, <3>1, <3>2
  <2> QED  BY Zenon, <1>1, <2>1, <2>2, AreaStep
<1> QED  BY Zenon, <1>1, InheritKeeps DEF TrackedOrInherited

(* An area of a segment is in the table of its process, so that shmdt      *)
(* finds it, unless fork has copied it into the address space: neither     *)
(* execve, exit nor a racing call makes another one.                       *)
THEOREM TrackedUnlessForked == ForkSpec => []TrackedOrInherited
<1>1. ForkInit => InheritedType /\ TrackedOrInherited
  <2> SUFFICES ASSUME ForkInit PROVE InheritedType /\ TrackedOrInherited
    OBVIOUS
  <2>1. \A p \in Procs, a \in Addrs : mapped[p][a] = 0
    BY Zenon DEF ForkInit, ShmInit
  <2>2. 0 \notin Serials
    BY DEF Serials
  <2> QED  BY Zenon, <2>1, <2>2, Constants DEF ForkInit, InheritedType, TrackedOrInherited
<1>2. TablesInv /\ InheritedType /\ TrackedOrInherited /\ [ForkNext]_forkVars
        => InheritedType' /\ TrackedOrInherited'
  <2> SUFFICES ASSUME TablesInv, InheritedType, TrackedOrInherited, [ForkNext]_forkVars
               PROVE  InheritedType' /\ TrackedOrInherited'
    OBVIOUS
  <2>1. ASSUME NEW t \in Threads, NEW u \in Threads, CloneThread(t, u)
        PROVE  mapped' = mapped /\ attached' = attached /\ inherited' = inherited
    BY Zenon, <2>1 DEF CloneThread, memVars
  <2>2. CASE UNCHANGED forkVars
    <3>1. mapped' = mapped /\ attached' = attached /\ inherited' = inherited
      BY Zenon, <2>2 DEF forkVars, vars, memVars
    <3> QED  BY Zenon, <3>1 DEF InheritedType, TrackedOrInherited
  <2>3. ASSUME mapped' = mapped, attached' = attached, inherited' = inherited
        PROVE  InheritedType' /\ TrackedOrInherited'
    BY Zenon, <2>3 DEF InheritedType, TrackedOrInherited
  <2> QED  BY Zenon, <2>1, <2>2, <2>3, NextTracked, ForkTracked, ExecveTracked DEF ForkNext
<1> QED  BY <1>1, <1>2, ForkTablesInvariant, PTL DEF ForkSpec
=============================================================================
