------------------------------ MODULE UserMem ------------------------------
(***************************************************************************)
(* How the kernel touches user memory: check_region and                    *)
(* check_null_terminated (api/src/ptr.rs), the per-CPU flag                *)
(* ACCESSING_USER_MEM (core/src/mm.rs) and handle_page_fault (src/mm.rs).  *)
(*                                                                         *)
(* The threads share one address space, behind a mutex; a page of it can   *)
(* be mapped and not yet present.  The kernel is built without preemption: *)
(* a thread leaves its CPU only when it blocks or yields, and may go on    *)
(* with any other CPU.                                                     *)
(***************************************************************************)
EXTENDS Integers

CONSTANTS Threads, CPUs, Nil,
          MemPages,       \* pages of the address space
          PAGE_SIZE_4K    \* units of a page

ASSUME SizeAssumption ==
  /\ Nil \notin CPUs /\ Nil \notin Threads
  /\ MemPages \in Nat \ {0} /\ PAGE_SIZE_4K \in Nat \ {0}

VARIABLES ACCESSING_USER_MEM,  \* the flag of each CPU
          lock,      \* holder of the address space's mutex
          mapped,    \* pages that belong to an area
          present,   \* pages that the page table maps
          mem,       \* the units of the address space, zero or not
          at,        \* the CPU a thread runs on, None while it is off
          at_pc,     \* what a thread is doing
          var,       \* the CPU whose flag access_user_memory has set, if any
          start, len, page,   \* locals of check_null_terminated
          refs,      \* pages of the reference that a call goes on to use
          vaddr,     \* page of the fault that is being handled
          panic,     \* thread whose page fault the kernel refused
          slept,     \* a thread has left its CPU inside access_user_memory
          robbed,    \* a page was unmapped after it was checked
          quiet      \* nobody has touched the memory since the scan began

UserPages == 0..MemPages-1
Units == 0..MemPages*PAGE_SIZE_4K-1
PageOf(u) == u \div PAGE_SIZE_4K

space == <<lock, mapped, present, mem>>
scan == <<var, start, len, page>>
ghosts == <<slept, robbed, quiet>>
accessVars == <<ACCESSING_USER_MEM, space, at, at_pc, scan, refs, vaddr, panic, ghosts>>

(* Inside access_user_memory, in the page fault handler or not.            *)
Inside(t) == at_pc[t] \in {"scan", "scan_fault"}

(* lock() of a thread that runs: it gets the mutex only when it is free.   *)
Free == lock = Nil
On(t) == at[t] # Nil

AccessInit ==
  /\ ACCESSING_USER_MEM = [c \in CPUs |-> FALSE]
  /\ lock = Nil /\ panic = Nil
  /\ mapped \in SUBSET UserPages /\ present = {}
  /\ mem \in [Units -> {0, 1}]
  /\ at = [t \in Threads |-> Nil] /\ at_pc = [t \in Threads |-> "user"]
  /\ var = [t \in Threads |-> Nil]
  /\ start = [t \in Threads |-> 0] /\ len = [t \in Threads |-> 0]
  /\ page = [t \in Threads |-> 0] /\ refs = [t \in Threads |-> {}]
  /\ vaddr = [t \in Threads |-> 0]
  /\ slept = FALSE /\ robbed = [t \in Threads |-> FALSE]
  /\ quiet = [t \in Threads |-> TRUE]

-----------------------------------------------------------------------------
(* Scheduling *)

NeedsLock(t) ==
  \/ at_pc[t] = "scan" /\ PageOf(start[t] + len[t]) >= page[t]
  \/ at_pc[t] \in {"check", "scan_fault", "use_fault"}

(* A ready thread gets an idle CPU.  One that waits for the mutex is ready *)
(* once it is free.                                                        *)
Dispatch(t, c) ==
  /\ at[t] = Nil /\ at_pc[t] # "dead" /\ \A o \in Threads : at[o] # c
  /\ NeedsLock(t) => Free
  /\ at' = [at EXCEPT ![t] = c]
  /\ UNCHANGED <<ACCESSING_USER_MEM, space, at_pc, scan, refs, vaddr, panic, ghosts>>

(* A thread leaves its CPU: it finds the mutex taken, or the call it makes *)
(* waits, or the program yields.                                           *)
Leave(t) ==
  /\ On(t)
  /\ (NeedsLock(t) /\ ~Free) \/ at_pc[t] \in {"user", "use", "holding"}
  /\ at' = [at EXCEPT ![t] = Nil]
  /\ slept' = (slept \/ Inside(t))
  /\ UNCHANGED <<ACCESSING_USER_MEM, space, at_pc, scan, refs, vaddr, panic, robbed, quiet>>

-----------------------------------------------------------------------------
(* check_null_terminated *)

Begin(t, u) ==
  /\ On(t) /\ at_pc[t] = "user"
  /\ ACCESSING_USER_MEM' = [ACCESSING_USER_MEM EXCEPT ![at[t]] = TRUE]
  /\ var' = [var EXCEPT ![t] = at[t]]
  /\ at_pc' = [at_pc EXCEPT ![t] = "scan"]
  /\ start' = [start EXCEPT ![t] = u] /\ len' = [len EXCEPT ![t] = 0]
  /\ page' = [page EXCEPT ![t] = PageOf(u)]
  /\ UNCHANGED <<space, at, refs, vaddr, panic, ghosts>>

(* Variant: the flag of the CPU on which the thread now runs is cleared.   *)
EndHere(t, l) ==
  /\ ACCESSING_USER_MEM' = [ACCESSING_USER_MEM EXCEPT ![at[t]] = FALSE]
  /\ var' = [var EXCEPT ![t] = Nil] /\ at_pc' = [at_pc EXCEPT ![t] = l]

(* The end of access_user_memory: the flag that was set is cleared.        *)
End(t, l) ==
  /\ ACCESSING_USER_MEM' = [ACCESSING_USER_MEM EXCEPT ![var[t]] = FALSE]
  /\ var' = [var EXCEPT ![t] = Nil] /\ at_pc' = [at_pc EXCEPT ![t] = l]

(* The next page is checked under the mutex, which is free again at once;  *)
(* EFAULT when it is in no area.                                           *)
CheckPage(t) ==
  /\ On(t) /\ at_pc[t] = "scan" /\ NeedsLock(t) /\ Free
  /\ IF page[t] \in mapped
     THEN page' = [page EXCEPT ![t] = @ + 1] /\ UNCHANGED <<ACCESSING_USER_MEM, var, at_pc>>
     ELSE End(t, "efault") /\ UNCHANGED page
  /\ UNCHANGED <<space, at, start, len, refs, vaddr, panic, ghosts>>

(* Variant: the end of the string is counted in.                           *)
ReadUnitPast(t) ==
  LET u == start[t] + len[t]
  IN  /\ On(t) /\ at_pc[t] = "scan" /\ ~NeedsLock(t) /\ PageOf(u) \in present
      /\ len' = [len EXCEPT ![t] = @ + 1]
      /\ IF mem[u] = 0
         THEN End(t, "use") /\ refs' = [refs EXCEPT ![t] = PageOf(start[t])..PageOf(u)]
         ELSE UNCHANGED <<ACCESSING_USER_MEM, var, at_pc, refs>>
      /\ UNCHANGED <<space, at, start, page, vaddr, panic, ghosts>>

(* read_volatile of a unit that is present.  At the zero the call has its  *)
(* slice and goes on.                                                      *)
ReadUnit(t) ==
  LET u == start[t] + len[t]
  IN  /\ On(t) /\ at_pc[t] = "scan" /\ ~NeedsLock(t) /\ PageOf(u) \in present
      /\ IF mem[u] = 0
         THEN /\ End(t, "use") /\ UNCHANGED len
              /\ refs' = [refs EXCEPT ![t] = PageOf(start[t])..PageOf(u)]
         ELSE /\ len' = [len EXCEPT ![t] = @ + 1]
              /\ UNCHANGED <<ACCESSING_USER_MEM, var, at_pc, refs>>
      /\ UNCHANGED <<space, at, start, page, vaddr, panic, ghosts>>

-----------------------------------------------------------------------------
(* check_region, and the use of what it has checked *)

Region(t, S) ==
  /\ On(t) /\ at_pc[t] = "user"
  /\ at_pc' = [at_pc EXCEPT ![t] = "check"] /\ refs' = [refs EXCEPT ![t] = S]
  /\ UNCHANGED <<ACCESSING_USER_MEM, space, at, scan, vaddr, panic, ghosts>>

(* Variant: the pages are left to be made present by page faults.          *)
CheckRegionLazy(t) ==
  /\ On(t) /\ at_pc[t] = "check" /\ Free
  /\ at_pc' = [at_pc EXCEPT ![t] = IF refs[t] \subseteq mapped THEN "use" ELSE "efault"]
  /\ UNCHANGED <<ACCESSING_USER_MEM, space, at, scan, refs, vaddr, panic, ghosts>>

(* The region is checked and made present under the mutex.                 *)
CheckRegion(t) ==
  /\ On(t) /\ at_pc[t] = "check" /\ Free
  /\ IF refs[t] \subseteq mapped
     THEN at_pc' = [at_pc EXCEPT ![t] = "use"] /\ present' = present \cup refs[t]
     ELSE at_pc' = [at_pc EXCEPT ![t] = "efault"] /\ UNCHANGED present
  /\ UNCHANGED <<ACCESSING_USER_MEM, lock, mapped, mem, at, scan, refs, vaddr, panic, ghosts>>

(* The call returns: its locals are gone.                                  *)
ReturnCall(t) ==
  /\ at_pc' = [at_pc EXCEPT ![t] = "user"] /\ refs' = [refs EXCEPT ![t] = {}]
  /\ start' = [start EXCEPT ![t] = 0] /\ len' = [len EXCEPT ![t] = 0]
  /\ page' = [page EXCEPT ![t] = 0]
  /\ robbed' = [robbed EXCEPT ![t] = FALSE] /\ quiet' = [quiet EXCEPT ![t] = TRUE]
  /\ UNCHANGED <<ACCESSING_USER_MEM, space, at, var, vaddr, panic, slept>>

(* The call reads or writes through the reference.                         *)
Use(t) == On(t) /\ at_pc[t] = "use" /\ refs[t] \subseteq present /\ ReturnCall(t)

(* EFAULT is returned.                                                     *)
Efault(t) == On(t) /\ at_pc[t] = "efault" /\ ReturnCall(t)

-----------------------------------------------------------------------------
(* handle_page_fault *)

(* The pages whose absence stops a thread in the kernel.                   *)
Missing(t) ==
  (IF at_pc[t] = "scan" THEN {PageOf(start[t] + len[t])} ELSE refs[t]) \ present

(* A fault in the kernel is refused when the flag of the CPU is not set;   *)
(* the trap handler then panics.                                           *)
KernelFault(t) ==
  /\ On(t) /\ at_pc[t] \in {"scan", "use"} /\ ~NeedsLock(t)
  /\ \E p \in Missing(t) : vaddr' = [vaddr EXCEPT ![t] = p]
  /\ IF ACCESSING_USER_MEM[at[t]]
     THEN /\ at_pc' = [at_pc EXCEPT ![t] = IF @ = "scan" THEN "scan_fault" ELSE "use_fault"]
          /\ UNCHANGED panic
     ELSE panic' = t /\ UNCHANGED at_pc
  /\ UNCHANGED <<ACCESSING_USER_MEM, space, at, scan, refs, ghosts>>

(* AddrSpace::handle_page_fault makes a page of an area present; a thread  *)
(* that touches any other page leaves through do_exit, from wherever it    *)
(* was, and clears no flag.                                                *)
Resolve(t, p, l) ==
  IF p \in mapped
  THEN present' = present \cup {p} /\ at_pc' = [at_pc EXCEPT ![t] = l] /\ UNCHANGED at
  ELSE at_pc' = [at_pc EXCEPT ![t] = "dead"] /\ at' = [at EXCEPT ![t] = Nil] /\ UNCHANGED present

HandleFault(t) ==
  /\ On(t) /\ at_pc[t] \in {"scan_fault", "use_fault"} /\ Free
  /\ Resolve(t, vaddr[t], IF at_pc[t] = "scan_fault" THEN "scan" ELSE "use")
  /\ vaddr' = [vaddr EXCEPT ![t] = 0]
  /\ UNCHANGED <<ACCESSING_USER_MEM, lock, mapped, mem, scan, refs, panic, ghosts>>

-----------------------------------------------------------------------------
(* The program *)

(* It stores into a page that is present, or faults.                       *)
Store(t, u, v) ==
  /\ On(t) /\ at_pc[t] = "user" /\ PageOf(u) \in present
  /\ mem' = [mem EXCEPT ![u] = v]
  /\ quiet' = [o \in Threads |-> quiet[o] /\ ~Inside(o)]
  /\ UNCHANGED <<ACCESSING_USER_MEM, lock, mapped, present, at, at_pc, scan, refs, vaddr, panic,
                 slept, robbed>>

UserFault(t, p) ==
  /\ On(t) /\ at_pc[t] = "user" /\ Free /\ p \notin present
  /\ Resolve(t, p, "user")
  /\ UNCHANGED <<ACCESSING_USER_MEM, lock, mapped, mem, scan, refs, vaddr, panic, ghosts>>

(* A call that changes the mappings: it takes the mutex, may wait with it  *)
(* (mmap reads the file), and maps or unmaps a page.                       *)
Hold(t) ==
  /\ On(t) /\ at_pc[t] = "user" /\ Free
  /\ lock' = t /\ at_pc' = [at_pc EXCEPT ![t] = "holding"]
  /\ UNCHANGED <<ACCESSING_USER_MEM, mapped, present, mem, at, scan, refs, vaddr, panic, ghosts>>

MapPage(t, p) ==
  /\ On(t) /\ at_pc[t] = "holding" /\ p \notin mapped
  /\ mapped' = mapped \cup {p}
  /\ mem' = [u \in Units |-> IF PageOf(u) = p THEN 0 ELSE mem[u]]
  /\ lock' = Nil /\ at_pc' = [at_pc EXCEPT ![t] = "user"]
  /\ quiet' = [o \in Threads |-> quiet[o] /\ ~Inside(o)]
  /\ UNCHANGED <<ACCESSING_USER_MEM, present, at, scan, refs, vaddr, panic, slept, robbed>>

(* The pages a thread in the kernel has checked and will touch.            *)
Checked(t) ==
  CASE Inside(t) -> PageOf(start[t])..page[t]-1
    [] at_pc[t] \in {"use", "use_fault"} -> refs[t]
    [] OTHER -> {}

UnmapPage(t, p) ==
  /\ On(t) /\ at_pc[t] = "holding" /\ p \in mapped
  /\ mapped' = mapped \ {p} /\ present' = present \ {p}
  /\ lock' = Nil /\ at_pc' = [at_pc EXCEPT ![t] = "user"]
  /\ robbed' = [o \in Threads |-> robbed[o] \/ p \in Checked(o)]
  /\ quiet' = [o \in Threads |-> quiet[o] /\ ~Inside(o)]
  /\ UNCHANGED <<ACCESSING_USER_MEM, mem, at, scan, refs, vaddr, panic, slept>>

-----------------------------------------------------------------------------
Kernel(t) ==
  \/ (\E u \in Units : Begin(t, u)) \/ \E S \in SUBSET UserPages \ {{}} : Region(t, S)
  \/ CheckPage(t) \/ ReadUnit(t) \/ CheckRegion(t) \/ Use(t) \/ Efault(t)
  \/ KernelFault(t) \/ HandleFault(t)

UserCode(t) ==
  \/ Hold(t)
  \/ \E p \in UserPages : UserFault(t, p) \/ MapPage(t, p) \/ UnmapPage(t, p)
  \/ \E u \in Units, v \in {0, 1} : Store(t, u, v)

AccessNext ==
  panic = Nil /\ \E t \in Threads :
    Kernel(t) \/ UserCode(t) \/ Leave(t) \/ \E c \in CPUs : Dispatch(t, c)

AccessSpec == AccessInit /\ [][AccessNext]_accessVars

-----------------------------------------------------------------------------
PCs == {"user", "scan", "scan_fault", "check", "use", "use_fault", "efault",
        "holding", "dead"}

AccessTypeOK ==
  /\ ACCESSING_USER_MEM \in [CPUs -> BOOLEAN]
  /\ lock \in Threads \cup {Nil} /\ panic \in Threads \cup {Nil}
  /\ mapped \subseteq UserPages /\ present \subseteq UserPages /\ mem \in [Units -> {0, 1}]
  /\ at \in [Threads -> CPUs \cup {Nil}] /\ var \in [Threads -> CPUs \cup {Nil}]
  /\ at_pc \in [Threads -> PCs]
  /\ start \in [Threads -> Nat] /\ len \in [Threads -> Nat] /\ page \in [Threads -> Nat]
  /\ refs \in [Threads -> SUBSET UserPages] /\ vaddr \in [Threads -> UserPages]
  /\ slept \in BOOLEAN /\ robbed \in [Threads -> BOOLEAN]
  /\ quiet \in [Threads -> BOOLEAN]

(* The flag of a CPU is set only on behalf of a thread that has entered    *)
(* access_user_memory there and not left it, or died of a page fault in    *)
(* it; and as long as no thread has had to wait inside, every thread that  *)
(* is inside finds the flag of its CPU set.                                *)
FlagFollows ==
  /\ \A c \in CPUs : ACCESSING_USER_MEM[c] => \E t \in Threads : var[t] = c
  /\ \A t \in Threads : var[t] # Nil => Inside(t) \/ at_pc[t] = "dead"
  /\ ~slept => \A t \in Threads : Inside(t) => ACCESSING_USER_MEM[at[t]]

(* handle_page_fault refuses a fault of the kernel, which then panics,     *)
(* only if some thread has had to wait inside access_user_memory, or if    *)
(* the thread uses memory which another one has unmapped since             *)
(* check_region or the scan had found it there.                            *)
PanicHasCause ==
  \A t \in Threads : panic = t => IF at_pc[t] = "scan" THEN slept ELSE robbed[t]

(* What check_null_terminated may answer in a step.                        *)
ScanAnswer ==
  \A t \in Threads : at_pc[t] = "scan" /\ quiet[t] =>
    /\ at_pc'[t] = "use" =>
         /\ mem[start[t] + len'[t]] = 0
         /\ \A i \in 0..len'[t]-1 : mem[start[t] + i] # 0
         /\ PageOf(start[t])..PageOf(start[t] + len'[t]) \subseteq mapped
    /\ at_pc'[t] = "efault" =>
         \E p \in PageOf(start[t])..MemPages :
           /\ p \notin mapped
           /\ \A u \in start[t]..p*PAGE_SIZE_4K-1 : mem[u] # 0

(* When nobody changes the memory meanwhile, check_null_terminated returns *)
(* the distance to the first zero if all pages up to it are mapped, and    *)
(* EFAULT if there is one that is not, wherever the string starts.         *)
ScanAnswers == [][ScanAnswer]_accessVars

(* A page fault inside access_user_memory is never refused.                *)
ScopedFaultHandled == \A t \in Threads : panic = t => at_pc[t] # "scan"
=============================================================================
