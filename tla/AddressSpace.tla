---------------------------- MODULE AddressSpace ---------------------------
(***************************************************************************)
(* The memory of user programs: sys_mmap, sys_munmap, sys_mprotect and     *)
(* sys_brk (api/src/imp/mm), execve and the loading of a program           *)
(* (api/src/imp/task/execve.rs, core/src/mm.rs), the spaces that clone     *)
(* copies or shares, and the page fault that ends a program.               *)
(*                                                                         *)
(* A space is a row of pages.  The files that are executed are ELF images, *)
(* images or scripts that name an interpreter, or neither; others can      *)
(* change them at any time.  The processes have one thread each: execve    *)
(* refuses the others (EAGAIN) before it does anything.                    *)
(***************************************************************************)
EXTENDS Integers

CONSTANTS Procs, First, Program, \* processes, the one the kernel starts, its file
          Files, None,
          Contents,             \* what a file may contain
          NPages, ElfPages, StackPages, Trampoline, HeapBase, HeapSize,
          MaxLen,               \* bound: pages of an mmap, munmap or mprotect
          Bounds                \* bounds: such calls, changes of files, execves

ASSUME LayoutAssumption ==
  /\ First \in Procs /\ Program \in Files /\ None \notin Files /\ None \notin Procs
  /\ NPages \in Nat /\ Trampoline \in Nat /\ HeapBase \in Nat /\ HeapSize \in Nat
  /\ MaxLen \in Nat /\ Bounds \subseteq [calls: Nat, writes: Nat, execs: Nat]

VARIABLES file,      \* contents of each file
          aspace,    \* the space of each process, None before it is created
          area,      \* each page of each space: not mapped, writable or read-only
          heap_top,  \* of each process: pages of the heap below the break
          exe_path,  \* of each process
          pc, path, load,  \* an execve: its file, and the one being loaded
                     \* (None: its argument list is empty)
          left,      \* what is left of the bounds
          image,     \* the program that was loaded into a space, if it is there
          named,     \* the pages that its programs have replaced since
          changed,   \* the file has changed since execve looked at it
          mixed      \* spaces that processes have shared, and their copies

procVars == <<aspace, exe_path, heap_top>>
execVars == <<pc, path, load>>
vars == <<file, procVars, area, execVars, left, image, named, changed, mixed>>

Spend(k) == left[k] > 0 /\ left' = [left EXCEPT ![k] = @ - 1]

Pages == 1..NPages
HeapPages == HeapBase..(HeapBase + HeapSize - 1)

(* The Mutex of the space, which execve holds while it loads the program.  *)
Unlocked(s) == \A q \in Procs : aspace[q] = s => pc[q] # "load"

(* The program can go on: its code is mapped.                              *)
Runs(p) == pc[p] = "user" /\ Unlocked(aspace[p]) /\ \A i \in ElfPages : area[aspace[p]][i] = "rx"

(* What map_trampoline, map_elf and load_user_app make of an empty space.  *)
Fresh(i) ==
  IF i \in ElfPages \cup {Trampoline} THEN "rx"
  ELSE IF i \in StackPages \cup HeapPages THEN "rw" ELSE "none"

(* run_user_app.                                                           *)
Init ==
  /\ file \in [Files -> Contents] /\ left \in Bounds
  /\ image = [s \in Procs |-> IF s = First THEN Program ELSE None]
  /\ exe_path = image
  /\ aspace = [p \in Procs |-> IF p = First THEN p ELSE None]
  /\ area = [s \in Procs |-> [i \in Pages |-> IF s = First THEN Fresh(i) ELSE "none"]]
  /\ heap_top = [p \in Procs |-> 0]
  /\ pc = [p \in Procs |-> IF p = First THEN "user" ELSE "none"]
  /\ path = [p \in Procs |-> None] /\ load = [p \in Procs |-> None]
  /\ named = [s \in Procs |-> {}] /\ mixed = {} /\ changed = [p \in Procs |-> FALSE]

(* Someone writes, replaces or removes a file.                             *)
WriteFile(f, c) ==
  /\ Spend("writes")
  /\ c # file[f] /\ file' = [file EXCEPT ![f] = c]
  /\ changed' = [p \in Procs |-> changed[p] \/ path[p] = f]
  /\ UNCHANGED <<procVars, area, execVars, image, named, mixed>>

-----------------------------------------------------------------------------
(* mmap, munmap, mprotect and brk *)

Span(a, n) == a..(a + n - 1)

(* Variant: the place asked for is taken as it is.                         *)
StartAddrAsked(s, a, n) == {b \in {a} : Span(b, n) \subseteq Pages}

(* AddrSpace::find_free_area above the address asked for or, without room  *)
(* there, from the base of the space; ENOMEM when there is no place.       *)
StartAddr(s, a, n) ==
  LET Places == {b \in Pages : Span(b, n) \subseteq Pages /\ \A i \in Span(b, n) : area[s][i] = "none"}
      Above == {b \in Places : b >= a}
      From == IF Above = {} THEN Places ELSE Above
  IN {b \in From : \A c \in From : b <= c}

(* A call of p gives the pages S of its space the protection prot.         *)
Remap(p, S, prot) ==
  /\ Spend("calls")
  /\ area' = [area EXCEPT ![aspace[p]] = [i \in Pages |-> IF i \in S THEN prot ELSE @[i]]]
  /\ UNCHANGED <<file, procVars, execVars, image, changed, mixed>>

(* With a file descriptor the file is read into the new area, which stays  *)
(* when the descriptor, the offset or the read is wrong and the call fails.*)
Mmap(p, a, n, prot) ==
  /\ Runs(p)
  /\ \E b \in StartAddr(aspace[p], a, n) : Remap(p, Span(b, n), prot)
  /\ UNCHANGED named

(* Calls that say which pages they are about.  MAP_FIXED unmaps them first:*)
(* when no memory is left for the new area it has done what Munmap does.   *)
Name(p, S, prot) ==
  /\ Runs(p) /\ S \subseteq Pages
  /\ Remap(p, S, prot)
  /\ named' = [named EXCEPT ![aspace[p]] = @ \cup S]

MmapFixed(p, a, n, prot) == Name(p, Span(a, n), prot)

Munmap(p, a, n) == Name(p, Span(a, n), "none")

(* AddrSpace::protect passes over the pages that are not mapped.           *)
Mprotect(p, a, n, prot) ==
  /\ Runs(p) /\ Span(a, n) \subseteq Pages
  /\ Name(p, {i \in Span(a, n) : area[aspace[p]][i] # "none"}, prot)

(* sys_brk to an address outside the heap returns the break as it is.      *)
Brk(p, top) ==
  /\ Runs(p) /\ top \in 0..HeapSize
  /\ Spend("calls")
  /\ heap_top' = [heap_top EXCEPT ![p] = top]
  /\ UNCHANGED <<file, aspace, exe_path, area, execVars, image, named, changed, mixed>>

-----------------------------------------------------------------------------
(* clone and exit *)

(* Without CLONE_VM the child has a copy of the space, with it the space   *)
(* itself; its break is at the bottom of the heap in both cases.           *)
Clone(p, c, vm) ==
  /\ Runs(p) /\ pc[c] = "none"
  /\ aspace' = [aspace EXCEPT ![c] = IF vm THEN aspace[p] ELSE c]
  /\ area' = IF vm THEN area ELSE [area EXCEPT ![c] = area[aspace[p]]]
  /\ image' = IF vm THEN image ELSE [image EXCEPT ![c] = image[aspace[p]]]
  /\ named' = IF vm THEN named ELSE [named EXCEPT ![c] = named[aspace[p]]]
  /\ mixed' = IF vm THEN mixed \cup {aspace[p]}
              ELSE IF aspace[p] \in mixed THEN mixed \cup {c} ELSE mixed
  /\ exe_path' = [exe_path EXCEPT ![c] = exe_path[p]]
  /\ heap_top' = [heap_top EXCEPT ![c] = 0]
  /\ pc' = [pc EXCEPT ![c] = "user"]
  /\ UNCHANGED <<file, path, load, left, changed>>

(* The process ends; the last one of a space frees it.                     *)
Gone(p) ==
  LET s == aspace[p]
      last == \A q \in Procs \ {p} : aspace[q] = s => pc[q] = "gone"
  IN /\ pc' = [pc EXCEPT ![p] = "gone"]
     /\ heap_top' = [heap_top EXCEPT ![p] = 0]
     /\ area' = IF last THEN [area EXCEPT ![s] = [i \in Pages |-> "none"]] ELSE area
     /\ image' = IF last THEN [image EXCEPT ![s] = None] ELSE image
     /\ named' = IF last THEN [named EXCEPT ![s] = {}] ELSE named
     /\ UNCHANGED <<file, aspace, exe_path, path, load, left, changed, mixed>>

Exit(p) == Runs(p) /\ Gone(p)

(* handle_page_fault: the code is not mapped, do_exit(SIGSEGV).            *)
Segv(p) == pc[p] = "user" /\ Unlocked(aspace[p]) /\ ~Runs(p) /\ Gone(p)

-----------------------------------------------------------------------------
(* execve *)

(* Variant: the format of the file is not looked at.                       *)
ValidateNothing(c) == TRUE

(* validate_executable: an ELF file, or any that starts with "#!".  The    *)
(* content "bad" stands for another one, and for a missing file.           *)
Validate(c) == c # "bad"

(* The file is read and looked at; ENOENT and ENOEXEC change nothing.      *)
Execve(p, f) ==
  /\ Spend("execs")
  /\ Runs(p) /\ Validate(file[f])
  /\ pc' = [pc EXCEPT ![p] = "exec"]
  /\ path' = [path EXCEPT ![p] = f]
  /\ UNCHANGED <<file, procVars, area, load, image, named, changed, mixed>>

(* aspace.lock(), unmap_user_areas and map_trampoline.  Whether there are  *)
(* arguments is settled before, and of no consequence until now.           *)
UnmapUserAreas(p) ==
  /\ pc[p] = "exec" /\ Unlocked(aspace[p])
  /\ area' = [area EXCEPT ![aspace[p]] = [i \in Pages |-> IF i = Trampoline THEN "rx" ELSE "none"]]
  /\ image' = [image EXCEPT ![aspace[p]] = None]
  /\ named' = [named EXCEPT ![aspace[p]] = {}]
  /\ pc' = [pc EXCEPT ![p] = "load"]
  /\ \E f \in {path[p], None} : load' = [load EXCEPT ![p] = f]
  /\ UNCHANGED <<file, procVars, path, left, changed, mixed>>

Return(p) ==
  /\ pc' = [pc EXCEPT ![p] = "user"]
  /\ path' = [path EXCEPT ![p] = None] /\ load' = [load EXCEPT ![p] = None]
  /\ changed' = [changed EXCEPT ![p] = FALSE]
  /\ UNCHANGED <<file, aspace, heap_top, left, named, mixed>>

(* map_alloc fails where something is mapped.                              *)
Vacant(s) == \A i \in Pages : Fresh(i) # "none" /\ i # Trampoline => area[s][i] = "none"

(* Variant: the script itself is passed on to the next load.               *)
LoadSame(p) ==
  /\ pc[p] = "load" /\ load[p] # None /\ file[load[p]] \in Files
  /\ UNCHANGED vars

(* load_user_app of a script or image with an interpreter loads that one,  *)
(* however long the chain is.                                              *)
LoadInterpreter(p) ==
  /\ pc[p] = "load" /\ load[p] # None /\ file[load[p]] \in Files
  /\ load' = [load EXCEPT ![p] = file[load[p]]]
  /\ UNCHANGED <<file, procVars, area, pc, path, left, image, named, changed, mixed>>

(* Variant: exe_path is forgotten.                                         *)
LoadOnly(p) ==
  /\ pc[p] = "load" /\ load[p] # None /\ file[load[p]] = "elf" /\ Vacant(aspace[p])
  /\ area' = [area EXCEPT ![aspace[p]] = [i \in Pages |-> IF Fresh(i) = "none" THEN @[i] ELSE Fresh(i)]]
  /\ image' = [image EXCEPT ![aspace[p]] = path[p]]
  /\ Return(p) /\ UNCHANGED exe_path

(* map_elf, the stack and the heap; then exe_path.                         *)
Load(p) ==
  /\ pc[p] = "load" /\ load[p] # None /\ file[load[p]] = "elf" /\ Vacant(aspace[p])
  /\ area' = [area EXCEPT ![aspace[p]] = [i \in Pages |-> IF Fresh(i) = "none" THEN @[i] ELSE Fresh(i)]]
  /\ image' = [image EXCEPT ![aspace[p]] = path[p]]
  /\ exe_path' = [exe_path EXCEPT ![p] = path[p]]
  /\ Return(p)

(* No arguments, no file, no ELF file, no room: ENOENT, for a program that *)
(* is gone.  An "empty" script names no interpreter.                       *)
LoadError(p) ==
  /\ pc[p] = "load"
  /\ \/ load[p] = None
     \/ load[p] # None /\ file[load[p]] \in {"bad", "empty"}
     \/ load[p] # None /\ file[load[p]] = "elf" /\ ~Vacant(aspace[p])
  /\ Return(p) /\ UNCHANGED <<area, image, exe_path>>

(* There is no memory left for the image, the stack or the heap.           *)
LoadNoMemory(p) ==
  /\ pc[p] = "load" /\ load[p] # None /\ file[load[p]] = "elf"
  /\ \E S \in {{}, ElfPages, ElfPages \cup StackPages} :
       area' = [area EXCEPT ![aspace[p]] = [i \in Pages |-> IF i \in S THEN Fresh(i) ELSE @[i]]]
  /\ Return(p) /\ UNCHANGED <<image, exe_path>>

-----------------------------------------------------------------------------
(* Specification *)

Prots == {"rw", "rx"}

Calls(p) ==
  \/ left["calls"] > 0 /\ \E a \in Pages, n \in 1..MaxLen, prot \in Prots :
       Mmap(p, a, n, prot) \/ MmapFixed(p, a, n, prot) \/ Mprotect(p, a, n, prot)
  \/ left["calls"] > 0 /\ \E a \in Pages, n \in 1..MaxLen : Munmap(p, a, n)
  \/ \E top \in 0..HeapSize+1 : Brk(p, top)
  \/ \E c \in Procs, vm \in BOOLEAN : Clone(p, c, vm)
  \/ \E f \in Files : Execve(p, f)
  \/ Exit(p)

Steps(p) ==
  \/ UnmapUserAreas(p) \/ LoadInterpreter(p) \/ Load(p) \/ LoadError(p)
  \/ LoadNoMemory(p) \/ Segv(p)

Next ==
  \/ \E p \in Procs : Calls(p) \/ Steps(p)
  \/ \E f \in Files, c \in Contents : WriteFile(f, c)

Spec == Init /\ [][Next]_vars /\ \A p \in Procs : WF_vars(Steps(p))

-----------------------------------------------------------------------------
(* Properties *)

TypeOK ==
  /\ file \in [Files -> Contents]
  /\ aspace \in [Procs -> Procs \cup {None}]
  /\ area \in [Procs -> [Pages -> {"none", "rw", "rx"}]]
  /\ heap_top \in [Procs -> 0..HeapSize]
  /\ exe_path \in [Procs -> Files \cup {None}] /\ image \in [Procs -> Files \cup {None}]
  /\ pc \in [Procs -> {"none", "user", "exec", "load", "gone"}]
  /\ path \in [Procs -> Files \cup {None}] /\ load \in [Procs -> Files \cup {None}]
  /\ named \in [Procs -> SUBSET Pages] /\ changed \in [Procs -> BOOLEAN]
  /\ mixed \subseteq Procs
  /\ \A p \in Procs : pc[p] # "none" => aspace[p] \in Procs /\ exe_path[p] \in Files

(* While its program is loaded, the code, the stack, the trampoline and    *)
(* the whole heap that sys_brk hands out are mapped as load_user_app left  *)
(* them in every space, except for the pages that a program has named in a *)
(* MAP_FIXED mmap, a munmap or an mprotect: no other mmap, and no clone,   *)
(* fault or failed call, disturbs them.                                    *)
LayoutIntact ==
  \A s \in Procs : image[s] # None =>
    \A i \in Pages \ named[s] : Fresh(i) # "none" => area[s][i] = Fresh(i)

(* exe_path names the program in memory, through forks and through failed  *)
(* execves, except in a space that processes have shared, which an execve  *)
(* of one replaces for the others too, or a copy of such a space.          *)
ProgramIsExe ==
  \A p \in Procs :
    pc[p] # "none" /\ image[aspace[p]] \notin {None, exe_path[p]} => aspace[p] \in mixed

(* An execve that has found an executable file gives up, with the calling  *)
(* program already unmapped, only for want of arguments or memory, for a   *)
(* script without interpreter or an interpreter that cannot be loaded, or  *)
(* because the file has changed since validate_executable saw it.          *)
LostWithCause ==
  [][\A p \in Procs :
       pc[p] = "load" /\ pc'[p] = "user" /\ image'[aspace[p]] = None =>
         \/ load[p] = None \/ LoadNoMemory(p) \/ file[path[p]] = "empty"
         \/ load[p] # path[p] \/ changed[p]]_vars

(* Unless interpreters name each other in a circle, an execve that has     *)
(* unmapped the caller ends: with a program that runs, or with the page    *)
(* fault that ends the process.                                            *)
ExecveEnds ==
  [](\A f \in Files : file[f] \notin Files \/ file[file[f]] \notin Files)
    => \A p \in Procs : pc[p] = "load" ~> Runs(p) \/ pc[p] = "gone"
=============================================================================
