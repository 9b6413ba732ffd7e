------------------------------ MODULE MCMemory -----------------------------
(***************************************************************************)
(* Two parts of the memory of programs: the address spaces of processes,   *)
(* or the access of the kernel to the one of two threads.  In the latter   *)
(* both threads make calls with pointers into a single page, on two CPUs,  *)
(* or they share a CPU, and one of them makes calls with strings that run  *)
(* over several pages.  They have no state in common; the variables of the *)
(* other one rest.                                                         *)
(***************************************************************************)
EXTENDS AddressSpace, UserMem

CONSTANTS Caller, Cpu

ASSUME MemoryAssumption == Caller \in Threads /\ Cpu \in CPUs

(* Bounds for calls that meet each other, calls that meet an execve, and   *)
(* execves that meet each other and the changes of their files.            *)
MCBounds == {[calls |-> 2, writes |-> 0, execs |-> 0],
             [calls |-> 1, writes |-> 1, execs |-> 1],
             [calls |-> 0, writes |-> 2, execs |-> 2]}

VARIABLE part

allVars == <<part, vars, accessVars>>

NoAccess == AccessInit /\ mapped = {} /\ mem = [u \in Units |-> 0]

(* Bounds on the use of memory: all of it within page 0, which may be      *)
(* mapped; or one thread that makes calls, and one CPU.                    *)
OnePage ==
  /\ mapped \subseteq {0} /\ \A u \in Units : PageOf(u) # 0 => mem[u] = 0
  /\ \A t \in Threads : PageOf(start[t]) = 0 /\ refs[t] \subseteq {0} /\ vaddr[t] = 0
OneCaller ==
  \A t \in Threads : /\ at[t] \in {Cpu, Nil}
                     /\ t # Caller => at_pc[t] \in {"user", "holding", "dead"}
Bounded == (part = "access" => OnePage) /\ (part = "strings" => OneCaller)

MemoryInit ==
  /\ Init
  /\ \/ part = "spaces" /\ NoAccess
     \/ /\ part \in {"access", "strings"} /\ AccessInit /\ Bounded
        /\ file = [f \in Files |-> "elf"] /\ left.calls = 0

Mapping == part = "spaces" /\ UNCHANGED <<part, accessVars>>
Accessing == part # "spaces" /\ UNCHANGED <<part, vars>>

MemoryNext == (Mapping /\ Next) \/ (Accessing /\ AccessNext /\ Bounded')

(* As in AddressSpace!Spec.                                                *)
MemorySpec ==
  /\ MemoryInit /\ [][MemoryNext]_allVars
  /\ \A p \in Procs : WF_allVars(Mapping /\ Steps(p))
=============================================================================
