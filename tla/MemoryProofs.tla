---------------------------- MODULE MemoryProofs ---------------------------
(***************************************************************************)
(* The memory of programs, for any numbers of processes, files, threads,   *)
(* CPUs and pages.                                                         *)
(*                                                                         *)
(* First the access of the kernel to user memory, for pages of any size:   *)
(* whose flag ACCESSING_USER_MEM is, what a refused page fault has been    *)
(* caused by, and the answers of check_null_terminated.  Then the mappings *)
(* of programs and the outcome of execve, for any layout and any bounds.   *)
(***************************************************************************)
EXTENDS AddressSpace, UserMem, TLAPS

Types ==
  /\ ACCESSING_USER_MEM \in [CPUs -> BOOLEAN]
  /\ mapped \subseteq UserPages /\ present \subseteq UserPages
  /\ at \in [Threads -> CPUs \cup {Nil}] /\ var \in [Threads -> CPUs \cup {Nil}]
  /\ at_pc \in [Threads -> PCs]
  /\ start \in [Threads -> Nat] /\ len \in [Threads -> Nat] /\ page \in [Threads -> Nat]
  /\ refs \in [Threads -> SUBSET UserPages]
  /\ slept \in BOOLEAN /\ robbed \in [Threads -> BOOLEAN] /\ quiet \in [Threads -> BOOLEAN]

(* A CPU runs one thread, and a thread that has not slept inside           *)
(* access_user_memory is on the CPU whose flag it has set.                 *)
OnePerCPU == \A t, o \in Threads : On(t) /\ at[t] = at[o] => t = o
Flagged(t) == at[t] = var[t] /\ ACCESSING_USER_MEM[var[t]]
Flags ==
  /\ OnePerCPU
  /\ \A c \in CPUs : ACCESSING_USER_MEM[c] => \E t \in Threads : var[t] = c
  /\ \A t \in Threads : var[t] # Nil => Inside(t) \/ at_pc[t] = "dead"
  /\ \A t \in Threads : Inside(t) => var[t] \in CPUs
  /\ ~slept => \A t \in Threads : Inside(t) => Flagged(t)

(* What the scan of a thread has seen: pages before the one it has come to *)
(* are present, unless one was taken away, and if the memory has not been  *)
(* touched there is no zero among the units it has read.                   *)
Cursor(t) == PageOf(start[t] + len[t])
Within(t) == PageOf(start[t]) <= Cursor(t) /\ Cursor(t) <= page[t] /\ page[t] <= MemPages
Seen(t) == ~robbed[t] => PageOf(start[t])..Cursor(t)-1 \subseteq present
Right(t) ==
  quiet[t] => /\ \A i \in 0..len[t]-1 : mem[start[t] + i] # 0
              /\ PageOf(start[t])..page[t]-1 \subseteq mapped

(* What a call goes on to use is present, unless it was taken away.        *)
Used(t) == at_pc[t] \in {"use", "use_fault"} /\ ~robbed[t] => refs[t] \subseteq present

Sound(t) == (Inside(t) => Within(t) /\ Seen(t) /\ Right(t)) /\ Used(t)
Accesses == \A t \in Threads : Sound(t)

AccessInv == Types /\ Flags /\ Accesses /\ PanicHasCause

-----------------------------------------------------------------------------
(* Pages and units *)

LEMMA Between ==
  ASSUME NEW a \in Nat, NEW m \in Nat, NEW x \in Nat, NEW b \in Nat, a <= m, m <= x, x <= b
  PROVE  x \in a..b
  OBVIOUS

LEMMA Shorter ==
  ASSUME NEW a \in Nat, NEW m \in Nat, NEW b \in Nat, m <= b
  PROVE  a..m-1 \subseteq a..b-1
  OBVIOUS

LEMMA PageType ==
  ASSUME NEW a \in Nat PROVE PageOf(a) \in Nat
  BY SizeAssumption DEF PageOf

LEMMA PageNext ==
  ASSUME NEW a \in Nat PROVE PageOf(a + 1) \in {PageOf(a), PageOf(a) + 1}
  BY SizeAssumption DEF PageOf

LEMMA PageLast ==
  ASSUME NEW u \in Units PROVE u \in Nat /\ PageOf(u) \in 0..MemPages-1
<1>1. u \in Nat /\ u < MemPages * PAGE_SIZE_4K
  BY SizeAssumption DEF Units
<1> QED  BY SizeAssumption, <1>1 DEF PageOf

LEMMA PageBegins ==
  ASSUME NEW a \in Nat, NEW p \in Nat, p <= PageOf(a) PROVE p * PAGE_SIZE_4K <= a
  BY SizeAssumption DEF PageOf

-----------------------------------------------------------------------------
(* Types *)

LEMMA InitTypes ==
  ASSUME AccessInit PROVE Types
  BY Zenon, SizeAssumption DEF AccessInit, Types, PCs

LEMMA ScanTypes ==
  ASSUME Types, NEW t \in Threads,
         (\E u \in Units : Begin(t, u)) \/ CheckPage(t) \/ ReadUnit(t)
  PROVE  Types'
<1>1. ASSUME NEW u \in Units, Begin(t, u) PROVE Types'
  <2>1. u \in Nat /\ PageOf(u) \in Nat
    BY Zenon, PageLast, PageType
  <2>2. at[t] \in CPUs
    BY Zenon, <1>1 DEF Begin, Types, On
  <2> QED  BY Zenon, <1>1, <2>1, <2>2 DEF Begin, Types, PCs, space, ghosts
<1>2. CASE CheckPage(t)
  <2>1. CASE page[t] \in mapped
    BY <1>2, <2>1 DEF CheckPage, Types, space, ghosts
  <2>2. CASE page[t] \notin mapped
    BY Zenon, <1>2, <2>2 DEF CheckPage, End, Types, PCs, space, ghosts
  <2> QED  BY Zenon, <2>1, <2>2
<1>3. CASE ReadUnit(t)
  <2> DEFINE u == start[t] + len[t]
             S == PageOf(start[t])..PageOf(u)
  <2>1. PageOf(start[t]) \in Nat /\ PageOf(u) \in Nat /\ len[t] + 1 \in Nat
    BY PageType DEF Types
  <2>2. PageOf(u) \in 0..MemPages-1
    BY Zenon, <1>3 DEF ReadUnit, Types, UserPages
  <2>3. S \in SUBSET UserPages
    BY SizeAssumption, <2>1, <2>2 DEF UserPages
  <2> HIDE DEF S
  <2> QED  BY Zenon, <1>3, <2>1, <2>3 DEF ReadUnit, End, Types, PCs, space, ghosts, S
<1> QED  BY Zenon, <1>1, <1>2, <1>3

LEMMA KernelTypes ==
  ASSUME Types, NEW t \in Threads,
         \/ \E S \in SUBSET UserPages \ {{}} : Region(t, S)
         \/ CheckRegion(t) \/ Use(t) \/ Efault(t) \/ KernelFault(t) \/ HandleFault(t)
  PROVE  Types'
<1>1. ASSUME NEW S \in SUBSET UserPages, Region(t, S) PROVE Types'
  BY Zenon, <1>1 DEF Region, Types, PCs, space, scan, ghosts
<1>2. CASE CheckRegion(t)
  BY Zenon, <1>2 DEF CheckRegion, Types, PCs, scan, ghosts
<1>3. CASE Use(t) \/ Efault(t)
  <2>1. ReturnCall(t)
    BY Zenon, <1>3 DEF Use, Efault
  <2> QED  BY Zenon, <2>1 DEF ReturnCall, Types, PCs, space
<1>4. CASE KernelFault(t)
  BY Zenon, <1>4 DEF KernelFault, Types, PCs, space, scan, ghosts
<1>5. CASE HandleFault(t)
  BY <1>5 DEF HandleFault, Resolve, Types, PCs, scan, ghosts
<1> QED  BY Zenon, <1>1, <1>2, <1>3, <1>4, <1>5

LEMMA OutsideTypes ==
  ASSUME Types, NEW t \in Threads,
         UserCode(t) \/ Leave(t) \/ \E c \in CPUs : Dispatch(t, c)
  PROVE  Types'
<1>1. CASE Hold(t)
  BY Zenon, <1>1 DEF Hold, Types, PCs, scan, ghosts
<1>2. ASSUME NEW p \in UserPages, UserFault(t, p) PROVE Types'
  BY <1>2 DEF UserFault, Resolve, Types, PCs, scan, ghosts
<1>3. ASSUME NEW p \in UserPages, MapPage(t, p) PROVE Types'
  BY Zenon, <1>3 DEF MapPage, Types, PCs, scan
<1>4. ASSUME NEW p \in UserPages, UnmapPage(t, p) PROVE Types'
  BY Zenon, <1>4 DEF UnmapPage, Types, PCs, scan
<1>5. ASSUME NEW u \in Units, NEW v \in {0, 1}, Store(t, u, v) PROVE Types'
  BY Zenon, <1>5 DEF Store, Types, PCs, scan
<1>6. CASE Leave(t)
  BY Zenon, <1>6 DEF Leave, Types, PCs, space, scan
<1>7. ASSUME NEW c \in CPUs, Dispatch(t, c) PROVE Types'
  BY Zenon, <1>7 DEF Dispatch, Types, PCs, space, scan, ghosts
<1> QED  BY Zenon, <1>1, <1>2, <1>3, <1>4, <1>5, <1>6, <1>7 DEF UserCode

-----------------------------------------------------------------------------
(* The flags *)

LEMMA InitFlags ==
  ASSUME AccessInit PROVE Flags
  BY Zenon, SizeAssumption DEF AccessInit, Flags, OnePerCPU, On, Inside

(* A step that enters or leaves neither access_user_memory nor a CPU.      *)
LEMMA FlagsRest ==
  ASSUME Flags, UNCHANGED <<ACCESSING_USER_MEM, var, at, slept>>,
         \A o \in Threads : (Inside(o)' <=> Inside(o)) /\ (at_pc[o] = "dead" => at_pc'[o] = "dead")
  PROVE  Flags'
<1>1. OnePerCPU'
  BY Zenon DEF Flags, OnePerCPU, On
<1>2. \A c \in CPUs : ACCESSING_USER_MEM'[c] => \E t \in Threads : var'[t] = c
  BY Zenon DEF Flags
<1>3. \A t \in Threads : var'[t] # Nil => Inside(t)' \/ at_pc'[t] = "dead"
  BY Zenon DEF Flags
<1>4. \A t \in Threads : Inside(t)' => var'[t] \in CPUs
  BY Zenon DEF Flags
<1>5. ~slept' => \A t \in Threads : Inside(t)' => Flagged(t)'
  BY Zenon DEF Flags, Flagged
<1> QED  BY Zenon, <1>1, <1>2, <1>3, <1>4, <1>5 DEF Flags

(* Only t changes what it is doing.                                        *)
LEMMA FlagsStay ==
  ASSUME Types, Flags, NEW t \in Threads, NEW l,
         UNCHANGED <<ACCESSING_USER_MEM, var, at, slept>>, at_pc' = [at_pc EXCEPT ![t] = l],
         at_pc[t] # "dead", (l \in {"scan", "scan_fault"}) <=> Inside(t)
  PROVE  Flags'
<1>1. at_pc'[t] = l /\ \A o \in Threads \ {t} : at_pc'[o] = at_pc[o]
  BY Zenon DEF Types
<1> QED  BY Zenon, <1>1, FlagsRest DEF Inside

LEMMA FlagsBegin ==
  ASSUME Types, Flags, NEW t \in Threads, NEW u \in Units, Begin(t, u)
  PROVE  Flags'
<1>1. at[t] \in CPUs /\ at_pc[t] = "user" /\ at' = at /\ slept' = slept
  BY Zenon DEF Begin, Types, On, ghosts
<1>2. var[t] = Nil /\ ~Inside(t)
  BY Zenon, <1>1 DEF Flags, Inside
<1>3. /\ var'[t] = at[t] /\ at_pc'[t] = "scan"
      /\ \A o \in Threads \ {t} : var'[o] = var[o] /\ at_pc'[o] = at_pc[o]
  BY Zenon DEF Begin, Types
<1>4. ACCESSING_USER_MEM' = [ACCESSING_USER_MEM EXCEPT ![at[t]] = TRUE]
  BY Zenon DEF Begin
<1>5. \A c \in CPUs : ACCESSING_USER_MEM'[c] = (ACCESSING_USER_MEM[c] \/ c = at[t])
  BY Zenon, <1>1, <1>4 DEF Types
<1>6. OnePerCPU'
  BY Zenon, <1>1 DEF Flags, OnePerCPU, On
<1>7. \A c \in CPUs : ACCESSING_USER_MEM'[c] => \E o \in Threads : var'[o] = c
  <2> SUFFICES ASSUME NEW c \in CPUs, ACCESSING_USER_MEM'[c] PROVE \E o \in Threads : var'[o] = c
    OBVIOUS
  <2>1. CASE c = at[t]
    BY Zenon, <1>3, <2>1
  <2>2. CASE c # at[t]
    <3>1. PICK o \in Threads : var[o] = c
      BY Zenon, <1>5, <2>2 DEF Flags
    <3>2. o # t
      BY Zenon, SizeAssumption, <1>2, <3>1
    <3> QED  BY Zenon, <1>3, <3>1, <3>2
  <2> QED  BY Zenon, <2>1, <2>2
<1>8. \A o \in Threads : var'[o] # Nil => Inside(o)' \/ at_pc'[o] = "dead"
  BY Zenon, <1>3 DEF Flags, Inside
<1>9. \A o \in Threads : Inside(o)' => var'[o] \in CPUs
  BY Zenon, <1>1, <1>3 DEF Flags, Inside
<1>10. ~slept' => \A o \in Threads : Inside(o)' => Flagged(o)'
  BY ZenonT(30), <1>1, <1>3, <1>5, <1>9 DEF Flags, Inside, Flagged
<1> QED  BY Zenon, <1>6, <1>7, <1>8, <1>9, <1>10 DEF Flags

(* t leaves access_user_memory and clears the flag it has set.             *)
LEMMA FlagsEnd ==
  ASSUME Types, Flags, NEW t \in Threads, Inside(t), NEW l \in {"use", "efault"}, End(t, l),
         UNCHANGED <<at, slept>>
  PROVE  Flags'
<1>1. var[t] \in CPUs
  BY Zenon DEF Flags
<1>2. /\ var'[t] = Nil /\ at_pc'[t] = l
      /\ \A o \in Threads \ {t} : var'[o] = var[o] /\ at_pc'[o] = at_pc[o]
  BY Zenon DEF End, Types
<1>3. ACCESSING_USER_MEM' = [ACCESSING_USER_MEM EXCEPT ![var[t]] = FALSE]
  BY Zenon DEF End
<1>4. \A c \in CPUs : ACCESSING_USER_MEM'[c] = (ACCESSING_USER_MEM[c] /\ c # var[t])
  BY Zenon, <1>1, <1>3 DEF Types
<1>5. OnePerCPU'
  BY Zenon DEF Flags, OnePerCPU, On
<1>6. \A c \in CPUs : ACCESSING_USER_MEM'[c] => \E o \in Threads : var'[o] = c
  <2> SUFFICES ASSUME NEW c \in CPUs, ACCESSING_USER_MEM'[c] PROVE \E o \in Threads : var'[o] = c
    OBVIOUS
  <2>1. PICK o \in Threads : var[o] = c
    BY Zenon, <1>4 DEF Flags
  <2>2. o # t
    BY Zenon, <1>4, <2>1
  <2> QED  BY Zenon, <1>2, <2>1, <2>2
<1>7. \A o \in Threads : var'[o] # Nil => Inside(o)' \/ at_pc'[o] = "dead"
  BY Zenon, <1>2 DEF Flags, Inside
<1>8. \A o \in Threads : Inside(o)' => o # t /\ Inside(o) /\ var'[o] = var[o] /\ var[o] \in CPUs
  BY Zenon, <1>2 DEF Flags, Inside
<1>9. ASSUME ~slept', NEW o \in Threads, Inside(o)' PROVE Flagged(o)'
  <2>1. Flagged(o) /\ Flagged(t) /\ o # t
    BY Zenon, <1>8, <1>9 DEF Flags
  <2>2. var[o] # var[t]
    BY SizeAssumption, <1>1, <2>1 DEF Flags, OnePerCPU, On, Flagged
  <2> QED  BY Zenon, <1>4, <1>8, <1>9, <2>1, <2>2 DEF Flagged
<1> QED  BY Zenon, <1>5, <1>6, <1>7, <1>8, <1>9 DEF Flags

(* t moves to the CPU c or, when c is None, leaves the one it is on.  It   *)
(* may die of a page fault.                                                *)
LEMMA FlagsMove ==
  ASSUME Types, Flags, NEW t \in Threads, NEW c, NEW l \in {at_pc[t], "dead"},
         UNCHANGED <<ACCESSING_USER_MEM, var>>,
         at' = [at EXCEPT ![t] = c], at_pc' = [at_pc EXCEPT ![t] = l],
         slept => slept', slept' \in BOOLEAN,
         c = Nil \/ \A o \in Threads : at[o] # c,
         ~slept' => l = "dead" \/ ~Inside(t)
  PROVE  Flags'
<1>1. /\ at'[t] = c /\ at_pc'[t] = l
      /\ \A o \in Threads \ {t} : at'[o] = at[o] /\ at_pc'[o] = at_pc[o]
  BY Zenon DEF Types
<1>2. OnePerCPU'
  BY <1>1 DEF Flags, OnePerCPU, On
<1>3. \A d \in CPUs : ACCESSING_USER_MEM'[d] => \E o \in Threads : var'[o] = d
  BY Zenon DEF Flags
<1>4. \A o \in Threads : var'[o] # Nil => Inside(o)' \/ at_pc'[o] = "dead"
  BY Zenon, <1>1 DEF Flags, Inside
<1>5. \A o \in Threads : Inside(o)' => Inside(o) /\ var'[o] \in CPUs
  BY <1>1 DEF Flags, Inside
<1>6. ASSUME ~slept', NEW o \in Threads, Inside(o)' PROVE Flagged(o)'
  <2>1. o # t
    BY Zenon, <1>1, <1>6 DEF Inside
  <2>2. Flagged(o)
    BY Zenon, <1>5, <1>6 DEF Flags
  <2> QED  BY Zenon, <1>1, <2>1, <2>2 DEF Flagged
<1> QED  BY Zenon, <1>2, <1>3, <1>4, <1>5, <1>6 DEF Flags

LEMMA FlagsKernel ==
  ASSUME Types, Flags, NEW t \in Threads, Kernel(t)
  PROVE  Flags'
<1>1. ASSUME NEW u \in Units, Begin(t, u) PROVE Flags'
  BY Zenon, <1>1, FlagsBegin
<1>2. ASSUME NEW S, Region(t, S) PROVE Flags'
  BY Zenon, <1>2, FlagsStay DEF Region, scan, ghosts, Inside
<1>3. CASE CheckPage(t)
  <2>1. CASE page[t] \in mapped
    BY Zenon, <1>3, <2>1, FlagsRest DEF CheckPage, ghosts, Inside
  <2>2. CASE page[t] \notin mapped
    BY Zenon, <1>3, <2>2, FlagsEnd DEF CheckPage, ghosts, Inside
  <2> QED  BY Zenon, <2>1, <2>2
<1>4. CASE ReadUnit(t)
  <2>1. CASE mem[start[t] + len[t]] = 0
    BY Zenon, <1>4, <2>1, FlagsEnd DEF ReadUnit, ghosts, Inside
  <2>2. CASE mem[start[t] + len[t]] # 0
    BY Zenon, <1>4, <2>2, FlagsRest DEF ReadUnit, ghosts, Inside
  <2> QED  BY Zenon, <2>1, <2>2
<1>5. CASE CheckRegion(t)
  <2> DEFINE l == IF refs[t] \subseteq mapped THEN "use" ELSE "efault"
  <2>1. at_pc' = [at_pc EXCEPT ![t] = l] /\ at_pc[t] = "check"
    BY Zenon, <1>5 DEF CheckRegion
  <2> QED  BY Zenon, <1>5, <2>1, FlagsStay DEF CheckRegion, scan, ghosts, Inside
<1>6. CASE Use(t) \/ Efault(t)
  <2>1. ReturnCall(t) /\ at_pc[t] \in {"use", "efault"}
    BY Zenon, <1>6 DEF Use, Efault
  <2> QED  BY Zenon, <2>1, FlagsStay DEF ReturnCall, Inside
<1>7. CASE KernelFault(t)
  <2> DEFINE l == IF at_pc[t] = "scan" THEN "scan_fault" ELSE "use_fault"
  <2>1. CASE ACCESSING_USER_MEM[at[t]]
    BY Zenon, <1>7, <2>1, FlagsStay DEF KernelFault, scan, ghosts, Inside
  <2>2. CASE ~ACCESSING_USER_MEM[at[t]]
    BY Zenon, <1>7, <2>2, FlagsRest DEF KernelFault, scan, ghosts, Inside
  <2> QED  BY Zenon, <2>1, <2>2
<1>8. CASE HandleFault(t)
  <2>1. CASE vaddr[t] \in mapped
    BY Zenon, <1>8, <2>1, FlagsStay DEF HandleFault, Resolve, scan, ghosts, Inside
  <2>2. CASE vaddr[t] \notin mapped
    BY Zenon, <1>8, <2>2, FlagsMove DEF HandleFault, Resolve, scan, ghosts, Types
  <2> QED  BY Zenon, <2>1, <2>2
<1> QED  BY Zenon, <1>1, <1>2, <1>3, <1>4, <1>5, <1>6, <1>7, <1>8 DEF Kernel

LEMMA FlagsOutside ==
  ASSUME Types, Flags, NEW t \in Threads,
         UserCode(t) \/ Leave(t) \/ \E c \in CPUs : Dispatch(t, c)
  PROVE  Flags'
<1>1. CASE Hold(t)
  BY Zenon, <1>1, FlagsStay DEF Hold, scan, ghosts, Inside
<1>2. ASSUME NEW p \in UserPages, UserFault(t, p) PROVE Flags'
  <2>1. CASE p \in mapped
    BY Zenon, <1>2, <2>1, FlagsStay DEF UserFault, Resolve, scan, ghosts, Inside
  <2>2. CASE p \notin mapped
    BY Zenon, <1>2, <2>2, FlagsMove DEF UserFault, Resolve, scan, ghosts, Types
  <2> QED  BY Zenon, <2>1, <2>2
<1>3. ASSUME NEW p \in UserPages, MapPage(t, p) PROVE Flags'
  BY Zenon, <1>3, FlagsStay DEF MapPage, scan, Inside
<1>4. ASSUME NEW p \in UserPages, UnmapPage(t, p) PROVE Flags'
  BY Zenon, <1>4, FlagsStay DEF UnmapPage, scan, Inside
<1>5. ASSUME NEW u \in Units, NEW v \in {0, 1}, Store(t, u, v) PROVE Flags'
  BY Zenon, <1>5, FlagsRest DEF Store, scan, Inside
<1>6. CASE Leave(t)
  <2>1. slept' = (slept \/ Inside(t)) /\ at_pc' = [at_pc EXCEPT ![t] = at_pc[t]]
    BY Zenon, <1>6 DEF Leave, Types
  <2> QED  BY Zenon, <1>6, <2>1, FlagsMove DEF Leave, scan, Types
<1>7. ASSUME NEW c \in CPUs, Dispatch(t, c) PROVE Flags'
  <2>1. at_pc' = [at_pc EXCEPT ![t] = at_pc[t]] /\ slept' = slept
    BY Zenon, <1>7 DEF Dispatch, Types, ghosts
  <2>2. ~slept => ~Inside(t)
    BY Zenon, SizeAssumption, <1>7 DEF Dispatch, Flags, Flagged
  <2> QED  BY Zenon, <1>7, <2>1, <2>2, FlagsMove DEF Dispatch, scan, Types
<1> QED  BY Zenon, <1>1, <1>2, <1>3, <1>4, <1>5, <1>6, <1>7 DEF UserCode

-----------------------------------------------------------------------------
(* The scans and what is used *)

LEMMA InitCalls ==
  ASSUME AccessInit PROVE Accesses
  BY Zenon DEF AccessInit, Accesses, Sound, Used, Inside

(* A thread that stays in the scan or in the use, or leaves it, when no    *)
(* page goes that it has checked and nothing is stored during the scan.    *)
LEMMA SoundRest ==
  ASSUME NEW o \in Threads, Sound(o), Inside(o)' => Inside(o),
         at_pc'[o] \in {"use", "use_fault"} => at_pc[o] \in {"use", "use_fault"},
         UNCHANGED <<start[o], len[o], page[o], refs[o]>>, robbed[o] => robbed'[o],
         Inside(o) /\ quiet'[o] => quiet[o] /\ UNCHANGED <<mem, mapped>>,
         Inside(o) /\ ~robbed'[o] => (PageOf(start[o])..Cursor(o)-1) \cap present \subseteq present',
         at_pc[o] \in {"use", "use_fault"} /\ ~robbed'[o] => refs[o] \cap present \subseteq present'
  PROVE  Sound(o)'
<1>1. Cursor(o)' = Cursor(o) /\ PageOf(start[o])' = PageOf(start[o])
  BY Zenon DEF Cursor, PageOf
<1>2. Within(o) => Within(o)'
  BY Zenon, <1>1 DEF Within
<1>3. Inside(o) /\ Seen(o) => Seen(o)'
  BY Zenon, <1>1 DEF Seen
<1>4. Inside(o) /\ Right(o) => Right(o)'
  BY Zenon, <1>1 DEF Right
<1>5. Used(o) => Used(o)'
  BY Zenon DEF Used
<1> QED  BY Zenon, <1>2, <1>3, <1>4, <1>5 DEF Sound

(* The threads other than the one that moves.                              *)
LEMMA OthersRest ==
  ASSUME Accesses, NEW t \in Threads, UNCHANGED <<mem, mapped>>, present \subseteq present',
         \A o \in Threads \ {t} :
            UNCHANGED <<at_pc[o], start[o], len[o], page[o], refs[o], robbed[o], quiet[o]>>
  PROVE  \A o \in Threads \ {t} : Sound(o)'
<1> TAKE o \in Threads \ {t}
<1>1. UNCHANGED <<at_pc[o], start[o], len[o], page[o], refs[o], robbed[o], quiet[o]>>
  OBVIOUS
<1> QED  BY Zenon, <1>1, SoundRest DEF Accesses, Inside

LEMMA CallsBegin ==
  ASSUME Types, Accesses, NEW t \in Threads, NEW u \in Units, Begin(t, u)
  PROVE  Accesses'
<1>1. u \in Nat /\ PageOf(u) \in 0..MemPages-1
  BY Zenon, PageLast
<1>2. \A o \in Threads \ {t} : Sound(o)'
  BY Zenon, OthersRest DEF Begin, Types, space, ghosts
<1>3. at_pc'[t] = "scan" /\ start'[t] = u /\ len'[t] = 0 /\ page'[t] = PageOf(u)
  BY Zenon DEF Begin, Types
<1>4. Cursor(t)' = PageOf(u) /\ PageOf(start[t])' = PageOf(u)
  BY <1>1, <1>3 DEF Cursor, PageOf
<1>5. Within(t)' /\ Seen(t)' /\ Right(t)'
  <2>1. PageOf(u)..PageOf(u)-1 = {} /\ 0..0-1 = {}
    BY SizeAssumption, <1>1
  <2>2. Within(t)'
    BY SizeAssumption, <1>1, <1>3, <1>4 DEF Within
  <2>3. Seen(t)'
    BY Zenon, <1>4, <2>1 DEF Seen
  <2>4. Right(t)'
    BY Zenon, <1>3, <1>4, <2>1 DEF Right
  <2> QED  BY Zenon, <2>2, <2>3, <2>4
<1>6. Sound(t)'
  BY Zenon, <1>3, <1>5 DEF Sound, Used
<1> QED  BY Zenon, <1>2, <1>6 DEF Accesses

LEMMA CallsCheckPage ==
  ASSUME Types, Accesses, NEW t \in Threads, CheckPage(t)
  PROVE  Accesses'
<1>1. \A o \in Threads \ {t} : Sound(o)'
  BY Zenon, OthersRest DEF CheckPage, End, Types, space, ghosts
<1>2. CASE page[t] \in mapped
  <2>1. /\ page[t] \in Nat /\ page'[t] = page[t] + 1 /\ page[t] <= MemPages-1 /\ at_pc'[t] = "scan"
        /\ UNCHANGED <<start, len, mem, mapped, present, robbed, quiet>>
    BY SizeAssumption, <1>2 DEF CheckPage, Types, UserPages, space, ghosts
  <2>2. Within(t) /\ Seen(t) /\ Right(t)
    BY Zenon DEF CheckPage, Accesses, Sound, Inside
  <2>3. PageOf(start[t]) \in Nat /\ Cursor(t) \in Nat
    BY PageType DEF Types, Cursor
  <2>4. Cursor(t)' = Cursor(t) /\ PageOf(start[t])' = PageOf(start[t])
    BY Zenon, <2>1 DEF Cursor, PageOf
  <2>5. Within(t)'
    BY SizeAssumption, <2>1, <2>2, <2>3, <2>4 DEF Within
  <2>6. Seen(t)'
    BY Zenon, <2>1, <2>2, <2>4 DEF Seen
  <2>7. PageOf(start[t])..(page[t]+1)-1 \subseteq (PageOf(start[t])..page[t]-1) \cup {page[t]}
    BY <2>1, <2>3
  <2>8. Right(t)'
    BY <1>2, <2>1, <2>2, <2>4, <2>7 DEF Right
  <2>9. Sound(t)'
    BY Zenon, <2>1, <2>5, <2>6, <2>8 DEF Sound, Used
  <2> QED  BY Zenon, <1>1, <2>9 DEF Accesses
<1>3. CASE page[t] \notin mapped
  <2>1. at_pc'[t] = "efault"
    BY Zenon, <1>3 DEF CheckPage, End, Types
  <2> QED  BY Zenon, <1>1, <2>1 DEF Accesses, Sound, Used, Inside
<1> QED  BY Zenon, <1>2, <1>3

LEMMA CallsReadUnit ==
  ASSUME Types, Accesses, NEW t \in Threads, ReadUnit(t)
  PROVE  Accesses'
<1> DEFINE u == start[t] + len[t]
<1>1. \A o \in Threads \ {t} : Sound(o)'
  BY Zenon, OthersRest DEF ReadUnit, End, Types, space, ghosts
<1>2. Within(t) /\ Seen(t) /\ Right(t)
  BY Zenon DEF ReadUnit, Accesses, Sound, Inside
<1>3. start[t] \in Nat /\ len[t] \in Nat /\ page[t] \in Nat /\ u \in Nat
  BY DEF Types
<1>4. PageOf(start[t]) \in Nat /\ PageOf(u) \in Nat /\ Cursor(t) = PageOf(u)
  BY Zenon, <1>3, PageType DEF Cursor
<1>5. PageOf(u) < page[t] /\ PageOf(u) \in present
  <2>1. ~(PageOf(u) >= page[t]) /\ PageOf(u) \in present
    BY Zenon DEF ReadUnit, NeedsLock
  <2> HIDE DEF u
  <2> QED  BY <1>3, <1>4, <2>1
<1>6. UNCHANGED <<start, page, mem, mapped, present, robbed, quiet>>
  BY Zenon DEF ReadUnit, space, ghosts
<1>7. ~robbed[t] => PageOf(start[t])..PageOf(u) \subseteq present
  <2>1. PageOf(start[t])..PageOf(u) \subseteq (PageOf(start[t])..PageOf(u)-1) \cup {PageOf(u)}
    BY <1>4
  <2> QED  BY Zenon, <1>2, <1>4, <1>5, <2>1 DEF Seen
<1>8. CASE mem[u] = 0
  <2>1. at_pc'[t] = "use" /\ refs'[t] = PageOf(start[t])..PageOf(u)
    BY Zenon, <1>8 DEF ReadUnit, End, Types
  <2>2. Sound(t)'
    BY Zenon, <1>6, <1>7, <2>1 DEF Sound, Used, Inside
  <2> QED  BY Zenon, <1>1, <2>2 DEF Accesses
<1>9. CASE mem[u] # 0
  <2>1. len'[t] = len[t] + 1 /\ at_pc'[t] = "scan"
    BY Zenon, <1>9 DEF ReadUnit, Types
  <2>2. start'[t] + len'[t] = u + 1
    BY <1>3, <1>6, <2>1
  <2>3. Cursor(t)' = PageOf(u + 1) /\ PageOf(start[t])' = PageOf(start[t])
    BY Zenon, <1>6, <2>2 DEF Cursor, PageOf
  <2>4. PageOf(u + 1) \in {PageOf(u), PageOf(u) + 1}
    BY Zenon, <1>3, PageNext
  <2>5. Within(t)'
    BY SMTT(30), SizeAssumption, <1>2, <1>3, <1>4, <1>5, <1>6, <2>3, <2>4 DEF Within
  <2>6. PageOf(start[t])..PageOf(u+1)-1 \subseteq PageOf(start[t])..PageOf(u)
    BY <1>4, <2>4
  <2>7. Seen(t)'
    BY Zenon, <1>6, <1>7, <2>3, <2>6 DEF Seen
  <2>8. \A i \in 0..(len[t]+1)-1 : i \in 0..len[t]-1 \/ start[t] + i = u
    BY <1>3
  <2>9. Right(t)'
    BY Zenon, <1>2, <1>6, <1>9, <2>1, <2>3, <2>8 DEF Right
  <2>10. Sound(t)'
    BY Zenon, <2>1, <2>5, <2>7, <2>9 DEF Sound, Used
  <2> QED  BY Zenon, <1>1, <2>10 DEF Accesses
<1> QED  BY Zenon, <1>8, <1>9

LEMMA CallsKernel ==
  ASSUME Types, Accesses, NEW t \in Threads, Kernel(t)
  PROVE  Accesses'
<1>1. ASSUME NEW u \in Units, Begin(t, u) PROVE Accesses'
  BY Zenon, <1>1, CallsBegin
<1>2. ASSUME NEW S, Region(t, S) PROVE Accesses'
  <2>1. \A o \in Threads \ {t} : Sound(o)'
    BY Zenon, <1>2, OthersRest DEF Region, Types, space, scan, ghosts
  <2>2. at_pc'[t] = "check"
    BY Zenon, <1>2 DEF Region, Types
  <2> QED  BY Zenon, <2>1, <2>2 DEF Accesses, Sound, Used, Inside
<1>3. CASE CheckPage(t) \/ ReadUnit(t)
  BY Zenon, <1>3, CallsCheckPage, CallsReadUnit
<1>4. CASE CheckRegion(t)
  <2>1. \A o \in Threads \ {t} : Sound(o)'
    BY Zenon, <1>4, OthersRest DEF CheckRegion, Types, scan, ghosts
  <2>2. \/ at_pc'[t] = "efault"
        \/ at_pc'[t] = "use" /\ refs'[t] = refs[t] /\ refs[t] \subseteq present'
    BY Zenon, <1>4 DEF CheckRegion, Types
  <2>3. Sound(t)'
    BY Zenon, <2>2 DEF Sound, Used, Inside
  <2> QED  BY Zenon, <2>1, <2>3 DEF Accesses
<1>5. CASE Use(t) \/ Efault(t)
  <2>1. ReturnCall(t)
    BY Zenon, <1>5 DEF Use, Efault
  <2>2. \A o \in Threads \ {t} : Sound(o)'
    BY Zenon, <2>1, OthersRest DEF ReturnCall, Types, space
  <2>3. at_pc'[t] = "user"
    BY Zenon, <2>1 DEF ReturnCall, Types
  <2> QED  BY Zenon, <2>2, <2>3 DEF Accesses, Sound, Used, Inside
<1>6. CASE KernelFault(t)
  <2>1. \A o \in Threads \ {t} : Sound(o)'
    BY Zenon, <1>6, OthersRest DEF KernelFault, Types, space, scan, ghosts
  <2>2. /\ Inside(t)' => Inside(t)
        /\ at_pc'[t] \in {"use", "use_fault"} => at_pc[t] \in {"use", "use_fault"}
    BY Zenon, <1>6 DEF KernelFault, Types, Inside
  <2>3. UNCHANGED <<start, len, page, refs, robbed, quiet, mem, mapped, present>>
    BY Zenon, <1>6 DEF KernelFault, space, scan, ghosts
  <2>4. Sound(t)'
    BY Zenon, <2>2, <2>3, SoundRest DEF Accesses
  <2> QED  BY Zenon, <2>1, <2>4 DEF Accesses
<1>7. CASE HandleFault(t)
  <2>1. UNCHANGED <<start, len, page, refs, robbed, quiet, mem, mapped>> /\ present \subseteq present'
    BY Zenon, <1>7 DEF HandleFault, Resolve, scan, ghosts
  <2>2. /\ Inside(t)' => Inside(t)
        /\ at_pc'[t] \in {"use", "use_fault"} => at_pc[t] \in {"use", "use_fault"}
    BY Zenon, <1>7 DEF HandleFault, Resolve, Types, Inside
  <2>3. \A o \in Threads \ {t} : at_pc'[o] = at_pc[o]
    BY Zenon, <1>7 DEF HandleFault, Resolve, Types
  <2>4. \A o \in Threads \ {t} : Sound(o)'
    BY Zenon, <2>1, <2>3, OthersRest
  <2>5. Sound(t)'
    BY Zenon, <2>1, <2>2, SoundRest DEF Accesses
  <2> QED  BY Zenon, <2>4, <2>5 DEF Accesses
<1> QED  BY Zenon, <1>1, <1>2, <1>3, <1>4, <1>5, <1>6, <1>7 DEF Kernel

(* A thread whose memory another thread stores to, maps or unmaps.         *)
LEMMA CallsChanged ==
  ASSUME Types, Accesses, NEW t \in Threads, ~Inside(t)',
         at_pc'[t] \notin {"use", "use_fault"}, \A o \in Threads \ {t} : at_pc'[o] = at_pc[o],
         UNCHANGED <<start, len, page, refs>>,
         quiet' = [o \in Threads |-> quiet[o] /\ ~Inside(o)],
         \A o \in Threads : robbed[o] => robbed'[o],
         \A o \in Threads \ {t} : ~robbed'[o] => Checked(o) \cap present \subseteq present'
  PROVE  Accesses'
<1>1. Sound(t)'
  BY Zenon DEF Sound, Used
<1>2. ASSUME NEW o \in Threads \ {t} PROVE Sound(o)'
  <2>1. Sound(o) /\ at_pc'[o] = at_pc[o] /\ Inside(o)' = Inside(o) /\ (Inside(o) => ~quiet'[o])
    BY Zenon DEF Accesses, Inside
  <2>2. ASSUME Inside(o), ~robbed'[o]
        PROVE  (PageOf(start[o])..Cursor(o)-1) \cap present \subseteq present'
    <3>1. Checked(o) = PageOf(start[o])..page[o]-1
      BY Zenon, <2>2 DEF Checked, Inside
    <3>2. Cursor(o) <= page[o]
      BY Zenon, <2>1, <2>2 DEF Sound, Within
    <3>3. Cursor(o) \in Nat /\ PageOf(start[o]) \in Nat /\ page[o] \in Nat
      BY SMTT(30), PageType DEF Types, Cursor
    <3>4. PageOf(start[o])..Cursor(o)-1 \subseteq Checked(o)
      BY Zenon, <3>1, <3>2, <3>3, Shorter
    <3> QED  BY Zenon, <2>2, <3>4
  <2>3. ASSUME at_pc[o] \in {"use", "use_fault"}, ~robbed'[o] PROVE refs[o] \cap present \subseteq present'
    BY Zenon, <2>3 DEF Checked, Inside
  <2> QED  BY Zenon, <2>1, <2>2, <2>3, SoundRest
<1> QED  BY Zenon, <1>1, <1>2 DEF Accesses

LEMMA CallsOutside ==
  ASSUME Types, Accesses, NEW t \in Threads,
         UserCode(t) \/ Leave(t) \/ \E c \in CPUs : Dispatch(t, c)
  PROVE  Accesses'
<1>1. CASE Hold(t)
  <2>1. \A o \in Threads \ {t} : Sound(o)'
    BY Zenon, <1>1, OthersRest DEF Hold, Types, scan, ghosts
  <2>2. at_pc'[t] = "holding"
    BY Zenon, <1>1 DEF Hold, Types
  <2> QED  BY Zenon, <2>1, <2>2 DEF Accesses, Sound, Used, Inside
<1>2. ASSUME NEW p \in UserPages, UserFault(t, p) PROVE Accesses'
  <2>1. UNCHANGED <<start, len, page, refs, robbed, quiet, mem, mapped>> /\ present \subseteq present'
    BY Zenon, <1>2 DEF UserFault, Resolve, scan, ghosts
  <2>2. at_pc'[t] \in {"user", "dead"} /\ \A o \in Threads \ {t} : at_pc'[o] = at_pc[o]
    BY Zenon, <1>2 DEF UserFault, Resolve, Types
  <2>3. \A o \in Threads \ {t} : Sound(o)'
    BY Zenon, <2>1, <2>2, OthersRest
  <2> QED  BY Zenon, <2>2, <2>3 DEF Accesses, Sound, Used, Inside
<1>3. ASSUME NEW p \in UserPages, MapPage(t, p) PROVE Accesses'
  <2>1. at_pc'[t] = "user" /\ \A o \in Threads \ {t} : at_pc'[o] = at_pc[o]
    BY Zenon, <1>3 DEF MapPage, Types
  <2> QED  BY Zenon, <1>3, <2>1, CallsChanged DEF MapPage, scan, Inside
<1>4. ASSUME NEW p \in UserPages, UnmapPage(t, p) PROVE Accesses'
  <2>1. at_pc'[t] = "user" /\ \A o \in Threads \ {t} : at_pc'[o] = at_pc[o]
    BY Zenon, <1>4 DEF UnmapPage, Types
  <2>2. \A o \in Threads : robbed'[o] = (robbed[o] \/ p \in Checked(o)) /\ present' = present \ {p}
    BY Zenon, <1>4 DEF UnmapPage
  <2> QED  BY Zenon, <1>4, <2>1, <2>2, CallsChanged DEF UnmapPage, scan, Inside
<1>5. ASSUME NEW u \in Units, NEW v \in {0, 1}, Store(t, u, v) PROVE Accesses'
  BY Zenon, <1>5, CallsChanged DEF Store, scan, Inside
<1>6. CASE Leave(t) \/ \E c \in CPUs : Dispatch(t, c)
  <2>1. UNCHANGED <<at_pc, start, len, page, refs, robbed, quiet, mem, mapped, present>>
    BY Zenon, <1>6 DEF Leave, Dispatch, space, scan, ghosts
  <2>2. \A o \in Threads : Sound(o)'
    BY Zenon, <2>1, SoundRest DEF Accesses, Inside
  <2> QED  BY Zenon, <2>2 DEF Accesses
<1> QED  BY Zenon, <1>1, <1>2, <1>3, <1>4, <1>5, <1>6 DEF UserCode

-----------------------------------------------------------------------------
(* Refused faults *)

LEMMA PanicStep ==
  ASSUME Types, Flags, Accesses, PanicHasCause, panic = Nil,
         NEW t \in Threads, Kernel(t) \/ UserCode(t) \/ Leave(t) \/ \E c \in CPUs : Dispatch(t, c)
  PROVE  PanicHasCause'
<1>1. CASE KernelFault(t) /\ ~ACCESSING_USER_MEM[at[t]]
  <2>1. /\ panic' = t /\ UNCHANGED <<at_pc, slept, robbed>> /\ Missing(t) # {}
        /\ at_pc[t] \in {"scan", "use"}
    BY Zenon, <1>1 DEF KernelFault, ghosts
  <2>2. CASE at_pc[t] = "scan"
    BY Zenon, <1>1, <2>1, <2>2 DEF Flags, Flagged, Inside, PanicHasCause
  <2>3. CASE at_pc[t] = "use"
    <3>1. robbed[t]
      BY Zenon, <2>1, <2>3 DEF Missing, Accesses, Sound, Used
    <3> QED  BY Zenon, <2>1, <2>3, <3>1 DEF PanicHasCause
  <2> QED  BY Zenon, <2>1, <2>2, <2>3
<1>2. CASE ~(KernelFault(t) /\ ~ACCESSING_USER_MEM[at[t]])
  <2>1. panic' = panic
    BY Zenon, <1>2 DEF Kernel, UserCode, Begin, Region, CheckPage, ReadUnit, CheckRegion, Use, Efault,
       ReturnCall, KernelFault, HandleFault, Hold, UserFault, MapPage, UnmapPage, Store, Leave, Dispatch
  <2> QED  BY Zenon, SizeAssumption, <2>1 DEF PanicHasCause
<1> QED  BY Zenon, <1>1, <1>2

-----------------------------------------------------------------------------
(* The answers of the scan *)

LEMMA AnswerCheckPage ==
  ASSUME Types, Accesses, NEW t \in Threads, CheckPage(t), quiet[t]
  PROVE  /\ at_pc'[t] # "use"
         /\ at_pc'[t] = "efault" =>
              \E p \in PageOf(start[t])..MemPages :
                /\ p \notin mapped
                /\ \A u \in start[t]..p*PAGE_SIZE_4K-1 : mem[u] # 0
<1>1. at_pc[t] = "scan" /\ at_pc'[t] \in {"scan", "efault"} /\ (at_pc'[t] = "efault" => page[t] \notin mapped)
  BY Zenon DEF CheckPage, End, Types
<1>2. Within(t) /\ Right(t)
  BY Zenon, <1>1 DEF Accesses, Sound, Inside
<1>3. /\ start[t] \in Nat /\ len[t] \in Nat /\ page[t] \in Nat /\ start[t] + len[t] \in Nat
      /\ PageOf(start[t]) \in Nat /\ Cursor(t) \in Nat
  BY PageType DEF Types, Cursor
<1>4. page[t] \in PageOf(start[t])..MemPages
  <2>1. PageOf(start[t]) <= Cursor(t) /\ Cursor(t) <= page[t] /\ page[t] <= MemPages
    BY Zenon, <1>2 DEF Within
  <2>2. MemPages \in Nat
    BY Zenon, SizeAssumption
  <2> QED  BY Zenon, <1>3, <2>1, <2>2, Between
<1>5. page[t] <= PageOf(start[t] + len[t])
  BY Zenon, <1>1, <1>2, <1>3 DEF CheckPage, NeedsLock, Within, Cursor
<1>6. page[t] * PAGE_SIZE_4K <= start[t] + len[t] /\ page[t] * PAGE_SIZE_4K \in Nat
  BY SizeAssumption, <1>3, <1>5, PageBegins
<1>7. ASSUME NEW u \in start[t]..page[t]*PAGE_SIZE_4K-1 PROVE mem[u] # 0
  <2> DEFINE e == page[t] * PAGE_SIZE_4K
             i == u - start[t]
  <2>1. e \in Nat /\ e <= start[t] + len[t] /\ u \in start[t]..e-1
    BY Zenon, <1>6
  <2> HIDE DEF e
  <2>2. i \in 0..len[t]-1 /\ start[t] + i = u
    BY <1>3, <2>1
  <2> QED  BY Zenon, <1>2, <2>2 DEF Right
<1> QED  BY Zenon, <1>1, <1>4, <1>7

LEMMA AnswerReadUnit ==
  ASSUME Types, Accesses, NEW t \in Threads, ReadUnit(t), quiet[t]
  PROVE  /\ at_pc'[t] # "efault"
         /\ at_pc'[t] = "use" =>
              /\ mem[start[t] + len'[t]] = 0
              /\ \A i \in 0..len'[t]-1 : mem[start[t] + i] # 0
              /\ PageOf(start[t])..PageOf(start[t] + len'[t]) \subseteq mapped
<1>1. /\ at_pc[t] = "scan" /\ at_pc'[t] \in {"scan", "use"}
      /\ at_pc'[t] = "use" => mem[start[t] + len[t]] = 0 /\ len'[t] = len[t]
  BY Zenon DEF ReadUnit, End, Types
<1>2. Within(t) /\ Right(t)
  BY Zenon, <1>1 DEF Accesses, Sound, Inside
<1>3. /\ page[t] \in Nat /\ PageOf(start[t]) \in Nat /\ PageOf(start[t] + len[t]) \in Nat
  BY PageType DEF Types
<1>4. PageOf(start[t] + len[t]) < page[t]
  <2>1. ~(PageOf(start[t] + len[t]) >= page[t])
    BY Zenon DEF ReadUnit, NeedsLock
  <2> QED  BY <1>3, <2>1
<1>5. PageOf(start[t])..PageOf(start[t] + len[t]) \subseteq PageOf(start[t])..page[t]-1
  BY <1>3, <1>4
<1> QED  BY Zenon, <1>1, <1>2, <1>5 DEF Right

LEMMA AnswerStep ==
  ASSUME Types, Accesses, NEW t \in Threads,
         Kernel(t) \/ UserCode(t) \/ Leave(t) \/ \E c \in CPUs : Dispatch(t, c)
  PROVE  ScanAnswer
<1>1. CASE CheckPage(t) \/ ReadUnit(t)
  <2>1. \A o \in Threads \ {t} : at_pc'[o] = at_pc[o]
    BY Zenon, <1>1 DEF CheckPage, ReadUnit, End, Types
  <2> QED  BY SMTT(30), <1>1, <2>1, AnswerCheckPage, AnswerReadUnit DEF ScanAnswer
<1>2. CASE ~(CheckPage(t) \/ ReadUnit(t))
  <2>1. \A o \in Threads : at_pc[o] = "scan" => at_pc'[o] \in {"scan", "scan_fault"}
    <3>1. CASE UNCHANGED at_pc
      BY Zenon, <3>1
    <3>2. CASE at_pc[t] # "scan" /\ \E l : at_pc' = [at_pc EXCEPT ![t] = l]
      BY Zenon, <3>2 DEF Types
    <3>3. CASE KernelFault(t)
      BY Zenon, <3>3 DEF KernelFault, Types
    <3>4. CASE ~KernelFault(t)
      <4>1. ASSUME Kernel(t) PROVE at_pc[t] # "scan" /\ \E l : at_pc' = [at_pc EXCEPT ![t] = l]
        BY Zenon, <1>2, <3>4, <4>1 DEF Kernel, Begin, Region, CheckRegion, Use, Efault, ReturnCall,
           HandleFault, Resolve
      <4>2. ASSUME UserCode(t) PROVE UNCHANGED at_pc \/ (at_pc[t] # "scan" /\ \E l : at_pc' = [at_pc EXCEPT ![t] = l])
        BY Zenon, <4>2 DEF UserCode, Hold, UserFault, Resolve, MapPage, UnmapPage, Store
      <4>3. ASSUME Leave(t) \/ \E c \in CPUs : Dispatch(t, c) PROVE UNCHANGED at_pc
        BY Zenon, <4>3 DEF Leave, Dispatch
      <4> QED  BY Zenon, <3>1, <3>2, <4>1, <4>2, <4>3
    <3> QED  BY Zenon, <3>3, <3>4
  <2> QED  BY Zenon, <2>1 DEF ScanAnswer
<1> QED  BY Zenon, <1>1, <1>2

-----------------------------------------------------------------------------
LEMMA AccessInitInv ==
  ASSUME AccessInit PROVE AccessInv
<1>1. PanicHasCause
  BY Zenon, SizeAssumption DEF AccessInit, PanicHasCause
<1> QED  BY Zenon, <1>1, InitTypes, InitFlags, InitCalls DEF AccessInv

LEMMA AccessNextInv ==
  ASSUME AccessInv, [AccessNext]_accessVars
  PROVE  AccessInv' /\ [ScanAnswer]_accessVars
<1>1. CASE UNCHANGED accessVars
  <2>1. /\ UNCHANGED <<ACCESSING_USER_MEM, mapped, present, mem, at, at_pc, var, start, len, page>>
        /\ UNCHANGED <<refs, panic, slept, robbed, quiet>>
    BY Zenon, <1>1 DEF accessVars, space, scan, ghosts
  <2>2. Types'
    BY Zenon, <2>1 DEF AccessInv, Types
  <2>3. Flags'
    BY Zenon, <2>1, FlagsRest DEF AccessInv, Inside
  <2>4. \A o \in Threads : Sound(o)'
    BY Zenon, <2>1, SoundRest DEF AccessInv, Accesses, Inside
  <2>5. PanicHasCause'
    BY Zenon, <2>1 DEF AccessInv, PanicHasCause
  <2> QED  BY Zenon, <1>1, <2>2, <2>3, <2>4, <2>5 DEF AccessInv, Accesses
<1>2. CASE AccessNext
  <2>1. PICK t \in Threads :
          Kernel(t) \/ UserCode(t) \/ Leave(t) \/ \E c \in CPUs : Dispatch(t, c)
    BY Zenon, <1>2 DEF AccessNext
  <2>2. Types'
    BY Zenon, <2>1, ScanTypes, KernelTypes, OutsideTypes DEF AccessInv, Kernel
  <2>3. Flags'
    BY Zenon, <2>1, FlagsKernel, FlagsOutside DEF AccessInv
  <2>4. Accesses'
    BY Zenon, <2>1, CallsKernel, CallsOutside DEF AccessInv
  <2>5. PanicHasCause'
    BY Zenon, <1>2, <2>1, PanicStep DEF AccessInv, AccessNext
  <2>6. ScanAnswer
    BY Zenon, <2>1, AnswerStep DEF AccessInv
  <2> QED  BY Zenon, <2>2, <2>3, <2>4, <2>5, <2>6 DEF AccessInv
<1> QED  BY Zenon, <1>1, <1>2

LEMMA InvFlagFollows ==
  ASSUME AccessInv PROVE FlagFollows
<1>1. ~slept => \A t \in Threads : Inside(t) => ACCESSING_USER_MEM[at[t]]
  BY Zenon DEF AccessInv, Flags, Flagged
<1> QED  BY Zenon, <1>1 DEF AccessInv, Flags, FlagFollows

(* In every state a CPU runs one thread, flags are set for threads that    *)
(* are in access_user_memory, and a scan has seen what it stands for.      *)
THEOREM AccessSpecInv == AccessSpec => []AccessInv
<1>1. AccessInit => AccessInv
  BY Zenon, AccessInitInv
<1>2. AccessInv /\ [AccessNext]_accessVars => AccessInv'
  BY Zenon, AccessNextInv
<1> QED  BY <1>1, <1>2, PTL DEF AccessSpec

(* A flag is set only for a thread that has entered access_user_memory on  *)
(* that CPU and has not left it other than by dying; while nobody has had  *)
(* to wait inside, everyone inside finds the flag of the own CPU set.      *)
THEOREM FlagIsForItsSetter == AccessSpec => []FlagFollows
<1>1. AccessInv => FlagFollows
  BY Zenon, InvFlagFollows
<1> QED  BY AccessSpecInv, <1>1, PTL

(* handle_page_fault refuses a fault of the kernel only after a thread has *)
(* waited inside access_user_memory, or when the memory in use was         *)
(* unmapped after its check.                                               *)
THEOREM RefusalHasCause == AccessSpec => []PanicHasCause
<1>1. AccessInv => PanicHasCause
  BY Zenon DEF AccessInv
<1> QED  BY AccessSpecInv, <1>1, PTL

(* check_null_terminated, undisturbed, answers with the first zero when    *)
(* all the pages up to it are mapped, and with EFAULT when there is one    *)
(* before it that is not, for every start and every page size.             *)
THEOREM ScanIsExact == AccessSpec => ScanAnswers
<1>1. AccessInv /\ [AccessNext]_accessVars => [ScanAnswer]_accessVars
  BY Zenon, AccessNextInv
<1> QED  BY AccessSpecInv, <1>1, PTL DEF AccessSpec, ScanAnswers

-----------------------------------------------------------------------------
(* A process has a space from its creation on: its own, or that of one     *)
(* that was created before.                                                *)
Owned ==
  \A p \in Procs :
    /\ pc[p] = "none" <=> aspace[p] = None
    /\ aspace[p] # None => pc[aspace[p]] # "none"

(* Processes in one space know that they share it, and only one of them    *)
(* holds its Mutex.                                                        *)
Sharing ==
  \A p, q \in Procs :
    p # q /\ aspace[p] = aspace[q] /\ aspace[p] # None =>
      aspace[p] \in mixed /\ ~(pc[p] = "load" /\ pc[q] = "load")

(* Until a program is in place the space has none, and room for one.       *)
Loading ==
  \A p \in Procs : pc[p] = "load" => image[aspace[p]] = None /\ Vacant(aspace[p])

(* The file of an execve was executable, unless it has changed since.      *)
Looked ==
  \A p \in Procs : pc[p] \in {"exec", "load"} =>
    path[p] \in Files /\ (changed[p] \/ Validate(file[path[p]]))

Inv ==
  /\ TypeOK /\ LayoutIntact /\ ProgramIsExe
  /\ Owned /\ Sharing /\ Loading /\ Looked

LEMMA FreshType == \A i \in Pages : Fresh(i) \in {"none", "rw", "rx"}
  BY Zenon DEF Fresh

LEMMA InitInv == Init => Inv
<1> SUFFICES ASSUME Init PROVE Inv
  OBVIOUS
<1> USE LayoutAssumption
<1>1. TypeOK
  BY FreshType DEF Init, TypeOK
<1>2. LayoutIntact
  BY Zenon DEF Init, LayoutIntact
<1>3. ProgramIsExe
  BY Zenon DEF Init, ProgramIsExe
<1>4. Owned /\ Sharing
  BY Zenon DEF Init, Owned, Sharing
<1>5. Loading /\ Looked
  BY Zenon DEF Init, Loading, Looked
<1> QED
  BY Zenon, <1>1, <1>2, <1>3, <1>4, <1>5 DEF Inv

LEMMA WriteFileInv ==
  ASSUME Inv, NEW f \in Files, NEW c \in Contents, WriteFile(f, c)
  PROVE  Inv'
<1> USE DEF Inv, WriteFile, procVars, execVars
<1>1. TypeOK'
  BY Zenon DEF TypeOK
<1>2. LayoutIntact' /\ ProgramIsExe' /\ Owned' /\ Sharing'
  BY Zenon DEF LayoutIntact, ProgramIsExe, Owned, Sharing
<1>3. Loading'
  BY Zenon DEF Loading, Vacant
<1>4. Looked'
  BY Zenon DEF Looked, TypeOK
<1> QED
  BY Zenon, <1>1, <1>2, <1>3, <1>4

(* What a call may do to the pages of a space while no execve holds it.    *)
LEMMA RemapInv ==
  ASSUME Inv, NEW p \in Procs, Runs(p), NEW S \in SUBSET Pages,
         NEW prot \in {"none", "rw", "rx"}, Remap(p, S, prot),
         named' \in [Procs -> SUBSET Pages],
         \A s \in Procs : named[s] \subseteq named'[s],
         \A i \in S : i \in named'[aspace[p]] \/ area[aspace[p]][i] = "none"
  PROVE  Inv'
<1> USE DEF Inv, Remap, procVars, execVars
<1>0. aspace[p] \in Procs /\ \A q \in Procs : aspace[q] = aspace[p] => pc[q] # "load"
  BY Zenon DEF TypeOK, Runs, Unlocked
<1>1. TypeOK'
  BY Zenon, <1>0 DEF TypeOK
<1>2. LayoutIntact'
  BY <1>0 DEF LayoutIntact, TypeOK
<1>3. ProgramIsExe' /\ Owned' /\ Sharing' /\ Looked'
  BY Zenon DEF ProgramIsExe, Owned, Sharing, Looked
<1>4. Loading'
  BY Zenon, <1>0 DEF Loading, Vacant, TypeOK
<1> QED
  BY Zenon, <1>1, <1>2, <1>3, <1>4

LEMMA MmapInv ==
  ASSUME Inv, NEW p \in Procs, NEW a \in Pages, NEW n \in 1..MaxLen, NEW prot \in Prots,
         Mmap(p, a, n, prot)
  PROVE  Inv'
<1>1. PICK b \in StartAddr(aspace[p], a, n) : Remap(p, Span(b, n), prot)
  BY Zenon DEF Mmap
<1>2. Span(b, n) \subseteq Pages /\ \A i \in Span(b, n) : area[aspace[p]][i] = "none"
  BY Zenon DEF StartAddr
<1>3. Runs(p) /\ named' = named /\ named \in [Procs -> SUBSET Pages]
  BY Zenon DEF Mmap, Inv, TypeOK
<1> QED
  BY Zenon, <1>1, <1>2, <1>3, RemapInv DEF Prots

LEMMA NameInv ==
  ASSUME Inv, NEW p \in Procs, NEW S, NEW prot \in {"none", "rw", "rx"}, Name(p, S, prot)
  PROVE  Inv'
<1>1. aspace[p] \in Procs /\ named \in [Procs -> SUBSET Pages]
  BY Zenon DEF Name, Runs, Inv, TypeOK
<1>2. Runs(p) /\ S \in SUBSET Pages /\ Remap(p, S, prot)
  BY Zenon DEF Name
<1>3. named' = [named EXCEPT ![aspace[p]] = @ \cup S]
  BY Zenon DEF Name
<1>4. /\ named' \in [Procs -> SUBSET Pages]
      /\ \A s \in Procs : named[s] \subseteq named'[s]
      /\ \A i \in S : i \in named'[aspace[p]]
  BY Zenon, <1>1, <1>2, <1>3
<1> QED
  BY Zenon, <1>2, <1>4, RemapInv

LEMMA BrkInv ==
  ASSUME Inv, NEW p \in Procs, NEW top, Brk(p, top)
  PROVE  Inv'
<1> USE DEF Inv, Brk, execVars
<1>1. TypeOK'
  BY Zenon DEF TypeOK
<1>2. LayoutIntact' /\ ProgramIsExe' /\ Owned' /\ Sharing' /\ Looked'
  BY Zenon DEF LayoutIntact, ProgramIsExe, Owned, Sharing, Looked
<1>3. Loading'
  BY Zenon DEF Loading, Vacant
<1> QED
  BY Zenon, <1>1, <1>2, <1>3

LEMMA CloneInv ==
  ASSUME Inv, NEW p \in Procs, NEW c \in Procs, NEW vm \in BOOLEAN, Clone(p, c, vm)
  PROVE  Inv'
<1> USE DEF Inv, Clone
<1>0. /\ p # c /\ pc[p] = "user" /\ aspace[p] \in Procs /\ aspace[c] = None
      /\ \A q \in Procs : aspace[q] # c
      /\ \A q \in Procs : aspace[q] = aspace[p] => pc[q] # "load"
  BY Zenon, LayoutAssumption DEF TypeOK, Runs, Unlocked, Owned
<1>1. TypeOK'
  <2>1. /\ file' \in [Files -> Contents]
        /\ path' \in [Procs -> Files \cup {None}] /\ load' \in [Procs -> Files \cup {None}]
        /\ changed' \in [Procs -> BOOLEAN]
    BY Zenon DEF TypeOK
  <2>2. /\ aspace' \in [Procs -> Procs \cup {None}]
        /\ pc' \in [Procs -> {"none", "user", "exec", "load", "gone"}]
        /\ heap_top' \in [Procs -> 0..HeapSize]
    BY <1>0, LayoutAssumption DEF TypeOK
  <2>3. /\ area' \in [Procs -> [Pages -> {"none", "rw", "rx"}]]
        /\ named' \in [Procs -> SUBSET Pages]
    BY Zenon, <1>0 DEF TypeOK
  <2>4. /\ exe_path' \in [Procs -> Files \cup {None}] /\ image' \in [Procs -> Files \cup {None}]
        /\ mixed' \subseteq Procs
    BY Zenon, <1>0 DEF TypeOK
  <2>5. \A q \in Procs : pc'[q] # "none" => aspace'[q] \in Procs /\ exe_path'[q] \in Files
    BY Zenon, <1>0 DEF TypeOK
  <2> QED
    BY Zenon, <2>1, <2>2, <2>3, <2>4, <2>5 DEF TypeOK
<1>2. CASE vm
  <2>1. /\ area' = area /\ image' = image /\ named' = named
        /\ aspace' = [aspace EXCEPT ![c] = aspace[p]] /\ mixed' = mixed \cup {aspace[p]}
    BY Zenon, <1>2
  <2>2. LayoutIntact'
    BY Zenon, <2>1 DEF LayoutIntact
  <2>3. ProgramIsExe'
    BY <1>0, <2>1 DEF ProgramIsExe, TypeOK
  <2>4. Owned'
    BY <1>0, <2>1, LayoutAssumption DEF Owned, TypeOK
  <2>5. Sharing'
    BY <1>0, <2>1 DEF Sharing, TypeOK
  <2>6. Loading' /\ Looked'
    BY <1>0, <2>1 DEF Loading, Vacant, Looked, TypeOK
  <2> QED
    BY Zenon, <1>1, <2>2, <2>3, <2>4, <2>5, <2>6
<1>3. CASE ~vm
  <2>1. /\ area' = [area EXCEPT ![c] = area[aspace[p]]]
        /\ image' = [image EXCEPT ![c] = image[aspace[p]]]
        /\ named' = [named EXCEPT ![c] = named[aspace[p]]]
        /\ aspace' = [aspace EXCEPT ![c] = c]
        /\ mixed' = IF aspace[p] \in mixed THEN mixed \cup {c} ELSE mixed
    BY Zenon, <1>3
  <2>2. LayoutIntact'
    BY <1>0, <2>1 DEF LayoutIntact, TypeOK
  <2>3. ProgramIsExe'
    BY <1>0, <2>1 DEF ProgramIsExe, TypeOK
  <2>4. Owned'
    BY <1>0, <2>1, LayoutAssumption DEF Owned, TypeOK
  <2>5. Sharing'
    BY <1>0, <2>1 DEF Sharing, TypeOK
  <2>6. Loading' /\ Looked'
    BY <1>0, <2>1 DEF Loading, Vacant, Looked, TypeOK
  <2> QED
    BY Zenon, <1>1, <2>2, <2>3, <2>4, <2>5, <2>6
<1> QED
  BY Zenon, <1>2, <1>3

LEMMA GoneInv ==
  ASSUME Inv, NEW p \in Procs, pc[p] = "user", Gone(p)
  PROVE  Inv'
<1> DEFINE s == aspace[p]
           last == \A q \in Procs \ {p} : aspace[q] = s => pc[q] = "gone"
<1> USE DEF Inv
<1>0. /\ pc' = [pc EXCEPT ![p] = "gone"] /\ heap_top' = [heap_top EXCEPT ![p] = 0]
      /\ area' = IF last THEN [area EXCEPT ![s] = [i \in Pages |-> "none"]] ELSE area
      /\ image' = IF last THEN [image EXCEPT ![s] = None] ELSE image
      /\ named' = IF last THEN [named EXCEPT ![s] = {}] ELSE named
      /\ UNCHANGED <<file, aspace, exe_path, path, load, changed, mixed>>
      /\ s \in Procs /\ last \in BOOLEAN
  BY Zenon DEF Gone, TypeOK
<1>1. \A q \in Procs : pc[q] = "load" /\ last => aspace[q] # s
  BY Zenon DEF TypeOK
<1> HIDE DEF s, last
<1>2. TypeOK'
  BY <1>0, LayoutAssumption DEF TypeOK
<1>3. LayoutIntact'
  BY Zenon, <1>0 DEF LayoutIntact, TypeOK
<1>4. ProgramIsExe'
  BY Zenon, <1>0 DEF ProgramIsExe, TypeOK
<1>5. Owned' /\ Sharing' /\ Looked'
  BY Zenon, <1>0 DEF Owned, Sharing, Looked, TypeOK
<1>6. Loading'
  BY <1>0, <1>1 DEF Loading, Vacant, TypeOK
<1> QED
  BY Zenon, <1>2, <1>3, <1>4, <1>5, <1>6

LEMMA ExecveInv ==
  ASSUME Inv, NEW p \in Procs, NEW f \in Files, Execve(p, f)
  PROVE  Inv'
<1> USE DEF Inv, Execve, procVars, Runs
<1>1. TypeOK'
  BY Zenon DEF TypeOK
<1>2. LayoutIntact' /\ ProgramIsExe' /\ Owned' /\ Sharing'
  BY DEF LayoutIntact, ProgramIsExe, Owned, Sharing, TypeOK
<1>3. Loading'
  BY Zenon DEF Loading, Vacant, TypeOK
<1>4. Looked'
  BY Zenon DEF Looked, TypeOK
<1> QED
  BY Zenon, <1>1, <1>2, <1>3, <1>4

LEMMA UnmapInv ==
  ASSUME Inv, NEW p \in Procs, UnmapUserAreas(p)
  PROVE  Inv'
<1> USE DEF Inv, UnmapUserAreas, procVars
<1>0. aspace[p] \in Procs /\ \A q \in Procs : aspace[q] = aspace[p] => pc[q] # "load"
  BY Zenon DEF TypeOK, Unlocked
<1>1. TypeOK'
  BY <1>0 DEF TypeOK
<1>2. LayoutIntact' /\ ProgramIsExe'
  BY Zenon, <1>0 DEF LayoutIntact, ProgramIsExe, TypeOK
<1>3. Owned' /\ Sharing' /\ Looked'
  BY <1>0 DEF Owned, Sharing, Looked, TypeOK
<1>4. Loading'
  BY <1>0 DEF Loading, Vacant, TypeOK
<1> QED
  BY Zenon, <1>1, <1>2, <1>3, <1>4

LEMMA InterpreterInv ==
  ASSUME Inv, NEW p \in Procs, LoadInterpreter(p)
  PROVE  Inv'
<1> USE DEF Inv, LoadInterpreter, procVars
<1>1. TypeOK'
  BY Zenon DEF TypeOK
<1>2. LayoutIntact' /\ ProgramIsExe' /\ Owned' /\ Sharing' /\ Looked'
  BY Zenon DEF LayoutIntact, ProgramIsExe, Owned, Sharing, Looked
<1>3. Loading'
  BY Zenon DEF Loading, Vacant
<1> QED
  BY Zenon, <1>1, <1>2, <1>3

(* The end of an execve that has changed the space in one way or another.  *)
LEMMA ReturnInv ==
  ASSUME Inv, NEW p \in Procs, pc[p] = "load", Return(p),
         area' \in [Procs -> [Pages -> {"none", "rw", "rx"}]],
         image' \in [Procs -> Files \cup {None}],
         exe_path' \in [Procs -> Files \cup {None}], exe_path'[p] \in Files,
         \A s \in Procs : s # aspace[p] => area'[s] = area[s] /\ image'[s] = image[s],
         \A q \in Procs : q # p => exe_path'[q] = exe_path[q],
         \/ image'[aspace[p]] = None
         \/ /\ image'[aspace[p]] = exe_path'[p]
            /\ \A i \in Pages : Fresh(i) # "none" => area'[aspace[p]][i] = Fresh(i)
  PROVE  Inv'
<1> USE DEF Inv, Return
<1>0. /\ aspace[p] \in Procs /\ aspace[p] # None
      /\ \A q \in Procs : q # p /\ aspace[q] = aspace[p] => aspace[p] \in mixed /\ pc[q] # "load"
  BY Zenon, LayoutAssumption DEF TypeOK, Sharing
<1>1. TypeOK'
  <2>1. /\ file' \in [Files -> Contents] /\ aspace' \in [Procs -> Procs \cup {None}]
        /\ heap_top' \in [Procs -> 0..HeapSize]
        /\ named' \in [Procs -> SUBSET Pages] /\ mixed' \subseteq Procs
    BY Zenon DEF TypeOK
  <2>2. /\ pc' \in [Procs -> {"none", "user", "exec", "load", "gone"}]
        /\ path' \in [Procs -> Files \cup {None}] /\ load' \in [Procs -> Files \cup {None}]
    BY Zenon DEF TypeOK
  <2>3. changed' \in [Procs -> BOOLEAN]
    BY Zenon DEF TypeOK
  <2>4. \A q \in Procs : pc'[q] # "none" => aspace'[q] \in Procs /\ exe_path'[q] \in Files
    BY Zenon, <1>0 DEF TypeOK
  <2> QED
    BY Zenon, <2>1, <2>2, <2>3, <2>4 DEF TypeOK
<1>2. LayoutIntact'
  <2> SUFFICES ASSUME NEW s \in Procs, image'[s] # None,
                      NEW i \in Pages \ named[s], Fresh(i) # "none"
               PROVE  area'[s][i] = Fresh(i)
    BY Zenon DEF LayoutIntact
  <2>1. CASE s = aspace[p]
    BY Zenon, <2>1
  <2>2. CASE s # aspace[p]
    BY Zenon, <2>2 DEF LayoutIntact
  <2> QED
    BY Zenon, <2>1, <2>2
<1>3. ProgramIsExe'
  BY Zenon, <1>0 DEF ProgramIsExe, TypeOK
<1>4. Owned' /\ Sharing' /\ Looked'
  BY <1>0 DEF Owned, Sharing, Looked, TypeOK
<1>5. Loading'
  BY <1>0 DEF Loading, Vacant, TypeOK
<1> QED
  BY Zenon, <1>1, <1>2, <1>3, <1>4, <1>5

LEMMA LoadInv ==
  ASSUME Inv, NEW p \in Procs, Load(p)
  PROVE  Inv'
<1> USE DEF Inv, Load
<1>0. aspace[p] \in Procs /\ path[p] \in Files /\ Return(p) /\ pc[p] = "load"
  BY Zenon DEF TypeOK, Looked
<1>1. area' \in [Procs -> [Pages -> {"none", "rw", "rx"}]]
  BY <1>0, FreshType DEF TypeOK
<1>2. image' \in [Procs -> Files \cup {None}] /\ exe_path' \in [Procs -> Files \cup {None}]
  BY Zenon, <1>0 DEF TypeOK
<1>3. image'[aspace[p]] = path[p] /\ exe_path'[p] = path[p]
  BY Zenon, <1>0 DEF TypeOK
<1>4. \A i \in Pages : Fresh(i) # "none" => area'[aspace[p]][i] = Fresh(i)
  BY Zenon, <1>0 DEF TypeOK
<1>5. /\ \A s \in Procs : s # aspace[p] => area'[s] = area[s] /\ image'[s] = image[s]
      /\ \A q \in Procs : q # p => exe_path'[q] = exe_path[q]
  BY Zenon DEF TypeOK
<1> QED
  BY Zenon, <1>0, <1>1, <1>2, <1>3, <1>4, <1>5, ReturnInv

LEMMA LoadErrorInv ==
  ASSUME Inv, NEW p \in Procs, LoadError(p)
  PROVE  Inv'
<1>1. /\ pc[p] = "load" /\ Return(p) /\ image[aspace[p]] = None
      /\ area' = area /\ image' = image /\ exe_path' = exe_path
  BY Zenon DEF LoadError, Inv, Loading
<1>2. /\ area \in [Procs -> [Pages -> {"none", "rw", "rx"}]]
      /\ image \in [Procs -> Files \cup {None}]
      /\ exe_path \in [Procs -> Files \cup {None}] /\ exe_path[p] \in Files
  BY Zenon, <1>1 DEF Inv, TypeOK
<1> QED
  BY Zenon, <1>1, <1>2, ReturnInv

LEMMA NoMemoryInv ==
  ASSUME Inv, NEW p \in Procs, LoadNoMemory(p)
  PROVE  Inv'
<1>1. /\ pc[p] = "load" /\ Return(p) /\ image[aspace[p]] = None
      /\ image' = image /\ exe_path' = exe_path
  BY Zenon DEF LoadNoMemory, Inv, Loading
<1>2. /\ image \in [Procs -> Files \cup {None}] /\ aspace[p] \in Procs
      /\ exe_path \in [Procs -> Files \cup {None}] /\ exe_path[p] \in Files
      /\ area \in [Procs -> [Pages -> {"none", "rw", "rx"}]]
  BY Zenon, <1>1 DEF Inv, TypeOK
<1>3. PICK S : area' = [area EXCEPT ![aspace[p]] =
                          [i \in Pages |-> IF i \in S THEN Fresh(i) ELSE @[i]]]
  BY Zenon DEF LoadNoMemory
<1>4. /\ area' \in [Procs -> [Pages -> {"none", "rw", "rx"}]]
      /\ \A s \in Procs : s # aspace[p] => area'[s] = area[s]
  BY Zenon, <1>2, <1>3, FreshType
<1> QED
  BY Zenon, <1>1, <1>2, <1>4, ReturnInv

LEMMA NextInv == Inv /\ [Next]_vars => Inv'
<1> SUFFICES ASSUME Inv, [Next]_vars PROVE Inv'
  OBVIOUS
<1>1. CASE UNCHANGED vars
  <2>1. TypeOK' /\ LayoutIntact' /\ ProgramIsExe'
    BY Zenon, <1>1, Zenon DEF Inv, TypeOK, LayoutIntact, ProgramIsExe, vars, procVars, execVars
  <2>2. Owned' /\ Sharing' /\ Loading' /\ Looked'
    BY Zenon, <1>1, Zenon DEF Inv, Owned, Sharing, Loading, Vacant, Looked, vars, procVars, execVars
  <2> QED
    BY Zenon, <2>1, <2>2 DEF Inv
<1>2. CASE \E f \in Files, c \in Contents : WriteFile(f, c)
  BY Zenon, <1>2, WriteFileInv
<1>3. ASSUME NEW p \in Procs, Calls(p) PROVE Inv'
  <2>1. CASE \E a \in Pages, n \in 1..MaxLen, prot \in Prots : Mmap(p, a, n, prot)
    BY Zenon, <2>1, MmapInv
  <2>2. CASE \E a \in Pages, n \in 1..MaxLen, prot \in Prots : MmapFixed(p, a, n, prot)
    BY Zenon, <2>2, NameInv DEF MmapFixed, Prots
  <2>3. CASE \E a \in Pages, n \in 1..MaxLen, prot \in Prots : Mprotect(p, a, n, prot)
    BY Zenon, <2>3, NameInv DEF Mprotect, Prots
  <2>4. CASE \E a \in Pages, n \in 1..MaxLen : Munmap(p, a, n)
    BY Zenon, <2>4, NameInv DEF Munmap
  <2>5. CASE \E top \in 0..HeapSize+1 : Brk(p, top)
    BY Zenon, <2>5, BrkInv
  <2>6. CASE \E c \in Procs, vm \in BOOLEAN : Clone(p, c, vm)
    BY Zenon, <2>6, CloneInv
  <2>7. CASE \E f \in Files : Execve(p, f)
    BY Zenon, <2>7, ExecveInv
  <2>8. CASE Exit(p)
    BY Zenon, <2>8, GoneInv DEF Exit, Runs
  <2> QED
    BY Zenon, <1>3, <2>1, <2>2, <2>3, <2>4, <2>5, <2>6, <2>7, <2>8 DEF Calls
<1>4. ASSUME NEW p \in Procs, Steps(p) PROVE Inv'
  BY Zenon, <1>4, UnmapInv, InterpreterInv, LoadInv, LoadErrorInv, NoMemoryInv, GoneInv DEF Steps, Segv
<1> QED
  BY Zenon, <1>1, <1>2, <1>3, <1>4 DEF Next

(* What owning, sharing, loading and looking up assert of each process     *)
(* survives every mapping call, clone, exit and step of execve.            *)
THEOREM SpecInv == Spec => []Inv
  BY InitInv, NextInv, PTL DEF Spec

(* The mapping calls of a program, and those of the programs that share or *)
(* copy its space, leave the image, the stack, the trampoline and the heap *)
(* alone unless they name their pages.                                     *)
THEOREM LayoutKept == Spec => []LayoutIntact
  BY SpecInv, PTL DEF Inv

(* exe_path and the program in memory differ only where spaces were shared.*)
THEOREM ExeKept == Spec => []ProgramIsExe
  BY SpecInv, PTL DEF Inv

LEMMA LossStep ==
  ASSUME Inv, [Next]_vars, NEW p \in Procs,
         pc[p] = "load", pc'[p] = "user", image'[aspace[p]] = None
  PROVE  \/ load[p] = None \/ LoadNoMemory(p) \/ file[path[p]] = "empty"
         \/ load[p] # path[p] \/ changed[p]
<1>0. pc \in [Procs -> {"none", "user", "exec", "load", "gone"}]
  BY Zenon DEF Inv, TypeOK
<1>1. ASSUME NEW q \in Procs, Calls(q) PROVE FALSE
  <2>1. Runs(q) /\ (pc' = pc \/ (\E x \in Procs : pc[x] # "load" /\ \E v : pc' = [pc EXCEPT ![x] = v]))
    <3>1. CASE \E S, prot : Runs(q) /\ Remap(q, S, prot)
      BY Zenon, <3>1, Zenon DEF Remap, execVars
    <3>2. CASE \E top : Brk(q, top)
      BY Zenon, <3>2, Zenon DEF Brk, execVars
    <3>3. CASE \E c \in Procs, vm \in BOOLEAN : Clone(q, c, vm)
      <4>1. PICK c \in Procs : Runs(q) /\ pc[c] = "none" /\ pc' = [pc EXCEPT ![c] = "user"]
        BY Zenon, <3>3, Zenon DEF Clone
      <4> QED
        BY Zenon, <4>1
    <3>4. CASE (\E f \in Files : Execve(q, f)) \/ Exit(q)
      BY Zenon, <1>0, <3>4 DEF Execve, Exit, Gone, Runs
    <3> QED
      BY Zenon, <1>1, <3>1, <3>2, <3>3, <3>4, Zenon DEF Calls, Mmap, MmapFixed, Munmap, Mprotect, Name
  <2> QED
    BY Zenon, <1>0, <2>1, Zenon
<1>2. ASSUME NEW q \in Procs, Steps(q) PROVE Load(p) \/ LoadError(p) \/ LoadNoMemory(p)
  <2>1. CASE UnmapUserAreas(q) \/ Segv(q)
    BY Zenon, <1>0, <2>1 DEF UnmapUserAreas, Segv, Gone
  <2>2. CASE LoadInterpreter(q)
    BY Zenon, <2>2 DEF LoadInterpreter
  <2>3. CASE Load(q) \/ LoadError(q) \/ LoadNoMemory(q)
    <3>1. pc' = [pc EXCEPT ![q] = "user"]
      BY Zenon, <2>3 DEF Load, LoadError, LoadNoMemory, Return
    <3>2. q = p
      BY Zenon, <1>0, <3>1
    <3> QED
      BY Zenon, <2>3, <3>2
  <2> QED
    BY Zenon, <1>2, <2>1, <2>2, <2>3, Zenon DEF Steps
<1>3. Load(p) \/ LoadError(p) \/ LoadNoMemory(p)
  <2>1. ~UNCHANGED vars
    BY Zenon DEF vars, execVars
  <2>2. \A f \in Files, c \in Contents : ~WriteFile(f, c)
    BY Zenon DEF WriteFile, execVars
  <2> QED
    BY Zenon, <1>1, <1>2, <2>1, <2>2 DEF Next
<1>4. ~Load(p)
  BY Zenon, LayoutAssumption DEF Inv, TypeOK, Load, Looked
<1>5. CASE LoadError(p)
  <2>1. Vacant(aspace[p]) /\ (changed[p] \/ Validate(file[path[p]]))
    BY Zenon, <1>5, Zenon DEF Inv, Loading, Looked, LoadError
  <2> QED
    BY Zenon, <1>5, <2>1, Zenon DEF LoadError, Validate
<1> QED
  BY Zenon, <1>3, <1>4, <1>5

(* A program that calls execve with a good file, arguments and memory is   *)
(* not lost.                                                               *)
THEOREM LossExplained == Spec => LostWithCause
<1>1. Inv /\ [Next]_vars => [\A p \in Procs :
       pc[p] = "load" /\ pc'[p] = "user" /\ image'[aspace[p]] = None =>
         \/ load[p] = None \/ LoadNoMemory(p) \/ file[path[p]] = "empty"
         \/ load[p] # path[p] \/ changed[p]]_vars
  BY Zenon, LossStep, Zenon
<1> QED
  BY <1>1, SpecInv, PTL DEF Spec, LostWithCause
=============================================================================
