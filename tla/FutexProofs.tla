---------------------------- MODULE FutexProofs ----------------------------
(***************************************************************************)
(* Waiting threads can be reached through the futex table, for any numbers *)
(* of threads and addresses: an entry of the table, once made, stays,      *)
(* because WaitQueueGuard::drop counts the guard that is being dropped.    *)
(* A blocked thread has one entry in all the queues, and a wake that asks  *)
(* for enough leaves none of those behind that it found waiting.           *)
(***************************************************************************)
EXTENDS Futex, FiniteSetTheorems, TLAPS

Types ==
  /\ table \in [Addrs -> Queues \cup {0}]
  /\ queues = [q \in Queues |-> queues[q]]
  /\ made \in 0..MaxQueues
  /\ call \in [Threads -> Calls]

(* A guard is for the queue that the table has for its address, and the    *)
(* calls that work on a queue have a guard for it.                         *)
Guarded(c) ==
  /\ c.wq # 0 => c.addr \in Addrs /\ table[c.addr] = c.wq
  /\ c.wq2 # 0 => c.addr2 \in Addrs /\ table[c.addr2] = c.wq2
  /\ c.pc \in {"wait_insert", "exit_get"} => c.addr \in Addrs
  /\ c.pc = "requeue_insert" => c.addr2 \in Addrs
  /\ c.pc \in {"wait_block", "notify"} => c.wq # 0
Guards == \A t \in Threads : Guarded(call[t])

InTable(q) == \E a \in Addrs : table[a] = q
Filled == \A q \in Queues : queues[q] # <<>> => InTable(q)

Inv == Types /\ Guards /\ Filled

(* No entry of the table changes or goes.                                  *)
EntriesStay == \A a \in Addrs : table[a] # 0 => table'[a] = table[a]

-----------------------------------------------------------------------------
LEMMA IdleType == Idle \in Calls
<1>1. 0 \in 0..MaxWake
  BY FutexAssumption
<1> QED  BY Zenon, <1>1 DEF Idle, Calls, PCs

LEMMA InitInv == Init => Inv
<1> SUFFICES ASSUME Init PROVE Inv
  OBVIOUS
<1>1. Types
  BY IdleType, FutexAssumption DEF Init, Types
<1>2. Guards
  BY Zenon DEF Init, Guards, Guarded, Idle
<1> QED  BY Zenon, <1>1, <1>2 DEF Inv, Filled, Init

(* The call goes on with the guards it has, or is about to drop them.      *)
Keeps(c, d) ==
  /\ d.wq = c.wq /\ d.addr = c.addr /\ d.wq2 = c.wq2 /\ d.addr2 = c.addr2
  /\ d.pc \in {c.pc, "drop"}

(* A step that keeps the entries and the guards, except those it has made, *)
(* and fills no queue that is not in the table.                            *)
LEMMA StepInv ==
  ASSUME Inv, Types', EntriesStay,
         \A u \in Threads : Keeps(call[u], call'[u]) \/ Guarded(call[u])',
         \A q \in Queues : queues'[q] # <<>> => queues[q] # <<>> \/ InTable(q)
  PROVE  Inv'
<1>1. \A q \in Queues : InTable(q) => InTable(q)'
  BY DEF InTable, EntriesStay, Queues
<1>2. Filled'
  BY Zenon, <1>1 DEF Inv, Filled
<1>3. ASSUME NEW u \in Threads PROVE Guarded(call[u])'
  BY DEF Inv, Guards, Guarded, EntriesStay, Keeps
<1> QED  BY Zenon, <1>2, <1>3 DEF Inv, Guards

(* A step of t that only changes what t is doing.                          *)
LEMMA CallInv ==
  ASSUME Inv, NEW t \in Threads, NEW c \in Calls, Guarded(c), call' = [call EXCEPT ![t] = c],
         table' = table, queues' = queues, made' = made
  PROVE  Inv' /\ EntriesStay
<1>1. EntriesStay
  BY Zenon DEF EntriesStay
<1>2. Types'
  BY Zenon DEF Inv, Types
<1>3. call'[t] = c /\ \A u \in Threads \ {t} : call'[u] = call[u]
  BY Zenon DEF Inv, Types
<1>4. Guarded(call[t])'
  BY Zenon, <1>3 DEF Guarded
<1>5. \A u \in Threads \ {t} : Keeps(call[u], call'[u])
  BY Zenon, <1>3 DEF Keeps
<1> QED  BY Zenon, <1>1, <1>2, <1>4, <1>5, StepInv

LEMMA TableQueue ==
  ASSUME Inv, NEW a \in Addrs
  PROVE  table[a] \in Queues \cup {0}
  BY Zenon DEF Inv, Types

LEMMA BeginInv ==
  ASSUME Inv, NEW t \in Threads, Begin(t)
  PROVE  Inv' /\ EntriesStay
<1>1. ASSUME NEW a \in Addrs, NEW v \in Vals, Store(t, a, v) PROVE Inv' /\ EntriesStay
  BY SMTT(30), <1>1 DEF Store, Inv, Types, Guards, Guarded, Filled, InTable, EntriesStay
<1>2. ASSUME NEW a \in Addrs, NEW v \in Vals, NEW timed \in BOOLEAN, WaitCheck(t, a, v, timed)
      PROVE  Inv' /\ EntriesStay
  <2> DEFINE c == [Idle EXCEPT !.pc = "wait_insert", !.addr = a, !.timed = timed]
  <2>1. c \in Calls
    BY Zenon, IdleType DEF Calls, PCs
  <2>2. Guarded(c)
    BY Zenon DEF Guarded, Idle
  <2> QED  BY Zenon, <1>2, <2>1, <2>2, CallInv DEF WaitCheck
<1>3. ASSUME NEW a \in Addrs, NEW n \in 0..MaxWake, WakeGet(t, a, n)
      PROVE  Inv' /\ EntriesStay
  <2> DEFINE c == [Idle EXCEPT !.pc = "notify", !.addr = a, !.wq = table[a], !.left = n]
  <2>1. c \in Calls
    BY Zenon, IdleType, TableQueue DEF Calls, PCs
  <2>2. Guarded(c)
    BY Zenon, <1>3 DEF Guarded, Idle, WakeGet
  <2> QED  BY Zenon, <1>3, <2>1, <2>2, CallInv DEF WakeGet
<1>4. ASSUME NEW a \in Addrs, NEW b \in Addrs, NEW n \in 0..MaxWake, NEW m \in 0..MaxWake,
             RequeueGet(t, a, b, n, m)
      PROVE  Inv' /\ EntriesStay
  <2> DEFINE c == [Idle EXCEPT !.pc = "requeue_insert", !.addr = a,
                     !.wq = table[a], !.addr2 = b, !.left = n, !.move = m]
  <2>1. c \in Calls
    BY Zenon, IdleType, TableQueue DEF Calls, PCs
  <2>2. Guarded(c)
    BY Zenon DEF Guarded, Idle
  <2> QED  BY Zenon, <1>4, <2>1, <2>2, CallInv DEF RequeueGet
<1>5. ASSUME ExitClear(t) PROVE Inv' /\ EntriesStay
  <2> DEFINE c == [Idle EXCEPT !.pc = IF TidAddr[t] = 0 THEN "gone" ELSE "exit_get",
                               !.addr = TidAddr[t], !.exits = TRUE]
  <2>1. c \in Calls
    BY Zenon, IdleType, FutexAssumption DEF Calls, PCs
  <2>2. Guarded(c)
    BY Zenon, FutexAssumption DEF Guarded, Idle
  <2> QED  BY Zenon, <1>5, <2>1, <2>2, CallInv DEF ExitClear
<1> QED  BY Zenon, <1>1, <1>2, <1>3, <1>4, <1>5 DEF Begin

-----------------------------------------------------------------------------
LEMMA InsertedStays ==
  ASSUME Inv, NEW a \in Addrs, Inserted(a)
  PROVE  /\ EntriesStay /\ table' \in [Addrs -> Queues \cup {0}] /\ made' \in 0..MaxQueues
         /\ get_or_insert(a) \in Queues /\ table'[a] = get_or_insert(a) /\ get_or_insert(a) # 0
<1>1. get_or_insert(a) \in Queues /\ get_or_insert(a) # 0 /\ made' \in 0..MaxQueues
  BY SMTT(30), FutexAssumption DEF Inv, Types, Inserted, get_or_insert, Queues
<1>2. table' = [table EXCEPT ![a] = get_or_insert(a)] /\ table \in [Addrs -> Queues \cup {0}]
  BY Zenon DEF Inv, Types, Inserted
<1>3. table[a] # 0 => get_or_insert(a) = table[a]
  BY Zenon DEF get_or_insert
<1> HIDE DEF get_or_insert
<1>4. EntriesStay
  BY Zenon, <1>2, <1>3 DEF EntriesStay
<1> QED  BY Zenon, <1>1, <1>2, <1>4

LEMMA WaitInsertInv ==
  ASSUME Inv, NEW t \in Threads, WaitInsert(t)
  PROVE  Inv' /\ EntriesStay
<1> DEFINE a == call[t].addr
           q == get_or_insert(a)
           c == [call[t] EXCEPT !.pc = "wait_block", !.wq = q]
<1>1. call[t] \in Calls /\ a \in Addrs /\ Guarded(call[t]) /\ Inserted(a)
  BY Zenon DEF Inv, Types, Guards, Guarded, WaitInsert
<1>2. /\ EntriesStay /\ table' \in [Addrs -> Queues \cup {0}] /\ made' \in 0..MaxQueues
      /\ q \in Queues /\ table'[a] = q /\ q # 0
  BY Zenon, <1>1, InsertedStays
<1> HIDE DEF q
<1>3. c \in Calls
  BY Zenon, <1>1, <1>2 DEF Calls, PCs
<1>4. /\ c.pc = "wait_block" /\ c.wq = q /\ c.addr = a
      /\ c.wq2 = call[t].wq2 /\ c.addr2 = call[t].addr2
  BY Zenon, <1>1 DEF Calls
<1>5. call' = [call EXCEPT ![t] = c] /\ queues' = queues
  BY Zenon DEF WaitInsert, q
<1> HIDE DEF c
<1>6. Types'
  BY Zenon, <1>2, <1>3, <1>5 DEF Inv, Types
<1>7. call'[t] = c /\ \A u \in Threads \ {t} : call'[u] = call[u]
  BY Zenon, <1>5 DEF Inv, Types
<1>8. Guarded(call[t])'
  BY Zenon, <1>1, <1>2, <1>4, <1>7 DEF Guarded, EntriesStay
<1>9. \A u \in Threads \ {t} : Keeps(call[u], call'[u])
  BY Zenon, <1>7 DEF Keeps
<1> QED  BY Zenon, <1>2, <1>5, <1>6, <1>8, <1>9, StepInv

LEMMA RequeueInsertInv ==
  ASSUME Inv, NEW t \in Threads, RequeueInsert(t)
  PROVE  Inv' /\ EntriesStay
<1> DEFINE b == call[t].addr2
           q == get_or_insert(b)
           l == IF call[t].wq = 0 THEN "drop" ELSE "notify"
           c == [call[t] EXCEPT !.pc = l, !.wq2 = q]
<1>1. call[t] \in Calls /\ b \in Addrs /\ Guarded(call[t]) /\ Inserted(b)
  BY Zenon DEF Inv, Types, Guards, Guarded, RequeueInsert
<1>2. /\ EntriesStay /\ table' \in [Addrs -> Queues \cup {0}] /\ made' \in 0..MaxQueues
      /\ q \in Queues /\ table'[b] = q /\ q # 0
  BY Zenon, <1>1, InsertedStays
<1>3. l \in PCs /\ l \in {"drop", "notify"} /\ (l = "notify" => call[t].wq # 0)
  BY Zenon DEF PCs
<1>4. call' = [call EXCEPT ![t] = c] /\ queues' = queues
  BY Zenon DEF RequeueInsert
<1> HIDE DEF q, l
<1>5. c \in Calls
  BY Zenon, <1>1, <1>2, <1>3 DEF Calls
<1>6. /\ c.pc = l /\ c.wq = call[t].wq /\ c.addr = call[t].addr
      /\ c.wq2 = q /\ c.addr2 = b
  BY Zenon, <1>1 DEF Calls
<1> HIDE DEF c
<1>7. Types'
  BY Zenon, <1>2, <1>4, <1>5 DEF Inv, Types
<1>8. call'[t] = c /\ \A u \in Threads \ {t} : call'[u] = call[u]
  BY Zenon, <1>4 DEF Inv, Types
<1>9. Guarded(call[t])'
  BY <1>1, <1>2, <1>3, <1>6, <1>8 DEF Guarded, EntriesStay
<1>10. \A u \in Threads \ {t} : Keeps(call[u], call'[u])
  BY Zenon, <1>8 DEF Keeps
<1> QED  BY <1>2, <1>4, <1>7, <1>9, <1>10, StepInv

LEMMA ExitGetInv ==
  ASSUME Inv, NEW t \in Threads, ExitGet(t)
  PROVE  Inv' /\ EntriesStay
<1> DEFINE q == table[call[t].addr]
           l == IF q = 0 THEN "gone" ELSE "notify"
           n == IF q = 0 THEN 0 ELSE 1
           c == [call[t] EXCEPT !.pc = l, !.wq = q, !.left = n]
<1>1. call[t] \in Calls /\ call[t].addr \in Addrs /\ Guarded(call[t])
  BY Zenon DEF Inv, Types, Guards, Guarded, ExitGet
<1>2. q \in Queues \cup {0} /\ l \in PCs
  BY Zenon, <1>1, TableQueue DEF PCs
<1>3. n \in 0..MaxWake
  BY FutexAssumption DEF ExitGet
<1>4. l \in {"gone", "notify"} /\ (l = "notify" => q # 0)
  OBVIOUS
<1>5. call' = [call EXCEPT ![t] = c]
  BY Zenon DEF ExitGet
<1> HIDE DEF l, n
<1>6. c \in Calls
  BY Zenon, <1>1, <1>2, <1>3 DEF Calls
<1>7. c.pc = l /\ c.wq = q /\ c.addr = call[t].addr /\ c.wq2 = call[t].wq2 /\ c.addr2 = call[t].addr2
  BY Zenon, <1>1 DEF Calls
<1> HIDE DEF c
<1>8. Guarded(c)
  BY Zenon, <1>1, <1>4, <1>7 DEF Guarded
<1> QED  BY Zenon, <1>5, <1>6, <1>8, CallInv DEF ExitGet

(* A step of t that changes its pc and the queues.                         *)
LEMMA QueueInv ==
  ASSUME Inv, NEW t \in Threads, NEW l \in {"waiting", "drop"},
         call' = [call EXCEPT ![t] = [@ EXCEPT !.pc = l]],
         table' = table, made' = made, queues' = [q \in Queues |-> queues'[q]],
         \A q \in Queues : queues'[q] # <<>> => queues[q] # <<>> \/ InTable(q)
  PROVE  Inv' /\ EntriesStay
<1> DEFINE c == [call[t] EXCEPT !.pc = l]
<1>1. call[t] \in Calls /\ Guarded(call[t])
  BY Zenon DEF Inv, Types, Guards
<1>2. c \in Calls
  BY Zenon, <1>1 DEF Calls, PCs
<1>3. /\ c.pc = l /\ c.wq = call[t].wq /\ c.addr = call[t].addr
      /\ c.wq2 = call[t].wq2 /\ c.addr2 = call[t].addr2
  BY Zenon, <1>1 DEF Calls
<1>4. call' = [call EXCEPT ![t] = c]
  OBVIOUS
<1> HIDE DEF c
<1>5. Types'
  BY <1>2, <1>4 DEF Inv, Types
<1>6. call'[t] = c /\ \A u \in Threads \ {t} : call'[u] = call[u]
  BY Zenon, <1>4 DEF Inv, Types
<1>7. Guarded(call[t])'
  BY <1>1, <1>3, <1>6 DEF Guarded
<1>8. \A u \in Threads \ {t} : Keeps(call[u], call'[u])
  BY Zenon, <1>6 DEF Keeps
<1>9. EntriesStay
  BY Zenon DEF EntriesStay
<1> QED  BY Zenon, <1>5, <1>7, <1>8, <1>9, StepInv

LEMMA WaitInv ==
  ASSUME Inv, NEW t \in Threads, WaitFault(t) \/ WaitBlock(t) \/ Timeout(t)
  PROVE  Inv' /\ EntriesStay
<1>1. queues = [q \in Queues |-> queues[q]]
  BY Zenon DEF Inv, Types
<1>2. CASE WaitFault(t)
  BY Zenon, <1>1, <1>2, QueueInv DEF WaitFault
<1>3. CASE WaitBlock(t)
  <2> DEFINE q == call[t].wq
  <2>1. q # 0 /\ InTable(q)
    BY Zenon, <1>3 DEF Inv, Guards, Guarded, WaitBlock, InTable
  <2>2. queues' = [queues EXCEPT ![q] = Append(@, t)]
    BY Zenon, <1>3 DEF WaitBlock
  <2>3. \A r \in Queues : queues'[r] # <<>> => queues[r] # <<>> \/ InTable(r)
    BY Zenon, <1>1, <2>1, <2>2
  <2>4. queues' = [r \in Queues |-> queues'[r]]
    BY Zenon, <1>1, <2>2
  <2> QED  BY Zenon, <1>3, <2>3, <2>4, QueueInv DEF WaitBlock
<1>4. CASE Timeout(t)
  <2>1. ASSUME NEW q \in Queues, queues[q] = <<>> PROVE t \notin Waiters(q)
    BY SMTT(30), <2>1 DEF Waiters, Range
  <2>2. queues' = [q \in Queues |-> IF t \in Waiters(q) THEN Without(queues[q], t) ELSE queues[q]]
    BY Zenon, <1>4 DEF Timeout
  <2>3. \A q \in Queues : queues'[q] # <<>> => queues[q] # <<>>
    BY Zenon, <2>1, <2>2
  <2>4. queues' = [q \in Queues |-> queues'[q]]
    BY Zenon, <2>2
  <2> QED  BY Zenon, <1>4, <2>3, <2>4, QueueInv DEF Timeout
<1> QED  BY Zenon, <1>2, <1>3, <1>4

LEMMA NotifyInv ==
  ASSUME Inv, NEW t \in Threads, Notify(t)
  PROVE  Inv' /\ EntriesStay
<1> DEFINE q == call[t].wq
           u == Head(queues[q])
           n(v) == IF v = t THEN call[v].left - 1 ELSE call[v].left
           l(v) == IF v = u THEN "drop" ELSE call[v].pc
           c(v) == [call[v] EXCEPT !.left = n(v), !.pc = l(v)]
<1>1. call \in [Threads -> Calls] /\ queues = [r \in Queues |-> queues[r]]
  BY Zenon DEF Inv, Types
<1>2. call' = [v \in Threads |-> c(v)]
  BY Zenon DEF Notify
<1>3. ASSUME NEW v \in Threads PROVE c(v) \in Calls /\ Keeps(call[v], c(v))
  <2>1. call[v] \in Calls
    BY Zenon, <1>1
  <2>2. n(v) \in 0..MaxWake
    <3>1. call[v].left \in 0..MaxWake /\ (v = t => call[v].left > 0)
      BY Zenon, <2>1 DEF Calls, Notify
    <3> QED  BY <3>1, FutexAssumption
  <2>3. l(v) \in PCs /\ l(v) \in {call[v].pc, "drop"}
    BY Zenon, <2>1 DEF Calls, PCs
  <2> HIDE DEF n, l
  <2> QED  BY Zenon, <2>1, <2>2, <2>3 DEF Calls, Keeps
<1> HIDE DEF c
<1>4. call' \in [Threads -> Calls] /\ \A v \in Threads : Keeps(call[v], call'[v])
  BY Zenon, <1>2, <1>3
<1>5. queues' = [queues EXCEPT ![q] = Tail(@)] /\ q # 0 /\ InTable(q)
  BY Zenon DEF Inv, Guards, Guarded, InTable, Notify
<1>6. /\ queues' = [r \in Queues |-> queues'[r]]
      /\ \A r \in Queues : queues'[r] # <<>> => queues[r] # <<>> \/ InTable(r)
  BY Zenon, <1>1, <1>5
<1>7. table' = table /\ made' = made
  BY Zenon DEF Notify
<1>8. Types' /\ EntriesStay
  BY Zenon, <1>4, <1>6, <1>7 DEF Inv, Types, EntriesStay
<1> QED  BY Zenon, <1>4, <1>6, <1>8, StepInv

LEMMA NotifyEndInv ==
  ASSUME Inv, NEW t \in Threads, NotifyEnd(t)
  PROVE  Inv' /\ EntriesStay
<1> DEFINE c == call[t]
           k == IF c.left = 0 THEN Smaller(c.move, Len(queues[c.wq])) ELSE 0
           left == SubSeq(queues[c.wq], k + 1, Len(queues[c.wq]))
           moved == queues[c.wq2] \o SubSeq(queues[c.wq], 1, k)
<1>1. queues = [r \in Queues |-> queues[r]]
  BY Zenon DEF Inv, Types
<1>2. CASE c.wq2 = 0
  BY Zenon, <1>1, <1>2, QueueInv DEF NotifyEnd
<1>3. CASE c.wq2 # 0
  <2>1. c.wq # 0 /\ InTable(c.wq) /\ InTable(c.wq2)
    BY Zenon, <1>3 DEF Inv, Guards, Guarded, InTable, NotifyEnd
  <2>2. queues' = [queues EXCEPT ![c.wq] = left, ![c.wq2] = moved]
    BY Zenon, <1>3 DEF NotifyEnd
  <2> HIDE DEF left, moved
  <2>3. /\ queues' = [r \in Queues |-> queues'[r]]
        /\ \A r \in Queues : queues'[r] # <<>> => queues[r] # <<>> \/ InTable(r)
    BY Zenon, <1>1, <2>1, <2>2
  <2> QED  BY Zenon, <2>3, QueueInv DEF NotifyEnd
<1> QED  BY Zenon, <1>2, <1>3

-----------------------------------------------------------------------------
(* A guard that is being dropped is counted, and so is the table's own     *)
(* reference: the count is never 1.  (For a call without guards it counts  *)
(* the call twice.)                                                        *)
LEMMA Some ==
  ASSUME NEW S, IsFiniteSet(S), NEW x \in S
  PROVE  Cardinality(S) \in Nat /\ Cardinality(S) >= 1
<1>1. Cardinality(S) \in Nat /\ S # {}
  BY Zenon, FS_CardinalityType
<1>2. Cardinality(S) # 0
  BY Zenon, <1>1, FS_EmptySet
<1> QED  BY SMTT(30), <1>1, <1>2

LEMMA CountAtLeastTwo ==
  ASSUME NEW q, NEW t \in Threads,
         \/ InTable(q) /\ (call[t].wq = q \/ call[t].wq2 = q)
         \/ call[t].wq = q /\ call[t].wq2 = q
  PROVE  strong_count(q) # 1
<1> DEFINE A == {b \in Addrs : table[b] = q}
           F == {u \in Threads : call[u].wq = q}
           G == {u \in Threads : call[u].wq2 = q}
<1>1. IsFiniteSet(A) /\ IsFiniteSet(F) /\ IsFiniteSet(G)
  BY Zenon, FutexAssumption, FS_Subset
<1>2. Cardinality(A) \in Nat /\ Cardinality(F) \in Nat /\ Cardinality(G) \in Nat
  BY Zenon, <1>1, FS_CardinalityType
<1>3. InTable(q) => Cardinality(A) >= 1
  BY Zenon, <1>1, Some DEF InTable
<1>4. call[t].wq = q => Cardinality(F) >= 1
  <2>1. call[t].wq = q => t \in F
    BY SMTT(30)
  <2> QED  BY <1>1, <2>1, Some
<1>5. call[t].wq2 = q => Cardinality(G) >= 1
  <2>1. call[t].wq2 = q => t \in G
    BY SMTT(30)
  <2> QED  BY <1>1, <2>1, Some
<1>6. strong_count(q) = Cardinality(A) + Cardinality(F) + Cardinality(G)
  BY Zenon DEF strong_count
<1> HIDE DEF A, F, G
<1> QED  BY <1>2, <1>3, <1>4, <1>5, <1>6

LEMMA DropInv ==
  ASSUME Inv, NEW t \in Threads, Drop(t)
  PROVE  Inv' /\ EntriesStay
<1> DEFINE c == call[t]
           l == IF c.exits THEN "gone" ELSE "user"
           return == [Idle EXCEPT !.pc = l]
           next == [c EXCEPT !.wq = 0]
<1>1. c \in Calls /\ Guarded(c) /\ c.pc = "drop"
  BY Zenon DEF Inv, Types, Guards, Drop
<1>2. return \in Calls /\ Guarded(return)
  <2>1. l \in PCs /\ l \in {"gone", "user"}
    BY Zenon DEF PCs
  <2> HIDE DEF l
  <2>2. return \in Calls
    BY Zenon, <2>1, IdleType DEF Calls
  <2>3. return.pc = l /\ return.wq = 0 /\ return.wq2 = 0
    BY Zenon DEF Idle
  <2> QED  BY Zenon, <2>1, <2>2, <2>3 DEF Guarded
<1>3. next \in Calls /\ Guarded(next)
  <2>1. next \in Calls
    BY Zenon, <1>1 DEF Calls
  <2>2. /\ next.pc = c.pc /\ next.wq = 0 /\ next.wq2 = c.wq2
        /\ next.addr = c.addr /\ next.addr2 = c.addr2
    BY Zenon, <1>1 DEF Calls
  <2> QED  BY Zenon, <1>1, <2>1, <2>2 DEF Guarded
<1>4. queues' = queues /\ made' = made
  BY Zenon DEF Drop
<1>5. CASE c.wq # 0
  <2>1. strong_count(c.wq) # 1
    BY Zenon, <1>1, <1>5, CountAtLeastTwo DEF Guarded, InTable
  <2>2. table' = table
    BY Zenon, <1>5, <2>1 DEF Drop, drop
  <2>3. call' = [call EXCEPT ![t] = IF c.wq2 = 0 THEN return ELSE next]
    BY Zenon, <1>5 DEF Drop
  <2> HIDE DEF return, next
  <2> QED  BY Zenon, <1>2, <1>3, <1>4, <2>2, <2>3, CallInv
<1>6. CASE c.wq = 0
  <2>1. strong_count(c.wq2) # 1
    BY SMTT(30), <1>1, <1>6, CountAtLeastTwo DEF Guarded, InTable
  <2>2. table' = table
    BY Zenon, <1>6, <2>1 DEF Drop, drop
  <2>3. call' = [call EXCEPT ![t] = return]
    BY Zenon, <1>6 DEF Drop
  <2> HIDE DEF return
  <2> QED  BY Zenon, <1>2, <1>4, <2>2, <2>3, CallInv
<1> QED  BY Zenon, <1>5, <1>6

-----------------------------------------------------------------------------
LEMMA NextInv ==
  ASSUME Inv, [Next]_vars
  PROVE  Inv' /\ EntriesStay
<1>1. CASE UNCHANGED vars
  BY SMTT(30), <1>1 DEF vars, Inv, Types, Guards, Guarded, Filled, InTable, EntriesStay
<1>2. ASSUME NEW t \in Threads, Begin(t) \/ Continue(t) \/ WaitFault(t) \/ Timeout(t)
      PROVE  Inv' /\ EntriesStay
  BY Zenon, <1>2, BeginInv, WaitInsertInv, RequeueInsertInv, ExitGetInv, WaitInv, NotifyInv,
     NotifyEndInv, DropInv DEF Continue
<1> QED  BY <1>1, <1>2 DEF Next

-----------------------------------------------------------------------------
(* What the operations on a queue do to the threads in it.  A thread is    *)
(* within the first n when n wakeups reach it.                             *)
Within(s, u, n) == \E i \in DOMAIN s : i <= n /\ s[i] = u

LEMMA AppendFacts ==
  ASSUME NEW s \in Seq(Threads), NEW t \in Threads
  PROVE  /\ Append(s, t) \in Seq(Threads) /\ Range(Append(s, t)) = Range(s) \cup {t}
         /\ IsInjective(s) /\ t \notin Range(s) => IsInjective(Append(s, t))
         /\ \A u, n : Within(s, u, n) => Within(Append(s, t), u, n)
<1>1. /\ Append(s, t) \in Seq(Threads) /\ DOMAIN Append(s, t) = 1..Len(s)+1 /\ DOMAIN s = 1..Len(s)
      /\ Len(s) \in Nat /\ Append(s, t)[Len(s)+1] = t /\ \A i \in 1..Len(s) : Append(s, t)[i] = s[i]
  OBVIOUS
<1> DEFINE r == Append(s, t)
<1> HIDE DEF r
<1>2. Range(Append(s, t)) = Range(s) \cup {t}
  BY <1>1 DEF Range
<1>3. IsInjective(s) /\ t \notin Range(s) => IsInjective(Append(s, t))
  BY <1>1 DEF Range, IsInjective
<1>4. \A u, n : Within(s, u, n) => Within(Append(s, t), u, n)
  BY <1>1 DEF Within
<1> QED  BY <1>1, <1>2, <1>3, <1>4

(* s is a followed by b.                                                   *)
Parts(s, a, b) ==
  /\ s \in Seq(Threads) /\ a \in Seq(Threads) /\ b \in Seq(Threads) /\ Len(s) = Len(a) + Len(b)
  /\ \A i \in 1..Len(a) : s[i] = a[i]
  /\ \A i \in 1..Len(b) : s[Len(a) + i] = b[i]

LEMMA Split ==
  ASSUME NEW s, NEW a, NEW b, Parts(s, a, b)
  PROVE  /\ Range(s) = Range(a) \cup Range(b)
         /\ IsInjective(s) => IsInjective(a) /\ IsInjective(b) /\ Range(a) \cap Range(b) = {}
         /\ IsInjective(a) /\ IsInjective(b) /\ Range(a) \cap Range(b) = {} => IsInjective(s)
         /\ \A u : \A n \in Nat : Within(s, u, n) /\ u \notin Range(a) => Within(b, u, n)
         /\ \A u : \A n \in Nat : Within(a, u, n) => Within(s, u, n)
<1> DEFINE k == Len(a)
           m == Len(b)
<1>0. /\ k \in Nat /\ m \in Nat /\ s \in Seq(Threads) /\ a \in Seq(Threads) /\ b \in Seq(Threads) /\ Len(s) = k + m
      /\ \A i \in 1..k : s[i] = a[i]
      /\ \A i \in 1..m : s[k+i] = b[i]
  BY DEF Parts
<1>1. DOMAIN s = 1..k+m /\ DOMAIN a = 1..k /\ DOMAIN b = 1..m
  BY <1>0
<1> HIDE DEF k, m
<1>2. \A i \in k+1..k+m : i - k \in 1..m /\ s[i] = b[i-k]
  BY <1>0
<1>3. \A i \in 1..k+m : i \in 1..k \/ i \in k+1..k+m
  BY <1>0
<1>4. \A i \in 1..m : k + i \in 1..k+m
  BY <1>0
<1>5. \A i \in 1..k : i \in 1..k+m
  BY <1>0
<1>6. Range(s) = Range(a) \cup Range(b)
  <2>1. ASSUME NEW i \in 1..k+m PROVE s[i] \in Range(a) \cup Range(b)
    BY Zenon, <1>0, <1>1, <1>2, <1>3 DEF Range
  <2>2. Range(a) \subseteq Range(s)
    BY <1>0, <1>1, <1>5 DEF Range
  <2>3. Range(b) \subseteq Range(s)
    BY <1>0, <1>1, <1>4 DEF Range
  <2>4. Range(s) \subseteq Range(a) \cup Range(b)
    BY Zenon, <1>0, <1>1, <2>1 DEF Range
  <2> QED  BY Zenon, <1>0, <2>2, <2>3, <2>4
<1>7. ASSUME IsInjective(s) PROVE IsInjective(a) /\ IsInjective(b) /\ Range(a) \cap Range(b) = {}
  <2>1. IsInjective(a)
    BY <1>0, <1>1, <1>5, <1>7 DEF IsInjective
  <2>2. IsInjective(b)
    <3> SUFFICES ASSUME NEW i \in 1..m, NEW j \in 1..m, b[i] = b[j] PROVE i = j
      BY Zenon, <1>0, <1>1 DEF IsInjective
    <3>1. k + i \in 1..k+m /\ k + j \in 1..k+m /\ s[k+i] = s[k+j]
      BY <1>0
    <3>2. k + i = k + j
      BY Zenon, <1>0, <1>1, <1>7, <3>1 DEF IsInjective
    <3> QED  BY <1>0, <3>2
  <2>3. ASSUME NEW i \in 1..k, NEW j \in 1..m PROVE a[i] # b[j]
    <3>1. i \in 1..k+m /\ k + j \in 1..k+m /\ i # k + j /\ s[i] = a[i] /\ s[k+j] = b[j]
      BY <1>0
    <3> QED  BY Zenon, <1>0, <1>1, <1>7, <3>1 DEF IsInjective
  <2> QED  BY <1>0, <1>1, <2>1, <2>2, <2>3 DEF Range
<1>8. ASSUME IsInjective(a), IsInjective(b), Range(a) \cap Range(b) = {} PROVE IsInjective(s)
  <2>1. ASSUME NEW i \in 1..k, NEW j \in 1..m PROVE a[i] # b[j]
    BY Zenon, <1>0, <1>1, <1>8 DEF Range
  <2> SUFFICES ASSUME NEW i \in 1..k+m, NEW j \in 1..k+m, s[i] = s[j] PROVE i = j
    BY Zenon, <1>0, <1>1 DEF IsInjective
  <2>2. CASE i \in 1..k /\ j \in 1..k
    BY <1>0, <1>1, <1>8, <2>2 DEF IsInjective
  <2>3. CASE i \in k+1..k+m /\ j \in k+1..k+m
    <3>1. b[i-k] = b[j-k] /\ i - k \in 1..m /\ j - k \in 1..m
      BY <1>0, <1>2, <2>3
    <3>2. i - k = j - k
      BY Zenon, <1>0, <1>1, <1>8, <3>1 DEF IsInjective
    <3> QED  BY <1>0, <3>2
  <2> QED  BY <1>0, <1>2, <1>3, <2>1, <2>2, <2>3
<1>9. ASSUME NEW u, NEW n \in Nat, Within(s, u, n), u \notin Range(a) PROVE Within(b, u, n)
  <2>1. PICK i \in 1..k+m : i <= n /\ s[i] = u
    BY <1>0, <1>1, <1>9 DEF Within
  <2>2. i \in k+1..k+m
    BY <1>0, <1>1, <1>3, <1>9, <2>1 DEF Range
  <2>3. i - k \in 1..m /\ i - k <= n /\ b[i-k] = u
    BY <1>0, <1>2, <2>1, <2>2
  <2> QED  BY Zenon, <1>0, <1>1, <2>3 DEF Within
<1>10. ASSUME NEW u, NEW n \in Nat, Within(a, u, n) PROVE Within(s, u, n)
  BY <1>0, <1>1, <1>5, <1>10 DEF Within
<1> QED  BY Zenon, <1>0, <1>6, <1>7, <1>8, <1>9, <1>10

LEMMA TailFacts ==
  ASSUME NEW s \in Seq(Threads), s # <<>>
  PROVE  /\ Tail(s) \in Seq(Threads) /\ Head(s) \in Range(s)
         /\ Range(s) = {Head(s)} \cup Range(Tail(s))
         /\ IsInjective(s) => IsInjective(Tail(s)) /\ Head(s) \notin Range(Tail(s))
         /\ \A u : \A n \in Nat : Within(s, u, n) /\ u # Head(s) => Within(Tail(s), u, n - 1)
<1> DEFINE b == Tail(s)
           m == Len(s) - 1
<1>1. /\ m \in Nat /\ b \in Seq(Threads) /\ Len(b) = m /\ DOMAIN b = 1..m /\ DOMAIN s = 1..m+1
      /\ \A i \in 1..m : b[i] = s[i+1]
  OBVIOUS
<1>2. Head(s) = s[1]
  OBVIOUS
<1> HIDE DEF b, m
<1>3. \A i \in 1..m+1 : i = 1 \/ (i - 1 \in 1..m /\ s[i] = b[i-1])
  BY <1>1
<1>4. 1 \in 1..m+1 /\ \A i \in 1..m : i + 1 \in 1..m+1 /\ i + 1 # 1
  BY <1>1
<1>5. Head(s) \in Range(s)
  BY Zenon, <1>1, <1>2, <1>4 DEF Range
<1>6. Range(s) = {Head(s)} \cup Range(b)
  <2>1. Range(b) \subseteq Range(s)
    BY <1>1, <1>4 DEF Range
  <2>2. \A i \in 1..m+1 : s[i] \in {Head(s)} \cup Range(b)
    BY Zenon, <1>1, <1>2, <1>3 DEF Range
  <2>3. Range(s) \subseteq {Head(s)} \cup Range(b)
    BY Zenon, <1>1, <2>2 DEF Range
  <2> QED  BY Zenon, <1>5, <2>1, <2>3
<1>7. ASSUME IsInjective(s) PROVE IsInjective(b) /\ Head(s) \notin Range(b)
  <2>1. ASSUME NEW i \in 1..m, NEW j \in 1..m, b[i] = b[j] PROVE i = j
    <3>1. i + 1 \in 1..m+1 /\ j + 1 \in 1..m+1 /\ s[i+1] = s[j+1]
      BY <1>1, <1>4, <2>1
    <3>2. i + 1 = j + 1
      BY Zenon, <1>1, <1>7, <3>1 DEF IsInjective
    <3> QED  BY <3>2
  <2>2. ASSUME NEW i \in 1..m PROVE b[i] # s[1]
    BY <1>1, <1>4, <1>7 DEF IsInjective
  <2>3. IsInjective(b)
    BY Zenon, <1>1, <2>1 DEF IsInjective
  <2>4. Head(s) \notin Range(b)
    BY Zenon, <1>1, <1>2, <2>2 DEF Range
  <2> QED  BY Zenon, <2>3, <2>4
<1>8. ASSUME NEW u, NEW n \in Nat, Within(s, u, n), u # Head(s) PROVE Within(b, u, n - 1)
  <2>1. PICK i \in 1..m+1 : i <= n /\ s[i] = u
    BY <1>1, <1>8 DEF Within
  <2>2. i - 1 \in 1..m /\ i - 1 <= n - 1 /\ b[i-1] = u
    BY <1>2, <1>3, <1>8, <2>1
  <2> QED  BY Zenon, <1>1, <2>2 DEF Within
<1> QED  BY Zenon, <1>1, <1>5, <1>6, <1>7, <1>8 DEF b

LEMMA SubSeqFacts ==
  ASSUME NEW s \in Seq(Threads), NEW k \in 0..Len(s)
  PROVE  LET a == SubSeq(s, 1, k)
             b == SubSeq(s, k + 1, Len(s))
         IN  /\ a \in Seq(Threads) /\ b \in Seq(Threads)
             /\ Range(s) = Range(a) \cup Range(b)
             /\ IsInjective(s) => IsInjective(a) /\ IsInjective(b) /\ Range(a) \cap Range(b) = {}
             /\ \A u : \A n \in Nat : Within(s, u, n) /\ u \notin Range(a) => Within(b, u, n)
<1> DEFINE a == SubSeq(s, 1, k)
           b == SubSeq(s, k + 1, Len(s))
           m == Len(s) - k
<1>1. a \in Seq(Threads) /\ Len(a) = k /\ \A i \in 1..k : a[i] = s[i]
  OBVIOUS
<1>2. b \in Seq(Threads) /\ Len(b) = m /\ \A i \in 1..m : b[i] = s[k+i]
  OBVIOUS
<1>3. k \in Nat /\ m \in Nat /\ Len(s) = k + m
  OBVIOUS
<1> HIDE DEF a, b, m
<1>0. Parts(s, a, b)
  BY <1>1, <1>2, <1>3 DEF Parts
<1>4. /\ Range(s) = Range(a) \cup Range(b)
      /\ IsInjective(s) => IsInjective(a) /\ IsInjective(b) /\ Range(a) \cap Range(b) = {}
      /\ \A u : \A n \in Nat : Within(s, u, n) /\ u \notin Range(a) => Within(b, u, n)
  BY Zenon, <1>0, Split
<1> QED  BY Zenon, <1>1, <1>2, <1>4 DEF a, b

LEMMA ConcatFacts ==
  ASSUME NEW a \in Seq(Threads), NEW b \in Seq(Threads)
  PROVE  /\ a \o b \in Seq(Threads) /\ Range(a \o b) = Range(a) \cup Range(b)
         /\ IsInjective(a) /\ IsInjective(b) /\ Range(a) \cap Range(b) = {} => IsInjective(a \o b)
         /\ \A u : \A n \in Nat : Within(a, u, n) => Within(a \o b, u, n)
<1> DEFINE s == a \o b
           k == Len(a)
           m == Len(b)
<1>1. k \in Nat /\ m \in Nat /\ s \in Seq(Threads) /\ Len(s) = k + m
  OBVIOUS
<1>2. \A i \in 1..k : a[i] = s[i]
  OBVIOUS
<1>3. \A i \in 1..m : b[i] = s[k+i]
  OBVIOUS
<1>4. Parts(s, a, b)
  BY Zenon, <1>1, <1>2, <1>3 DEF Parts
<1> HIDE DEF s
<1>5. /\ Range(s) = Range(a) \cup Range(b)
      /\ IsInjective(a) /\ IsInjective(b) /\ Range(a) \cap Range(b) = {} => IsInjective(s)
      /\ \A u : \A n \in Nat : Within(a, u, n) => Within(s, u, n)
  BY Zenon, <1>4, Split
<1> QED  BY Zenon, <1>1, <1>5 DEF s

LEMMA WithoutFacts ==
  ASSUME NEW s \in Seq(Threads), IsInjective(s), NEW t \in Range(s)
  PROVE  /\ Without(s, t) \in Seq(Threads) /\ IsInjective(Without(s, t))
         /\ Range(Without(s, t)) = Range(s) \ {t}
         /\ \A u : \A n \in Nat : Within(s, u, n) /\ u # t => Within(Without(s, t), u, n)
<1> DEFINE i == CHOOSE i \in DOMAIN s : s[i] = t
           f == SubSeq(s, 1, i - 1)
           b == SubSeq(s, i + 1, Len(s))
           w == f \o b
           m == Len(s) - 1
<1>1. i \in 1..Len(s) /\ s[i] = t
  <2>1. \E j \in DOMAIN s : s[j] = t
    BY Zenon DEF Range
  <2>2. i \in DOMAIN s /\ s[i] = t
    BY Zenon, <2>1
  <2> QED  BY <2>2
<1>2. Without(s, t) = w
  BY Zenon DEF Without
<1> HIDE DEF i
<1>3. /\ m \in Nat /\ DOMAIN s = 1..m+1 /\ i \in 1..m+1 /\ s[i] = t
      /\ f \in Seq(Threads) /\ Len(f) = i - 1 /\ \A j \in 1..i-1 : f[j] = s[j]
  BY <1>1
<1>4. /\ b \in Seq(Threads) /\ Len(b) = m + 1 - i /\ \A j \in 1..m+1-i : b[j] = s[i+j]
  BY <1>1
<1> HIDE DEF f, b, m
<1>5. w \in Seq(Threads) /\ Len(w) = m /\ DOMAIN w = 1..m
  <2>1. f \in Seq(Threads) /\ b \in Seq(Threads)
    BY <1>3, <1>4
  <2>2. w \in Seq(Threads) /\ Len(w) = Len(f) + Len(b)
    BY <2>1
  <2>3. Len(f) + Len(b) = m
    BY <1>3, <1>4
  <2> QED  BY <2>2, <2>3
<1>6. /\ \A j \in 1..i-1 : w[j] = s[j]
      /\ \A j \in i..m : w[j] = b[j-(i-1)]
  <2>1. \A j \in 1..Len(f) : w[j] = f[j]
    BY <1>3, <1>4
  <2>2. \A j \in Len(f)+1..Len(f)+Len(b) : w[j] = b[j-Len(f)]
    BY <1>3, <1>4
  <2>3. Len(f) = i - 1 /\ Len(f) + 1 = i /\ Len(f) + Len(b) = m
    BY <1>3, <1>4
  <2> QED  BY <1>3, <2>1, <2>2, <2>3
<1>7. ASSUME NEW j \in 1..m PROVE w[j] = IF j < i THEN s[j] ELSE s[j+1]
  <2>1. CASE j < i
    BY <1>3, <1>6, <2>1
  <2>2. CASE j >= i
    <3>1. j \in i..m /\ j - (i-1) \in 1..m+1-i /\ i + (j - (i-1)) = j + 1
      BY <1>3, <2>2
    <3>2. b[j-(i-1)] = s[j+1]
      BY Zenon, <1>4, <3>1
    <3>3. ~(j < i)
      BY <1>3, <2>2
    <3> QED  BY Zenon, <1>6, <3>1, <3>2, <3>3
  <2>3. j < i \/ j >= i
    BY <1>3
  <2> QED  BY Zenon, <2>1, <2>2, <2>3
<1> HIDE DEF w
<1>8. \A j \in 1..m+1 : j < i => j \in 1..m /\ w[j] = s[j]
  BY <1>3, <1>5, <1>7
<1>9. \A j \in 1..m+1 : j > i => j - 1 \in 1..m /\ w[j-1] = s[j]
  BY <1>3, <1>5, <1>7
<1>10. \A j \in 1..m : \E l \in 1..m+1 : l # i /\ l = (IF j < i THEN j ELSE j + 1) /\ w[j] = s[l]
  BY <1>3, <1>5, <1>7
<1>11. ASSUME NEW j \in 1..m, NEW l \in 1..m, w[j] = w[l] PROVE j = l
  <2> DEFINE x == IF j < i THEN j ELSE j + 1
             y == IF l < i THEN l ELSE l + 1
  <2>1. x \in 1..m+1 /\ y \in 1..m+1 /\ s[x] = s[y]
    BY <1>3, <1>5, <1>7, <1>11
  <2>2. x = y
    BY Zenon, <1>3, <1>5, <2>1 DEF IsInjective
  <2> QED  BY <1>3, <1>5, <2>2
<1>12. Range(w) = Range(s) \ {t}
  <2>1. ASSUME NEW j \in 1..m PROVE w[j] \in Range(s) \ {t}
    <3>1. PICK l \in 1..m+1 : l # i /\ w[j] = s[l]
      BY <1>10
    <3> QED  BY Zenon, <1>3, <1>5, <3>1 DEF Range, IsInjective
  <2>2. ASSUME NEW j \in 1..m+1, s[j] # t PROVE s[j] \in Range(w)
    <3>1. j < i \/ j > i
      BY <1>3, <1>5, <2>2
    <3> QED  BY Zenon, <1>3, <1>5, <1>8, <1>9, <3>1 DEF Range
  <2>3. Range(w) \subseteq Range(s) \ {t}
    BY Zenon, <1>3, <1>5, <2>1 DEF Range
  <2>4. Range(s) \ {t} \subseteq Range(w)
    <3> SUFFICES ASSUME NEW x \in Range(s), x # t PROVE x \in Range(w)
      BY Zenon
    <3>1. PICK j \in 1..m+1 : x = s[j]
      BY Zenon, <1>3, <1>5 DEF Range
    <3> QED  BY Zenon, <2>2, <3>1
  <2> QED  BY Zenon, <2>3, <2>4
<1>13. ASSUME NEW u, NEW n \in Nat, Within(s, u, n), u # t PROVE Within(w, u, n)
  <2>1. PICK j \in 1..m+1 : j <= n /\ s[j] = u
    BY Zenon, <1>3, <1>5, <1>13 DEF Within
  <2>2. j < i \/ j > i
    BY <1>3, <1>5, <1>13, <2>1
  <2>3. CASE j < i
    BY Zenon, <1>3, <1>5, <1>8, <2>1, <2>3 DEF Within
  <2>4. CASE j > i
    <3>1. j - 1 \in 1..m /\ j - 1 <= n /\ w[j-1] = u
      BY <1>3, <1>5, <1>9, <2>1, <2>4
    <3> QED  BY Zenon, <1>3, <1>5, <3>1 DEF Within
  <2> QED  BY <2>2, <2>3, <2>4
<1>14. IsInjective(w)
  BY Zenon, <1>3, <1>5, <1>11 DEF IsInjective
<1> QED  BY Zenon, <1>2, <1>5, <1>12, <1>13, <1>14

-----------------------------------------------------------------------------
(* Entries and wakeups *)

(* Queues belong to one address, so that a requeue moves threads between   *)
(* two queues.                                                             *)
TableOnce ==
  \A a \in Addrs : /\ table[a] <= made
                   /\ \A b \in Addrs : table[a] = table[b] /\ table[a] # 0 => a = b
ApartIn(c) == c.wq2 # 0 \/ c.pc = "requeue_insert" => c.addr # c.addr2
Apart == \A t \in Threads : ApartIn(call[t])

(* A wake still has a wakeup for each of the threads it is to meet, and    *)
(* for those before it.                                                    *)
DueOf(t) ==
  \A u \in unmet[t] : call[t].pc = "notify" /\ Within(queues[call[t].wq], u, call[t].left)
Due == \A t \in Threads : DueOf(t)

Queued ==
  /\ queues \in [Queues -> Seq(Threads)] /\ unmet \in [Threads -> SUBSET Threads]
  /\ OneEntry

Meets == Queued /\ TableOnce /\ Apart /\ Due

LEMMA InitMeets == Init => Meets
<1> SUFFICES ASSUME Init PROVE Meets
  OBVIOUS
<1>1. queues \in [Queues -> Seq(Threads)] /\ unmet \in [Threads -> SUBSET Threads]
  BY DEF Init
<1>2. \A q \in Queues : queues[q] = <<>>
  BY Zenon DEF Init
<1>3. IsInjective(<<>>) /\ Range(<<>>) = {}
  BY DEF IsInjective, Range
<1>4. \A t \in Threads : call[t] = Idle /\ unmet[t] = {}
  BY DEF Init
<1>5. Idle.pc = "user" /\ Idle.wq2 = 0
  BY DEF Idle
<1>6. OneEntry
  BY Zenon, <1>2, <1>3, <1>4, <1>5 DEF OneEntry, Waiters
<1>7. TableOnce
  BY DEF Init, TableOnce
<1>8. Apart /\ Due
  BY <1>4, <1>5 DEF Apart, ApartIn, Due, DueOf
<1> QED  BY <1>1, <1>6, <1>7, <1>8 DEF Meets, Queued

(* A step of t outside its waiting that leaves the queues alone.           *)
LEMMA RestMeets ==
  ASSUME Meets, NEW t \in Threads, queues' = queues,
         \A u \in Threads \ {t} : call'[u] = call[u] /\ unmet'[u] = unmet[u],
         unmet' \in [Threads -> SUBSET Threads],
         call[t].pc # "waiting", call'[t].pc # "waiting",
         DueOf(t)', TableOnce', ApartIn(call[t])'
  PROVE  Meets'
<1>1. Queued'
  <2>1. \A u \in Threads : call'[u].pc = "waiting" <=> call[u].pc = "waiting"
    BY Zenon
  <2> QED  BY Zenon, <2>1 DEF Meets, Queued, OneEntry, Waiters
<1>2. Apart'
  BY Zenon DEF Meets, Apart, ApartIn
<1>3. Due'
  BY Zenon DEF Meets, Due, DueOf
<1> QED  BY <1>1, <1>2, <1>3 DEF Meets

(* A call of t begins; a wake notes which threads it is to meet.           *)
LEMMA BeginMeets ==
  ASSUME Inv, Meets, NEW t \in Threads, Begin(t)
  PROVE  Meets'
<1>1. call \in [Threads -> Calls] /\ unmet \in [Threads -> SUBSET Threads]
  BY DEF Inv, Types, Meets, Queued
<1>2. ASSUME call[t].pc = "user" PROVE unmet[t] = {}
  BY <1>2 DEF Meets, Due, DueOf
<1>3. ASSUME UNCHANGED <<table, made>> PROVE TableOnce'
  BY <1>3 DEF Meets, TableOnce
<1>4. ASSUME NEW a \in Addrs, NEW v \in Vals, Store(t, a, v) PROVE Meets'
  <2>1. UNCHANGED <<table, queues, made, call, unmet>>
    BY <1>4 DEF Store
  <2> QED  BY Zenon, <2>1 DEF Meets, Queued, OneEntry, Waiters, TableOnce, Apart, ApartIn, Due, DueOf
<1>5. ASSUME NEW c, call' = [call EXCEPT ![t] = c], UNCHANGED <<table, queues, made, unmet>>,
             call[t].pc = "user", c.pc # "waiting", ApartIn(c)
      PROVE  Meets'
  <2>1. call'[t] = c /\ \A u \in Threads \ {t} : call'[u] = call[u]
    BY <1>1, <1>5
  <2>2. DueOf(t)'
    BY <1>2, <1>5 DEF DueOf
  <2>3. ApartIn(call[t])'
    BY <1>5, <2>1 DEF ApartIn
  <2> QED  BY <1>1, <1>3, <1>5, <2>1, <2>2, <2>3, RestMeets
<1>6. ASSUME NEW a \in Addrs, NEW v \in Vals, NEW timed \in BOOLEAN, WaitCheck(t, a, v, timed)
      PROVE  Meets'
  <2> DEFINE c == [Idle EXCEPT !.pc = "wait_insert", !.addr = a, !.timed = timed]
  <2>1. c.pc = "wait_insert" /\ c.wq2 = 0
    BY DEF Idle
  <2>2. ApartIn(c) /\ c.pc # "waiting"
    BY <2>1 DEF ApartIn
  <2> HIDE DEF c
  <2> QED  BY Zenon, <1>5, <1>6, <2>2 DEF WaitCheck, c
<1>7. ASSUME NEW a \in Addrs, NEW b \in Addrs, NEW n \in 0..MaxWake, NEW m \in 0..MaxWake,
             RequeueGet(t, a, b, n, m)
      PROVE  Meets'
  <2> DEFINE c == [Idle EXCEPT !.pc = "requeue_insert", !.addr = a,
                     !.wq = table[a], !.addr2 = b, !.left = n, !.move = m]
  <2>1. c.pc = "requeue_insert" /\ c.addr = a /\ c.addr2 = b
    BY DEF Idle
  <2>2. ApartIn(c) /\ c.pc # "waiting"
    BY <1>7, <2>1 DEF ApartIn, RequeueGet
  <2> HIDE DEF c
  <2> QED  BY Zenon, <1>5, <1>7, <2>2 DEF RequeueGet, c
<1>8. ASSUME ExitClear(t) PROVE Meets'
  <2> DEFINE l == IF TidAddr[t] = 0 THEN "gone" ELSE "exit_get"
             c == [Idle EXCEPT !.pc = l, !.addr = TidAddr[t], !.exits = TRUE]
  <2>1. c.pc = l /\ c.wq2 = 0
    BY DEF Idle
  <2>2. ApartIn(c) /\ c.pc # "waiting"
    BY <2>1 DEF ApartIn
  <2> HIDE DEF c
  <2> QED  BY Zenon, <1>5, <1>8, <2>2 DEF ExitClear, c
<1>9. ASSUME NEW a \in Addrs, NEW n \in 0..MaxWake, WakeGet(t, a, n) PROVE Meets'
  <2> DEFINE c == [Idle EXCEPT !.pc = "notify", !.addr = a, !.wq = table[a], !.left = n]
             S == IF n >= Len(queues[table[a]]) THEN Waiters(table[a]) ELSE {}
  <2>1. c.pc = "notify" /\ c.wq2 = 0 /\ c.wq = table[a] /\ c.left = n
    BY DEF Idle
  <2>2. /\ call' = [call EXCEPT ![t] = c] /\ unmet' = [unmet EXCEPT ![t] = S]
        /\ UNCHANGED <<table, queues, made>> /\ call[t].pc = "user" /\ table[a] # 0
    BY <1>9 DEF WakeGet
  <2> HIDE DEF c
  <2>3. table[a] \in Queues /\ queues[table[a]] \in Seq(Threads)
    BY <2>2, TableQueue DEF Meets, Queued
  <2>4. S \subseteq Threads /\ \A u \in S : Within(queues[table[a]], u, n)
    <3> DEFINE s == queues[table[a]]
    <3>1. DOMAIN s = 1..Len(s) /\ Len(s) \in Nat /\ Range(s) \subseteq Threads
      BY <2>3 DEF Range
    <3> HIDE DEF s
    <3>2. n >= Len(s) => \A u \in Range(s) : Within(s, u, n)
      BY <3>1 DEF Range, Within
    <3> QED  BY <3>1, <3>2 DEF s, Waiters
  <2> HIDE DEF S
  <2>5. call'[t] = c /\ unmet'[t] = S /\ unmet' \in [Threads -> SUBSET Threads]
    BY <1>1, <2>2, <2>4
  <2>6. \A u \in Threads \ {t} : call'[u] = call[u] /\ unmet'[u] = unmet[u]
    BY <1>1, <2>2
  <2>7. DueOf(t)'
    BY <2>1, <2>2, <2>4, <2>5 DEF DueOf
  <2>8. ApartIn(call[t])' /\ call'[t].pc # "waiting"
    BY <2>1, <2>5 DEF ApartIn
  <2> QED  BY <1>3, <2>2, <2>5, <2>6, <2>7, <2>8, RestMeets
<1> QED  BY <1>4, <1>6, <1>7, <1>8, <1>9 DEF Begin

LEMMA InsertedOnce ==
  ASSUME Inv, TableOnce, NEW a \in Addrs, Inserted(a)
  PROVE  TableOnce'
<1>1. table \in [Addrs -> Queues \cup {0}] /\ made \in Nat
  BY FutexAssumption DEF Inv, Types
<1>2. table' = [table EXCEPT ![a] = get_or_insert(a)]
  BY Zenon DEF Inserted
<1>3. CASE table[a] = 0
  <2>1. made' = made + 1 /\ get_or_insert(a) = made + 1
    BY <1>3 DEF Inserted, get_or_insert
  <2>2. \A b \in Addrs : table[b] <= made /\ table[b] \in Int
    BY <1>1, FutexAssumption DEF TableOnce, Queues
  <2> QED  BY <1>1, <1>2, <2>1, <2>2 DEF TableOnce
<1>4. CASE table[a] # 0
  <2>1. made' = made /\ table' = table
    BY <1>1, <1>2, <1>4 DEF Inserted, get_or_insert
  <2> QED  BY <2>1 DEF TableOnce
<1> QED  BY <1>3, <1>4

(* A step of t that leaves the queues and what has to be met alone.        *)
LEMMA QuietMeets ==
  ASSUME Inv, Meets, NEW t \in Threads, NEW c, call' = [call EXCEPT ![t] = c],
         UNCHANGED <<queues, unmet>>, TableOnce', ApartIn(c), c.pc # "waiting",
         call[t].pc \notin {"notify", "waiting"}
  PROVE  Meets'
<1>1. call \in [Threads -> Calls] /\ unmet \in [Threads -> SUBSET Threads]
  BY DEF Inv, Types, Meets, Queued
<1>2. unmet[t] = {}
  BY DEF Meets, Due, DueOf
<1>3. call'[t] = c /\ \A u \in Threads \ {t} : call'[u] = call[u]
  BY <1>1
<1>4. DueOf(t)'
  BY <1>2 DEF DueOf
<1>5. ApartIn(call[t])'
  BY <1>3 DEF ApartIn
<1> QED  BY <1>1, <1>3, <1>4, <1>5, RestMeets

LEMMA InsertMeets ==
  ASSUME Inv, Meets, NEW t \in Threads, WaitInsert(t) \/ RequeueInsert(t)
  PROVE  Meets'
<1>1. call[t] \in Calls /\ Guarded(call[t]) /\ ApartIn(call[t]) /\ TableOnce
  BY DEF Inv, Types, Guards, Meets, Apart
<1>2. CASE WaitInsert(t)
  <2> DEFINE q == get_or_insert(call[t].addr)
             c == [call[t] EXCEPT !.pc = "wait_block", !.wq = q]
  <2>1. c.pc = "wait_block" /\ c.wq2 = call[t].wq2 /\ c.addr = call[t].addr /\ c.addr2 = call[t].addr2
    BY <1>1 DEF Calls
  <2>2. /\ call' = [call EXCEPT ![t] = c] /\ UNCHANGED <<queues, unmet>>
        /\ call[t].pc = "wait_insert" /\ Inserted(call[t].addr)
    BY <1>2 DEF WaitInsert
  <2> HIDE DEF c, q
  <2>3. ApartIn(c)
    BY <1>1, <2>1 DEF ApartIn
  <2>4. TableOnce'
    BY <1>1, <2>2, InsertedOnce DEF Guarded
  <2> QED  BY Zenon, <2>1, <2>2, <2>3, <2>4, QuietMeets
<1>3. CASE RequeueInsert(t)
  <2> DEFINE q == get_or_insert(call[t].addr2)
             l == IF call[t].wq = 0 THEN "drop" ELSE "notify"
             c == [call[t] EXCEPT !.pc = l, !.wq2 = q]
  <2>1. c.pc = l /\ c.addr = call[t].addr /\ c.addr2 = call[t].addr2
    BY <1>1 DEF Calls
  <2>2. /\ call' = [call EXCEPT ![t] = c] /\ UNCHANGED <<queues, unmet>>
        /\ call[t].pc = "requeue_insert" /\ Inserted(call[t].addr2)
    BY <1>3 DEF RequeueInsert
  <2>3. l # "waiting"
    OBVIOUS
  <2> HIDE DEF c, q, l
  <2>4. ApartIn(c)
    BY <1>1, <2>1, <2>2 DEF ApartIn
  <2>5. TableOnce'
    BY <1>1, <2>2, InsertedOnce DEF Guarded
  <2> QED  BY Zenon, <2>1, <2>2, <2>3, <2>4, <2>5, QuietMeets
<1> QED  BY <1>2, <1>3

LEMMA OtherMeets ==
  ASSUME Inv, Meets, NEW t \in Threads, ExitGet(t) \/ WaitFault(t)
  PROVE  Meets'
<1>1. call[t] \in Calls /\ ApartIn(call[t])
  BY DEF Inv, Types, Meets, Apart
<1>2. UNCHANGED <<table, made>> /\ UNCHANGED <<queues, unmet>>
  BY DEF ExitGet, WaitFault
<1>3. TableOnce'
  BY <1>2 DEF Meets, TableOnce
<1>4. CASE ExitGet(t)
  <2> DEFINE q == table[call[t].addr]
             l == IF q = 0 THEN "gone" ELSE "notify"
             n == IF q = 0 THEN 0 ELSE 1
             c == [call[t] EXCEPT !.pc = l, !.wq = q, !.left = n]
  <2>1. c.pc = l /\ c.wq2 = call[t].wq2 /\ c.addr = call[t].addr /\ c.addr2 = call[t].addr2
    BY <1>1 DEF Calls
  <2>2. call' = [call EXCEPT ![t] = c] /\ call[t].pc = "exit_get"
    BY <1>4 DEF ExitGet
  <2>3. l # "waiting" /\ l # "requeue_insert"
    OBVIOUS
  <2> HIDE DEF c, q, l, n
  <2>4. ApartIn(c)
    BY <1>1, <2>1, <2>3 DEF ApartIn
  <2> QED  BY Zenon, <1>2, <1>3, <2>1, <2>2, <2>3, <2>4, QuietMeets
<1>5. CASE WaitFault(t)
  <2> DEFINE c == [call[t] EXCEPT !.pc = "drop"]
  <2>1. c.pc = "drop" /\ c.wq2 = call[t].wq2 /\ c.addr = call[t].addr /\ c.addr2 = call[t].addr2
    BY <1>1 DEF Calls
  <2>2. call' = [call EXCEPT ![t] = c] /\ call[t].pc = "wait_block"
    BY <1>5 DEF WaitFault
  <2> HIDE DEF c
  <2>3. ApartIn(c)
    BY <1>1, <2>1 DEF ApartIn
  <2> QED  BY Zenon, <1>2, <1>3, <2>1, <2>2, <2>3, QuietMeets
<1> QED  BY Zenon, <1>4, <1>5

LEMMA DropMeets ==
  ASSUME Inv, Meets, NEW t \in Threads, Drop(t)
  PROVE  Meets'
<1> DEFINE c == call[t]
           l == IF c.exits THEN "gone" ELSE "user"
           return == [Idle EXCEPT !.pc = l]
           next == [c EXCEPT !.wq = 0]
<1>1. call \in [Threads -> Calls] /\ c \in Calls /\ ApartIn(c) /\ c.pc = "drop"
  BY DEF Inv, Types, Meets, Apart, Drop
<1>2. return.pc = l /\ return.wq2 = 0 /\ l \in {"gone", "user"}
  BY DEF Idle
<1>3. next.pc = c.pc /\ next.wq2 = c.wq2 /\ next.addr = c.addr /\ next.addr2 = c.addr2
  BY <1>1 DEF Calls
<1>4. UNCHANGED <<queues, made>> /\ unmet' = [unmet EXCEPT ![t] = {}]
  BY DEF Drop
<1>5. \E d \in {return, next} : call' = [call EXCEPT ![t] = d]
  BY Zenon DEF Drop
<1>6. table' = table \/ \E a : table' = [table EXCEPT ![a] = 0]
  BY DEF Drop, drop
<1> HIDE DEF return, next, l
<1>7. ApartIn(return) /\ ApartIn(next) /\ return.pc # "waiting" /\ next.pc # "waiting"
  BY <1>1, <1>2, <1>3 DEF ApartIn
<1>8. TableOnce'
  <2>1. table \in [Addrs -> Queues \cup {0}] /\ made \in Nat
    BY FutexAssumption DEF Inv, Types
  <2> QED  BY <1>4, <1>6, <2>1 DEF Meets, TableOnce
<1>9. PICK d \in {return, next} : call' = [call EXCEPT ![t] = d]
  BY Zenon, <1>5
<1>10. call'[t] = d /\ \A u \in Threads \ {t} : call'[u] = call[u] /\ unmet'[u] = unmet[u]
  BY <1>1, <1>4, <1>9 DEF Meets, Queued
<1>11. unmet' \in [Threads -> SUBSET Threads] /\ unmet'[t] = {}
  BY <1>4 DEF Meets, Queued
<1>12. DueOf(t)'
  BY <1>11 DEF DueOf
<1>13. ApartIn(call[t])' /\ call'[t].pc # "waiting"
  BY <1>7, <1>9, <1>10 DEF ApartIn
<1> QED  BY <1>1, <1>4, <1>8, <1>10, <1>11, <1>12, <1>13, RestMeets

(* A step that changes queues keeps the table, and takes no call on to a   *)
(* second address.                                                         *)
Onward(c, d) ==
  /\ d.addr = c.addr /\ d.addr2 = c.addr2 /\ d.wq2 = c.wq2 /\ d.wq = c.wq
  /\ d.pc \in {c.pc, "waiting", "drop"}

LEMMA QueueMeets ==
  ASSUME Meets, UNCHANGED <<table, made>>, \A u \in Threads : Onward(call[u], call'[u]),
         Queued', Due'
  PROVE  Meets'
<1>1. TableOnce'
  BY DEF Meets, TableOnce
<1>2. Apart'
  BY Zenon DEF Meets, Apart, ApartIn, Onward
<1> QED  BY <1>1, <1>2 DEF Meets

LEMMA PcOnly ==
  ASSUME Inv, NEW t \in Threads, NEW l \in {"waiting", "drop"},
         call' = [call EXCEPT ![t] = [@ EXCEPT !.pc = l]]
  PROVE  /\ call'[t].pc = l /\ \A u \in Threads \ {t} : call'[u] = call[u]
         /\ \A u \in Threads : Onward(call[u], call'[u])
<1> DEFINE c == [call[t] EXCEPT !.pc = l]
<1>1. call \in [Threads -> Calls] /\ call[t] \in Calls
  BY DEF Inv, Types
<1>2. c.pc = l /\ Onward(call[t], c)
  BY <1>1 DEF Calls, Onward
<1>3. call' = [call EXCEPT ![t] = c]
  OBVIOUS
<1> HIDE DEF c
<1>4. call'[t] = c /\ \A u \in Threads \ {t} : call'[u] = call[u]
  BY <1>1, <1>3
<1> QED  BY <1>2, <1>4 DEF Onward

LEMMA WaitBlockMeets ==
  ASSUME Inv, Meets, NEW t \in Threads, WaitBlock(t)
  PROVE  Meets'
<1>1. call[t] \in Calls /\ Guarded(call[t]) /\ call[t].pc = "wait_block"
  BY DEF Inv, Types, Guards, WaitBlock
<1>2. PICK q \in Queues : q = call[t].wq
  BY <1>1 DEF Calls, Guarded
<1> DEFINE s == Append(queues[q], t)
<1>3. /\ queues \in [Queues -> Seq(Threads)] /\ unmet \in [Threads -> SUBSET Threads]
      /\ queues[q] \in Seq(Threads) /\ OneEntry
  BY <1>2 DEF Meets, Queued
<1>4. \A r \in Queues : t \notin Waiters(r)
  BY Zenon, <1>1, <1>3 DEF OneEntry
<1>5. /\ s \in Seq(Threads) /\ Range(s) = Waiters(q) \cup {t} /\ IsInjective(s)
      /\ \A u, n : Within(queues[q], u, n) => Within(s, u, n)
  BY <1>2, <1>3, <1>4, AppendFacts DEF Waiters, OneEntry
<1>6. queues' = [queues EXCEPT ![q] = s] /\ UNCHANGED <<table, made>> /\ unmet' = unmet
  BY <1>2 DEF WaitBlock
<1> HIDE DEF s
<1>7. queues' \in [Queues -> Seq(Threads)] /\ queues'[q] = s
      /\ \A r \in Queues \ {q} : queues'[r] = queues[r]
  BY <1>2, <1>3, <1>5, <1>6
<1>8. /\ call'[t].pc = "waiting" /\ \A u \in Threads \ {t} : call'[u] = call[u]
      /\ \A u \in Threads : Onward(call[u], call'[u])
  BY Zenon, PcOnly DEF WaitBlock
<1>9. Waiters(q)' = Waiters(q) \cup {t} /\ \A r \in Queues \ {q} : Waiters(r)' = Waiters(r)
  BY <1>2, <1>5, <1>7 DEF Waiters
<1>10. OneEntry'
  <2>1. \A r \in Queues : IsInjective(queues'[r])
    BY Zenon, <1>3, <1>5, <1>7 DEF OneEntry
  <2>2. \A r, p \in Queues : r # p => Waiters(r)' \cap Waiters(p)' = {}
    BY <1>3, <1>4, <1>9 DEF OneEntry
  <2>3. \A u \in Threads \ {t} : \A r \in Queues : u \in Waiters(r)' <=> u \in Waiters(r)
    BY Zenon, <1>9
  <2>4. t \in Waiters(q)'
    BY Zenon, <1>9
  <2>5. ASSUME NEW u \in Threads
        PROVE  call'[u].pc = "waiting" <=> \E r \in Queues : u \in Waiters(r)'
    <3>1. CASE u = t
      BY <1>8, <2>4, <3>1
    <3>2. CASE u # t
      <4>1. call'[u] = call[u]
        BY <1>8, <3>2
      <4>2. \A r \in Queues : u \in Waiters(r)' <=> u \in Waiters(r)
        BY <2>3, <3>2
      <4> QED  BY Zenon, <1>3, <4>1, <4>2 DEF OneEntry
    <3> QED  BY <3>1, <3>2
  <2> QED  BY <2>1, <2>2, <2>5 DEF OneEntry
<1>11. Queued'
  BY <1>3, <1>6, <1>7, <1>10 DEF Queued
<1>12. Due'
  <2> SUFFICES ASSUME NEW v \in Threads, NEW u \in unmet[v]
               PROVE  call'[v].pc = "notify" /\ Within(queues'[call'[v].wq], u, call'[v].left)
    BY <1>6 DEF Due, DueOf
  <2>1. call[v].pc = "notify" /\ Within(queues[call[v].wq], u, call[v].left)
    BY DEF Meets, Due, DueOf
  <2>2. call'[v] = call[v] /\ call[v].wq \in Queues
    <3>1. call[v] \in Calls /\ Guarded(call[v])
      BY DEF Inv, Types, Guards
    <3> QED  BY <1>1, <1>8, <2>1, <3>1 DEF Calls, Guarded
  <2> QED  BY Zenon, <1>5, <1>7, <2>1, <2>2
<1> QED  BY <1>6, <1>8, <1>11, <1>12, QueueMeets

(* A waiter leaves its queue at its timeout.                               *)
LEMMA TimeoutMeets ==
  ASSUME Inv, Meets, NEW t \in Threads, Timeout(t)
  PROVE  Meets'
<1>1. /\ queues \in [Queues -> Seq(Threads)] /\ unmet \in [Threads -> SUBSET Threads]
      /\ OneEntry /\ call[t].pc = "waiting"
  BY Zenon DEF Meets, Queued, Timeout
<1>2. PICK q \in Queues : t \in Waiters(q)
  BY <1>1 DEF OneEntry
<1>3. \A r \in Queues \ {q} : t \notin Waiters(r)
  BY <1>1, <1>2 DEF OneEntry
<1> DEFINE s == Without(queues[q], t)
<1>4. /\ s \in Seq(Threads) /\ Range(s) = Waiters(q) \ {t} /\ IsInjective(s)
      /\ \A u : \A n \in Nat : Within(queues[q], u, n) /\ u # t => Within(s, u, n)
  BY <1>1, <1>2, WithoutFacts DEF Waiters, OneEntry
<1>5. /\ queues' = [r \in Queues |-> IF t \in Waiters(r) THEN Without(queues[r], t) ELSE queues[r]]
      /\ UNCHANGED <<table, made>> /\ unmet' = [u \in Threads |-> unmet[u] \ {t}]
  BY Zenon DEF Timeout, Left
<1>6. /\ queues' \in [Queues -> Seq(Threads)] /\ queues'[q] = s
      /\ \A r \in Queues \ {q} : queues'[r] = queues[r]
  <2>1. queues'[q] = s
    BY <1>2, <1>5
  <2>2. \A r \in Queues \ {q} : queues'[r] = queues[r]
    BY <1>3, <1>5
  <2>3. queues' = [r \in Queues |-> queues'[r]]
    BY <1>5
  <2> HIDE DEF s
  <2>4. \A r \in Queues : queues'[r] \in Seq(Threads)
    BY <1>1, <1>4, <2>1, <2>2
  <2> QED  BY <2>1, <2>2, <2>3, <2>4
<1> HIDE DEF s
<1>7. /\ call'[t].pc = "drop" /\ \A u \in Threads \ {t} : call'[u] = call[u]
      /\ \A u \in Threads : Onward(call[u], call'[u])
  BY Zenon, PcOnly DEF Timeout
<1>8. Waiters(q)' = Waiters(q) \ {t} /\ \A r \in Queues \ {q} : Waiters(r)' = Waiters(r)
  BY <1>2, <1>4, <1>6 DEF Waiters
<1>9. OneEntry'
  <2>1. \A r \in Queues : IsInjective(queues'[r])
    BY Zenon, <1>1, <1>4, <1>6 DEF OneEntry
  <2>2. \A r, p \in Queues : r # p => Waiters(r)' \cap Waiters(p)' = {}
    BY <1>1, <1>8 DEF OneEntry
  <2>3. \A u \in Threads : \A r \in Queues : u \in Waiters(r)' <=> u # t /\ u \in Waiters(r)
    BY Zenon, <1>3, <1>8
  <2>4. \A u \in Threads : call'[u].pc = "waiting" <=> u # t /\ call[u].pc = "waiting"
    BY Zenon, <1>7
  <2>5. \A u \in Threads : call'[u].pc = "waiting" <=> \E r \in Queues : u \in Waiters(r)'
    BY Zenon, <1>1, <2>3, <2>4 DEF OneEntry
  <2> QED  BY <2>1, <2>2, <2>5 DEF OneEntry
<1>10. Queued'
  BY <1>1, <1>5, <1>6, <1>9 DEF Queued
<1>11. Due'
  <2> SUFFICES ASSUME NEW v \in Threads, NEW u \in unmet'[v]
               PROVE  call'[v].pc = "notify" /\ Within(queues'[call'[v].wq], u, call'[v].left)
    BY DEF Due, DueOf
  <2>1. u \in unmet[v] /\ u # t
    BY <1>5
  <2>2. call[v].pc = "notify" /\ Within(queues[call[v].wq], u, call[v].left)
    BY <2>1 DEF Meets, Due, DueOf
  <2>3. call'[v] = call[v] /\ call[v].wq \in Queues /\ call[v].left \in Nat
    <3>1. call[v] \in Calls /\ Guarded(call[v])
      BY Zenon DEF Inv, Types, Guards
    <3> QED  BY <1>1, <1>7, <2>2, <3>1, FutexAssumption DEF Calls, Guarded
  <2> QED  BY Zenon, <1>4, <1>6, <2>1, <2>2, <2>3
<1> QED  BY <1>5, <1>7, <1>10, <1>11, QueueMeets

LEMMA NotifyMeets ==
  ASSUME Inv, Meets, NEW t \in Threads, Notify(t)
  PROVE  Meets'
<1>1. /\ call[t] \in Calls /\ Guarded(call[t]) /\ call[t].pc = "notify"
      /\ queues[call[t].wq] # <<>> /\ call \in [Threads -> Calls]
  BY Zenon DEF Inv, Types, Guards, Notify
<1>2. PICK q \in Queues : q = call[t].wq
  BY <1>1 DEF Calls, Guarded
<1> DEFINE h == Head(queues[q])
           s == Tail(queues[q])
           n(v) == IF v = t THEN call[v].left - 1 ELSE call[v].left
           l(v) == IF v = h THEN "drop" ELSE call[v].pc
           c(v) == [call[v] EXCEPT !.left = n(v), !.pc = l(v)]
<1>3. /\ queues \in [Queues -> Seq(Threads)] /\ unmet \in [Threads -> SUBSET Threads]
      /\ queues[q] \in Seq(Threads) /\ OneEntry
  BY Zenon, <1>2 DEF Meets, Queued
<1>4. /\ s \in Seq(Threads) /\ h \in Waiters(q) /\ IsInjective(s) /\ Range(s) = Waiters(q) \ {h}
      /\ \A u : \A m \in Nat : Within(queues[q], u, m) /\ u # h => Within(s, u, m - 1)
  BY <1>1, <1>2, <1>3, TailFacts DEF Waiters, OneEntry
<1>5. /\ queues' = [queues EXCEPT ![q] = s] /\ UNCHANGED <<table, made>>
      /\ unmet' = [u \in Threads |-> unmet[u] \ {h}]
  BY Zenon, <1>2 DEF Notify, Left
<1>6. call' = [v \in Threads |-> c(v)]
  BY Zenon, <1>2 DEF Notify
<1> HIDE DEF s, h
<1>7. h \in Threads /\ call[h].pc = "waiting" /\ h # t
  <2>1. h \in Threads
    BY <1>3, <1>4 DEF Waiters, Range
  <2> QED  BY <1>1, <1>2, <1>3, <1>4, <2>1 DEF OneEntry
<1>8. \A r \in Queues \ {q} : h \notin Waiters(r)
  BY Zenon, <1>2, <1>3, <1>4 DEF OneEntry
<1>9. /\ queues' \in [Queues -> Seq(Threads)] /\ queues'[q] = s
      /\ \A r \in Queues \ {q} : queues'[r] = queues[r]
  BY <1>2, <1>3, <1>4, <1>5
<1>10. ASSUME NEW v \in Threads
       PROVE  /\ call'[v].pc = l(v) /\ call'[v].left = n(v) /\ call'[v].wq = call[v].wq
              /\ Onward(call[v], call'[v])
  <2>1. call[v] \in Calls /\ call'[v] = c(v)
    BY Zenon, <1>1, <1>6
  <2>2. /\ c(v).pc = l(v) /\ c(v).left = n(v) /\ c(v).addr = call[v].addr /\ c(v).wq = call[v].wq
        /\ c(v).addr2 = call[v].addr2 /\ c(v).wq2 = call[v].wq2
    <3> HIDE DEF l, n
    <3> QED  BY <2>1 DEF Calls
  <2>3. l(v) \in {call[v].pc, "drop"}
    OBVIOUS
  <2> HIDE DEF c, l, n
  <2> QED  BY <2>1, <2>2, <2>3 DEF Onward
<1> HIDE DEF c
<1>11. Waiters(q)' = Waiters(q) \ {h} /\ \A r \in Queues \ {q} : Waiters(r)' = Waiters(r)
  BY <1>2, <1>4, <1>9 DEF Waiters
<1>12. OneEntry'
  <2>1. \A r \in Queues : IsInjective(queues'[r])
    BY Zenon, <1>3, <1>4, <1>9 DEF OneEntry
  <2>2. \A r, p \in Queues : r # p => Waiters(r)' \cap Waiters(p)' = {}
    <3>1. \A r \in Queues : Waiters(r)' \subseteq Waiters(r)
      BY <1>11
    <3>2. \A r, p \in Queues : r # p => Waiters(r) \cap Waiters(p) = {}
      BY <1>3 DEF OneEntry
    <3> QED  BY <3>1, <3>2
  <2>3. \A u \in Threads : call'[u].pc = "waiting" <=> u # h /\ call[u].pc = "waiting"
    BY <1>10
  <2>4. \A u \in Threads : \A r \in Queues : u \in Waiters(r)' <=> u # h /\ u \in Waiters(r)
    BY <1>8, <1>11
  <2>5. \A u \in Threads : call'[u].pc = "waiting" <=> \E r \in Queues : u \in Waiters(r)'
    BY Zenon, <1>3, <2>3, <2>4 DEF OneEntry
  <2> QED  BY Zenon, <2>1, <2>2, <2>5 DEF OneEntry
<1>13. Queued'
  BY <1>3, <1>5, <1>9, <1>12 DEF Queued
<1>14. Due'
  <2> SUFFICES ASSUME NEW v \in Threads, NEW u \in unmet'[v]
               PROVE  call'[v].pc = "notify" /\ Within(queues'[call'[v].wq], u, call'[v].left)
    BY Zenon DEF Due, DueOf
  <2>1. u \in unmet[v] /\ u # h
    BY <1>5
  <2>2. call[v].pc = "notify" /\ Within(queues[call[v].wq], u, call[v].left)
    BY <2>1 DEF Meets, Due, DueOf
  <2>3. v # h /\ call'[v].pc = "notify" /\ call'[v].wq = call[v].wq
    BY <1>7, <1>10, <2>2
  <2>4. call[v].wq \in Queues /\ call[v].left \in Nat
    <3>1. call[v] \in Calls /\ Guarded(call[v])
      BY Zenon DEF Inv, Types, Guards
    <3> QED  BY <2>2, <3>1, FutexAssumption DEF Calls, Guarded
  <2>5. CASE call[v].wq = q
    <3>1. Within(s, u, call[v].left - 1)
      BY Zenon, <1>4, <2>1, <2>2, <2>4, <2>5
    <3>2. n(v) \in Int /\ call[v].left - 1 <= n(v)
      BY <2>4
    <3>3. DOMAIN s \subseteq Nat
      BY <1>4
    <3>4. Within(s, u, n(v))
      <4> HIDE DEF n
      <4> QED  BY <2>4, <3>1, <3>2, <3>3 DEF Within
    <3> QED  BY Zenon, <1>9, <1>10, <2>3, <2>5, <3>4
  <2>6. CASE call[v].wq # q
    <3>1. call'[v].left = call[v].left
      BY <1>2, <1>10, <2>6
    <3>2. queues'[call[v].wq] = queues[call[v].wq]
      BY <1>9, <2>4, <2>6
    <3> QED  BY <2>2, <2>3, <3>1, <3>2
  <2> QED  BY <2>5, <2>6
<1> QED  BY <1>5, <1>10, <1>13, <1>14, QueueMeets

LEMMA NotifyEndMeets ==
  ASSUME Inv, Meets, NEW t \in Threads, NotifyEnd(t)
  PROVE  Meets'
<1> DEFINE c == call[t]
           k == IF c.left = 0 THEN Smaller(c.move, Len(queues[c.wq])) ELSE 0
           a == SubSeq(queues[c.wq], 1, k)
           b == SubSeq(queues[c.wq], k + 1, Len(queues[c.wq]))
           s == queues[c.wq2] \o a
<1>1. /\ c \in Calls /\ Guarded(c) /\ ApartIn(c) /\ c.pc = "notify"
      /\ c.left = 0 \/ queues[c.wq] = <<>>
  BY Zenon DEF Inv, Types, Guards, Meets, Apart, NotifyEnd
<1>2. c.wq \in Queues /\ c.move \in Nat /\ c.wq2 \in Queues \cup {0}
  BY <1>1, FutexAssumption DEF Calls, Guarded
<1>3. /\ queues \in [Queues -> Seq(Threads)] /\ unmet \in [Threads -> SUBSET Threads]
      /\ queues[c.wq] \in Seq(Threads) /\ OneEntry
  BY Zenon, <1>2 DEF Meets, Queued
<1>4. /\ call'[t].pc = "drop" /\ \A u \in Threads \ {t} : call'[u] = call[u]
      /\ \A u \in Threads : Onward(call[u], call'[u])
  BY Zenon, PcOnly DEF NotifyEnd
<1>5. \A u \in Threads : call'[u].pc = "waiting" <=> call[u].pc = "waiting"
  BY <1>1, <1>4
<1>6. unmet[t] = {}
  <2>1. \A u : ~ Within(queues[c.wq], u, c.left)
    <3>1. DOMAIN queues[c.wq] = 1..Len(queues[c.wq]) /\ Len(queues[c.wq]) \in Nat
      BY <1>3
    <3> QED  BY <1>1, <3>1 DEF Within
  <2> QED  BY <2>1 DEF Meets, Due, DueOf
<1>7. CASE c.wq2 = 0
  <2>1. UNCHANGED <<queues, unmet, table, made>>
    BY <1>7 DEF NotifyEnd
  <2>2. OneEntry'
    BY Zenon, <1>3, <1>5, <2>1 DEF OneEntry, Waiters
  <2>3. Queued'
    BY <1>3, <2>1, <2>2 DEF Queued
  <2>4. Due'
    BY Zenon, <1>4, <1>6, <2>1 DEF Meets, Due, DueOf
  <2> QED  BY <1>4, <2>1, <2>3, <2>4, QueueMeets
<1>8. CASE c.wq2 # 0
  <2>1. c.wq2 \in Queues /\ c.wq # c.wq2
    BY <1>1, <1>2, <1>8 DEF Guarded, ApartIn, Meets, TableOnce
  <2>2. k \in 0..Len(queues[c.wq])
    BY <1>2, <1>3 DEF Smaller
  <2>3. /\ UNCHANGED <<table, made>> /\ unmet' = [u \in Threads |-> unmet[u] \ Range(a)]
        /\ queues' = [queues EXCEPT ![c.wq] = b, ![c.wq2] = s]
    BY Zenon, <1>8 DEF NotifyEnd, Left
  <2> HIDE DEF k
  <2>4. /\ a \in Seq(Threads) /\ b \in Seq(Threads) /\ Waiters(c.wq) = Range(a) \cup Range(b)
        /\ IsInjective(a) /\ IsInjective(b) /\ Range(a) \cap Range(b) = {}
        /\ \A u : \A n \in Nat : Within(queues[c.wq], u, n) /\ u \notin Range(a) => Within(b, u, n)
    BY <1>2, <1>3, <2>2, SubSeqFacts DEF Waiters, OneEntry
  <2> HIDE DEF a, b
  <2>5. queues[c.wq2] \in Seq(Threads) /\ Waiters(c.wq2) \cap Range(a) = {} /\ IsInjective(queues[c.wq2])
    BY <1>2, <1>3, <2>1, <2>4 DEF OneEntry
  <2>6. /\ s \in Seq(Threads) /\ Range(s) = Waiters(c.wq2) \cup Range(a) /\ IsInjective(s)
        /\ \A u : \A n \in Nat : Within(queues[c.wq2], u, n) => Within(s, u, n)
    BY <2>4, <2>5, ConcatFacts DEF Waiters
  <2> HIDE DEF s
  <2>7. /\ queues' \in [Queues -> Seq(Threads)] /\ queues'[c.wq] = b /\ queues'[c.wq2] = s
        /\ \A r \in Queues \ {c.wq, c.wq2} : queues'[r] = queues[r]
    BY Zenon, <1>2, <1>3, <2>1, <2>3, <2>4, <2>6
  <2>8. OneEntry'
    <3>1. \A r \in Queues : IsInjective(queues'[r])
      BY Zenon, <1>3, <2>4, <2>6, <2>7 DEF OneEntry
    <3> DEFINE W(r) == Range(queues[r])
               X(r) == Range(queues'[r])
    <3>2. \A r, p \in Queues : r # p => W(r) \cap W(p) = {}
      BY Zenon, <1>3 DEF OneEntry, Waiters
    <3>3. /\ W(c.wq) = Range(a) \cup Range(b) /\ X(c.wq) = Range(b) /\ X(c.wq2) = W(c.wq2) \cup Range(a)
          /\ \A r \in Queues \ {c.wq, c.wq2} : X(r) = W(r)
      BY Zenon, <2>4, <2>6, <2>7 DEF Waiters
    <3> HIDE DEF W, X
    <3>4. \A r, p \in Queues : r # p => X(r) \cap X(p) = {}
      BY <1>2, <2>1, <2>4, <3>2, <3>3
    <3>5. \A u : (\E r \in Queues : u \in X(r)) <=> \E r \in Queues : u \in W(r)
      BY <1>2, <2>1, <3>3
    <3>6. \A u \in Threads : call'[u].pc = "waiting" <=> \E r \in Queues : u \in Waiters(r)'
      BY Zenon, <1>3, <1>5, <3>5 DEF OneEntry, Waiters, W, X
    <3> QED  BY Zenon, <3>1, <3>4, <3>6 DEF OneEntry, Waiters, X
  <2>9. Queued'
    BY <1>3, <2>3, <2>7, <2>8 DEF Queued
  <2>10. Due'
    <3> SUFFICES ASSUME NEW v \in Threads, NEW u \in unmet'[v]
                 PROVE  call'[v].pc = "notify" /\ Within(queues'[call'[v].wq], u, call'[v].left)
      BY DEF Due, DueOf
    <3>1. u \in unmet[v] /\ u \notin Range(a)
      BY <2>3
    <3>2. call[v].pc = "notify" /\ Within(queues[call[v].wq], u, call[v].left)
      BY <3>1 DEF Meets, Due, DueOf
    <3>3. v # t /\ call'[v] = call[v]
      BY <1>4, <1>6, <3>1
    <3>4. call[v].wq \in Queues /\ call[v].left \in Nat
      <4>1. call[v] \in Calls /\ Guarded(call[v])
        BY Zenon DEF Inv, Types, Guards
      <4> QED  BY <3>2, <4>1, FutexAssumption DEF Calls, Guarded
    <3> QED  BY Zenon, <2>4, <2>6, <2>7, <3>1, <3>2, <3>3, <3>4
  <2> QED  BY <1>4, <2>3, <2>9, <2>10, QueueMeets
<1> QED  BY <1>7, <1>8

LEMMA NextMeets ==
  ASSUME Inv, Meets, [Next]_vars
  PROVE  Meets'
<1>1. CASE UNCHANGED vars
  BY Zenon, <1>1 DEF vars, Meets, Queued, OneEntry, Waiters, TableOnce, Apart, ApartIn, Due, DueOf
<1>2. ASSUME NEW t \in Threads, Begin(t) \/ Continue(t) \/ WaitFault(t) \/ Timeout(t)
      PROVE  Meets'
  BY <1>2, BeginMeets, InsertMeets, OtherMeets, WaitBlockMeets, TimeoutMeets, NotifyMeets,
     NotifyEndMeets, DropMeets DEF Continue
<1> QED  BY <1>1, <1>2 DEF Next

-----------------------------------------------------------------------------
LEMMA InvReachable == Inv => Reachable
  BY DEF Inv, Guards, Guarded, Filled, InTable, Reachable

(* In every state the guards are for the queues of the table, and a queue  *)
(* that has waiters is in the table.                                       *)
THEOREM SpecInv == Spec => []Inv
<1>1. Inv /\ [Next]_vars => Inv'
  BY Zenon, NextInv
<1> QED  BY InitInv, <1>1, PTL DEF Spec

(* A thread that waits, or that holds a guard and is about to, is in a     *)
(* queue that FutexTable::get finds: no WaitQueueGuard::drop removes the   *)
(* entry from under it, whatever the other threads do.                     *)
THEOREM WaitersAreReachable == Spec => []Reachable
  BY SpecInv, InvReachable, PTL

(* No call removes or replaces an entry of the futex table: when a guard   *)
(* is dropped its own reference is still counted, so the count that        *)
(* WaitQueueGuard::drop compares with 1 is at least 2.                     *)
THEOREM EntriesAreKept == Spec => [][EntriesStay]_vars
<1>1. Inv /\ [Next]_vars => [EntriesStay]_vars
  BY NextInv
<1> QED  BY SpecInv, <1>1, PTL DEF Spec

(* In every state the threads have the entries their calls say, and a wake *)
(* has as many wakeups left as it needs for the threads it found waiting.  *)
THEOREM SpecMeets == Spec => []Meets
<1>1. Inv /\ Meets /\ [Next]_vars => Meets'
  BY NextMeets
<1> QED  BY SpecInv, InitMeets, <1>1, PTL DEF Spec

(* A blocked thread has exactly one entry in all the queues and any other  *)
(* thread has none, through every order of wakes, requeues and timeouts.   *)
THEOREM BlockedHaveOneEntry == Spec => []OneEntry
<1>1. Meets => OneEntry
  BY DEF Meets, Queued
<1> QED  BY SpecMeets, <1>1, PTL

(* A FUTEX_WAKE that asks for at least as many threads as it found in the  *)
(* queue leaves none of them waiting there.                                *)
THEOREM WakesMeetWaiters == Spec => []WakeMeetsWaiters
<1>1. Meets => WakeMeetsWaiters
  BY Zenon DEF Meets, Due, DueOf, WakeMeetsWaiters
<1> QED  BY SpecMeets, <1>1, PTL
=============================================================================
