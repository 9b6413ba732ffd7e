-------------------------------- MODULE Pipe --------------------------------
(***************************************************************************)
(* api/src/file/pipe.rs: a ring buffer of RING_BUFFER_SIZE bytes behind a  *)
(* mutex, shared by the Pipe object of the read end and that of the write  *)
(* end.  Threads read and write through descriptors that are duplicated    *)
(* and closed meanwhile; a call keeps its end alive by the Arc it took     *)
(* from the descriptor table.  A step is what happens between two          *)
(* operations on the mutex, or the transfer of one byte.                   *)
(***************************************************************************)
EXTENDS Integers, Sequences, FiniteSets

CONSTANTS RING_BUFFER_SIZE,
          Readers, Writers,   \* threads that use either end
          NoThread,           \* nobody holds the mutex
          MaxLen,             \* bound: bytes asked for in one call
          MaxBytes,           \* bound: bytes all writes ask for
          MaxRefs             \* bound: descriptors of one end

ASSUME PipeAssumption ==
  /\ {RING_BUFFER_SIZE, MaxLen, MaxBytes, MaxRefs} \subseteq Nat \ {0}
  /\ Readers \cap Writers = {}
  /\ NoThread \notin Readers \cup Writers

VARIABLES arr, head, tail, status,  \* PipeRingBuffer
          lock,     \* holder of the buffer's mutex
          refs,     \* descriptors that refer to each end
          pc,       \* where in read or write a thread is
          todo,     \* bytes the call still has to move
          left,     \* bytes it may still move before it looks again
          asked,    \* bytes all calls of write asked for
          written,  \* bytes ever written: the value of the newest byte
          taken,    \* bytes ever read
          eof       \* some read has returned 0

bufVars == <<arr, head, tail, status>>
fdVars == <<lock, refs, pc, todo, left>>
countVars == <<asked, written, taken, eof>>
vars == <<bufVars, fdVars, countVars>>

Threads == Readers \cup Writers
Slots == 0..(RING_BUFFER_SIZE - 1)
Ends == {"r", "w"}
EndOf(t) == IF t \in Readers THEN "r" ELSE "w"

(* An end exists while a descriptor or a running call refers to it; closed *)
(* asks whether the other end is gone (Arc::strong_count = 1).             *)
Exists(e) == refs[e] > 0 \/ \E t \in Threads : EndOf(t) = e /\ pc[t] # "user"
Closed(e) == ~Exists(IF e = "r" THEN "w" ELSE "r")

-----------------------------------------------------------------------------
(* PipeRingBuffer *)

(* Variant: a full buffer, where tail has caught up with head, looks empty. *)
available_read_full_is_empty ==
  IF status = "Empty" THEN 0
  ELSE IF tail >= head THEN tail - head
  ELSE tail + RING_BUFFER_SIZE - head

available_read ==
  IF status = "Empty" THEN 0
  ELSE IF tail > head THEN tail - head
  ELSE tail + RING_BUFFER_SIZE - head

available_write ==
  IF status = "Full" THEN 0 ELSE RING_BUFFER_SIZE - available_read

write_byte(byte) ==
  /\ arr' = [arr EXCEPT ![tail] = byte]
  /\ tail' = (tail + 1) % RING_BUFFER_SIZE
  /\ status' = IF tail' = head THEN "Full" ELSE "Normal"
  /\ UNCHANGED head

read_byte ==
  /\ head' = (head + 1) % RING_BUFFER_SIZE
  /\ status' = IF head' = tail THEN "Empty" ELSE "Normal"
  /\ UNCHANGED <<arr, tail>>

-----------------------------------------------------------------------------
(* Pipe::read and Pipe::write.  A turn of the loop that finds nothing to   *)
(* do drops the mutex and yields: it changes nothing and is not a step.    *)

Start(t, n) ==
  /\ pc[t] = "user"
  /\ refs[EndOf(t)] > 0
  /\ pc' = [pc EXCEPT ![t] = "loop"]
  /\ todo' = [todo EXCEPT ![t] = n]
  /\ UNCHANGED <<bufVars, lock, refs, left, written, taken, eof>>

Return(t) ==
  /\ pc' = [pc EXCEPT ![t] = "user"]
  /\ todo' = [todo EXCEPT ![t] = 0]
  /\ left' = [left EXCEPT ![t] = 0]
  /\ lock' = NoThread

(* The call takes the mutex and keeps it to move up to n bytes.            *)
Copy(t, n) ==
  /\ lock' = t
  /\ pc' = [pc EXCEPT ![t] = "copy"]
  /\ left' = [left EXCEPT ![t] = n]
  /\ UNCHANGED <<bufVars, refs, todo, countVars>>

Min(a, b) == IF a <= b THEN a ELSE b

(* Variant: a read starts the transfer without taking the mutex.           *)
ReadLoopUnlocked(r) ==
  /\ pc[r] = "loop"
  /\ available_read > 0
  /\ pc' = [pc EXCEPT ![r] = "copy"]
  /\ left' = [left EXCEPT ![r] = Min(available_read, todo[r])]
  /\ UNCHANGED <<bufVars, lock, refs, todo, countVars>>

(* read: the size of the transfer is fixed when the mutex is taken.        *)
ReadLoop(r) ==
  /\ pc[r] = "loop"
  /\ lock = NoThread
  /\ available_read > 0
  /\ Copy(r, Min(available_read, todo[r]))

(* Variant: an empty buffer is taken for the end of the file.              *)
ReadEofAnyway(r) ==
  /\ pc[r] = "loop"
  /\ lock = NoThread
  /\ available_read = 0
  /\ eof' = TRUE
  /\ Return(r)
  /\ UNCHANGED <<bufVars, refs, asked, written, taken>>

(* read returns 0: nothing to read, and the write end is gone.             *)
ReadEof(r) ==
  /\ pc[r] = "loop"
  /\ lock = NoThread
  /\ available_read = 0
  /\ Closed("r")
  /\ eof' = TRUE
  /\ Return(r)
  /\ UNCHANGED <<bufVars, refs, asked, written, taken>>

ReadByte(r) ==
  /\ pc[r] = "copy"
  /\ read_byte
  /\ taken' = taken + 1
  /\ IF left[r] = 1 THEN Return(r)
     ELSE /\ left' = [left EXCEPT ![r] = @ - 1]
          /\ UNCHANGED <<lock, pc, todo>>
  /\ UNCHANGED <<refs, asked, written, eof>>

ReadStart(r, n) == Start(r, n) /\ UNCHANGED asked

(* write: EPIPE when the read end is gone before the call starts.          *)
WriteStart(w, n) ==
  /\ ~Closed("w")
  /\ asked + n <= MaxBytes
  /\ asked' = asked + n
  /\ Start(w, n)

WriteLoop(w) ==
  /\ pc[w] = "loop"
  /\ lock = NoThread
  /\ available_write > 0
  /\ Copy(w, available_write)

(* Variant: a full buffer is always waited for.                            *)
WriteClosedNever(w) ==
  /\ pc[w] = "loop"
  /\ available_write = 0
  /\ Exists("r") /\ Closed("w")
  /\ Return(w)
  /\ UNCHANGED <<bufVars, refs, countVars>>

(* write gives up, with what it has written, when the buffer is full and   *)
(* the read end is gone.                                                   *)
WriteClosed(w) ==
  /\ pc[w] = "loop"
  /\ lock = NoThread
  /\ available_write = 0
  /\ Closed("w")
  /\ Return(w)
  /\ UNCHANGED <<bufVars, refs, countVars>>

(* One turn of the inner loop: a byte, or the return once all are written. *)
(* When the space runs out the mutex is dropped and the loop starts over,  *)
(* even if the last byte was the last one to write.                        *)
WriteByte(w) ==
  /\ pc[w] = "copy"
  /\ todo[w] > 0
  /\ write_byte(written + 1)
  /\ written' = written + 1
  /\ todo' = [todo EXCEPT ![w] = @ - 1]
  /\ left' = [left EXCEPT ![w] = @ - 1]
  /\ IF left[w] = 1 THEN /\ pc' = [pc EXCEPT ![w] = "loop"]
                         /\ lock' = NoThread
     ELSE UNCHANGED <<pc, lock>>
  /\ UNCHANGED <<refs, asked, taken, eof>>

WriteDone(w) ==
  /\ pc[w] = "copy"
  /\ todo[w] = 0
  /\ Return(w)
  /\ UNCHANGED <<bufVars, refs, countVars>>

(* Variant: a descriptor that is closed can be duplicated.                 *)
DupClosed(e) ==
  /\ refs[e] \in 0..(MaxRefs - 1)
  /\ refs' = [refs EXCEPT ![e] = @ + 1]
  /\ UNCHANGED <<bufVars, lock, pc, todo, left, countVars>>

(* dup and fork make another descriptor of an end, close drops one.        *)
Dup(e) ==
  /\ refs[e] \in 1..(MaxRefs - 1)
  /\ refs' = [refs EXCEPT ![e] = @ + 1]
  /\ UNCHANGED <<bufVars, lock, pc, todo, left, countVars>>

Close(e) ==
  /\ refs[e] > 0
  /\ refs' = [refs EXCEPT ![e] = @ - 1]
  /\ UNCHANGED <<bufVars, lock, pc, todo, left, countVars>>

-----------------------------------------------------------------------------
(* Pipe::new *)
Init ==
  /\ arr = [i \in Slots |-> 0]
  /\ head = 0 /\ tail = 0 /\ status = "Empty"
  /\ lock = NoThread
  /\ refs = [e \in Ends |-> 1]
  /\ pc = [t \in Threads |-> "user"]
  /\ todo = [t \in Threads |-> 0]
  /\ left = [t \in Threads |-> 0]
  /\ asked = 0 /\ written = 0 /\ taken = 0 /\ eof = FALSE

Read(r) == ReadLoop(r) \/ ReadEof(r) \/ ReadByte(r)
Write(w) == WriteLoop(w) \/ WriteClosed(w) \/ WriteByte(w) \/ WriteDone(w)

Next ==
  \/ \E r \in Readers : Read(r) \/ \E n \in 1..MaxLen : ReadStart(r, n)
  \/ \E w \in Writers : Write(w) \/ \E n \in 1..MaxLen : WriteStart(w, n)
  \/ \E e \in Ends : Dup(e) \/ Close(e)

Spec == Init /\ [][Next]_vars

(* The scheduler keeps running every thread that is inside a call: a turn  *)
(* of the loop ends in yield_now, and the mutex wakes who waits for it.    *)
Fairness ==
  /\ \A r \in Readers : WF_vars(Read(r))
  /\ \A w \in Writers : WF_vars(Write(w))

FairSpec == Spec /\ Fairness

-----------------------------------------------------------------------------
(* Every variable has the type of its declaration.                         *)
TypeOK ==
  /\ arr \in [Slots -> Nat]
  /\ head \in Slots /\ tail \in Slots
  /\ status \in {"Full", "Empty", "Normal"}
  /\ lock \in Threads \cup {NoThread}
  /\ refs \in [Ends -> Nat]
  /\ pc \in [Threads -> {"user", "loop", "copy"}]
  /\ todo \in [Threads -> Nat]
  /\ left \in [Threads -> Nat]
  /\ asked \in Nat /\ written \in Nat /\ taken \in Nat
  /\ eof \in BOOLEAN

(* The bytes from head to tail, oldest first.                              *)
Contents ==
  [i \in 1..available_read |-> arr[(head + i - 1) % RING_BUFFER_SIZE]]

(* The buffer holds exactly the bytes written and not yet read, in the     *)
(* order of writing, whichever way the indices have wrapped and however    *)
(* calls interleave: read_byte yields byte taken + 1 next.                 *)
InOrder ==
  /\ written = taken + available_read
  /\ \A i \in 1..available_read : Contents[i] = taken + i

(* A thread moves bytes only under the mutex, and never more than there    *)
(* are to read or room for, although the amount was fixed when the mutex   *)
(* was taken: no read of an empty buffer, no write over unread bytes.      *)
TransferFits ==
  \A t \in Threads : pc[t] = "copy" =>
    /\ lock = t
    /\ left[t] \in 1..(IF t \in Readers THEN available_read
                                       ELSE available_write)

(* After a read has returned 0 the write end is gone for good and nothing  *)
(* written has been left unread: end of file is never reported early.      *)
EofIsFinal == eof => taken = written /\ ~Exists("w")

(* The pipe implements the bounded queue of PipeFifo.                      *)
Fifo == INSTANCE PipeFifo WITH
          Capacity <- RING_BUFFER_SIZE,
          queue <- Contents,
          writer <- Exists("w")

ImplementsFifo == Fifo!FifoSpec

(* A read that waits returns once the write end is gone, and a write that  *)
(* waits returns once the read end is gone: the loops look again and       *)
(* again.                                                                  *)
BlockedReturns ==
  /\ \A r \in Readers : pc[r] # "user" /\ ~Exists("w") ~> pc[r] = "user"
  /\ \A w \in Writers : pc[w] # "user" /\ ~Exists("r") ~> pc[w] = "user"
==============================================================================
