----------------------------- MODULE PipeProofs -----------------------------
(***************************************************************************)
(* Proofs about Pipe for every buffer size and any set of readers and      *)
(* writers.  The inductive invariant adds to the checked invariants that   *)
(* status tells an empty buffer from a full one exactly when the indices   *)
(* coincide, and that a read that is looking for bytes still wants some.   *)
(***************************************************************************)
EXTENDS Pipe, SequenceTheorems, TLAPS

(* status is Normal exactly when the indices differ.                       *)
Ring == status = "Normal" <=> head # tail

Asking == \A r \in Readers : pc[r] = "loop" => todo[r] > 0

IInv == TypeOK /\ Ring /\ Asking /\ InOrder /\ TransferFits /\ EofIsFinal

-----------------------------------------------------------------------------
(* Remainders of the sums that index the buffer.                           *)

(* Below the size, the remainder is the number itself.                     *)
LEMMA ModSmall ==
  ASSUME NEW S \in Nat \ {0}, NEW x \in 0..(S - 1) PROVE x % S = x
  OBVIOUS

(* Within one turn past the size, the remainder is the excess.             *)
LEMMA ModWrap ==
  ASSUME NEW S \in Nat \ {0}, NEW x \in S..(2 * S - 1) PROVE x % S = x - S
  OBVIOUS

(* The step of either index, (x + 1) % RING_BUFFER_SIZE.                   *)
LEMMA ModStep ==
  ASSUME NEW S \in Nat \ {0}, NEW x \in 0..(S - 1)
  PROVE  (x + 1) % S = IF x + 1 = S THEN 0 ELSE x + 1
  BY ModSmall, ModWrap

(* The i-th byte after head, for the i's that stay within one turn.        *)
LEMMA ModIndex ==
  ASSUME NEW S \in Nat \ {0}, NEW x \in 0..(S - 1), NEW i \in 1..S
  PROVE  (x + i - 1) % S = IF x + i - 1 < S THEN x + i - 1 ELSE x + i - 1 - S
<1>1. CASE x + i - 1 < S  BY <1>1, x + i - 1 \in 0..(S - 1), ModSmall
<1>2. CASE x + i - 1 >= S  BY <1>2, x + i - 1 \in S..(2 * S - 1), ModWrap
<1> QED  BY <1>1, <1>2

-----------------------------------------------------------------------------
(* PipeRingBuffer *)

(* available_read is between 0 and the size, available_write is the rest,  *)
(* and status tells the two extremes.                                      *)
LEMMA Available ==
  ASSUME TypeOK, Ring
  PROVE  /\ RING_BUFFER_SIZE \in Nat \ {0}
         /\ available_read \in 0..RING_BUFFER_SIZE
         /\ available_write = RING_BUFFER_SIZE - available_read
         /\ status = "Empty" <=> available_read = 0
         /\ status = "Full" <=> available_read = RING_BUFFER_SIZE
  BY PipeAssumption DEF TypeOK, Ring, Slots, available_read, available_write

(* read_byte of a buffer that is not empty shortens it by one at the head. *)
LEMMA ReadByteStep ==
  ASSUME TypeOK, Ring, available_read > 0, read_byte
  PROVE  /\ Ring' /\ head' \in Slots
         /\ status' \in {"Full", "Empty", "Normal"}
         /\ available_read' = available_read - 1
         /\ \A i \in 1..available_read' :
              (head' + i - 1) % RING_BUFFER_SIZE = (head + i) % RING_BUFFER_SIZE
<1> DEFINE S == RING_BUFFER_SIZE
<1>1. /\ S \in Nat \ {0} /\ head \in 0..(S - 1) /\ tail \in 0..(S - 1)
      /\ available_read \in 1..S
  BY Available DEF TypeOK, Slots
<1>2. head' = (IF head + 1 = S THEN 0 ELSE head + 1) /\ tail' = tail
  BY Zenon, <1>1, ModStep DEF read_byte
<1>3. status' = IF head' = tail THEN "Empty" ELSE "Normal"
  BY Zenon DEF read_byte
<1>4. Ring' /\ head' \in Slots /\ status' \in {"Full", "Empty", "Normal"}
  BY <1>1, <1>2, <1>3 DEF Ring, Slots
<1>5. available_read' = available_read - 1
  BY <1>1, <1>2, <1>3 DEF available_read, Ring, TypeOK
<1>6. ASSUME NEW i \in 1..available_read'
      PROVE  (head' + i - 1) % S = (head + i) % S
  <2>1. i + 1 \in 1..S /\ i \in 1..S  BY <1>1, <1>5
  <2>2. (head + (i + 1) - 1) % S =
          IF head + i < S THEN head + i ELSE head + i - S
    BY <1>1, <2>1, ModIndex
  <2>3. (head' + i - 1) % S =
          IF head' + i - 1 < S THEN head' + i - 1 ELSE head' + i - 1 - S
    BY Zenon, <1>1, <1>4, <2>1, ModIndex DEF Slots
  <2>4. head + (i + 1) - 1 = head + i  BY <1>1, <2>1
  <2> QED  BY <1>1, <1>2, <2>1, <2>2, <2>3, <2>4
<1> QED  BY Zenon, <1>4, <1>5, <1>6

(* write_byte into a buffer that is not full puts the byte behind the last *)
(* one, at an index that held none of the unread bytes.                    *)
LEMMA WriteByteStep ==
  ASSUME TypeOK, Ring, available_write > 0, NEW b \in Nat, write_byte(b)
  PROVE  /\ Ring' /\ tail' \in Slots /\ arr' \in [Slots -> Nat]
         /\ status' \in {"Full", "Empty", "Normal"}
         /\ available_read' = available_read + 1
         /\ arr'[(head + available_read) % RING_BUFFER_SIZE] = b
         /\ \A i \in 1..available_read :
              arr'[(head + i - 1) % RING_BUFFER_SIZE]
                = arr[(head + i - 1) % RING_BUFFER_SIZE]
<1> DEFINE S == RING_BUFFER_SIZE
<1>1. /\ S \in Nat \ {0} /\ head \in 0..(S - 1) /\ tail \in 0..(S - 1)
      /\ available_read \in 0..(S - 1)
      /\ arr \in [0..(S - 1) -> Nat]
  BY Available DEF TypeOK, Slots
<1>2. /\ tail' = (IF tail + 1 = S THEN 0 ELSE tail + 1) /\ head' = head
      /\ arr' = [arr EXCEPT ![tail] = b]
  BY Zenon, <1>1, ModStep DEF write_byte
<1>3. status' = IF tail' = head THEN "Full" ELSE "Normal"
  BY Zenon DEF write_byte
<1>4. /\ Ring' /\ tail' \in Slots /\ arr' \in [Slots -> Nat]
      /\ status' \in {"Full", "Empty", "Normal"}
  BY <1>1, <1>2, <1>3 DEF Ring, Slots
<1>5. available_read' = available_read + 1
  BY <1>1, <1>2, <1>3 DEF available_read, Ring, TypeOK
<1>6. tail = IF head + available_read < S THEN head + available_read
                                         ELSE head + available_read - S
  BY <1>1, Available DEF available_read, Ring, TypeOK
<1>7. (head + available_read) % S = tail
  <2>1. PICK i \in 1..S : i = available_read + 1  BY <1>1
  <2>2. (head + i - 1) % S =
          IF head + i - 1 < S THEN head + i - 1 ELSE head + i - 1 - S
    BY Zenon, <1>1, ModIndex
  <2>3. head + i - 1 = head + available_read  BY <1>1, <2>1
  <2> QED  BY <1>1, <1>6, <2>1, <2>2, <2>3
<1>8. ASSUME NEW i \in 1..available_read
      PROVE  arr'[(head + i - 1) % S] = arr[(head + i - 1) % S]
  <2>1. i \in 1..S  BY <1>1
  <2>2. (head + i - 1) % S =
          IF head + i - 1 < S THEN head + i - 1 ELSE head + i - 1 - S
    BY Zenon, <1>1, <2>1, ModIndex
  <2>3. (head + i - 1) % S # tail /\ (head + i - 1) % S \in 0..(S - 1)
    BY <1>1, <1>6, <2>1, <2>2
  <2> QED  BY Zenon, <1>1, <1>2, <2>3
<1> QED  BY Zenon, <1>1, <1>2, <1>4, <1>5, <1>7, <1>8

(* A step that leaves the buffer and the counts alone leaves what is said  *)
(* of them true.                                                           *)
LEMMA BufferUnchanged ==
  ASSUME IInv, UNCHANGED <<bufVars, written, taken>>
  PROVE  /\ Ring' /\ InOrder'
         /\ available_read' = available_read
         /\ available_write' = available_write
  BY Zenon DEF IInv, Ring, InOrder, Contents, available_read, available_write, bufVars

(* A reader is not a writer, and a thread in a transfer holds the mutex.   *)
LEMMA Holder ==
  ASSUME IInv
  PROVE  /\ \A t \in Readers : t \in Threads /\ EndOf(t) = "r"
         /\ \A t \in Writers : t \in Threads /\ EndOf(t) = "w" /\ t \notin Readers
         /\ \A t, u \in Threads : pc[t] = "copy" /\ pc[u] = "copy" => t = u
         /\ lock = NoThread => \A t \in Threads : pc[t] # "copy"
  BY Zenon, PipeAssumption DEF IInv, TransferFits, Threads, EndOf

-----------------------------------------------------------------------------
(* The invariant holds of a new pipe (Pipe::new).                          *)
LEMMA InitIInv == Init => IInv
<1> SUFFICES ASSUME Init PROVE IInv  OBVIOUS
<1>1. RING_BUFFER_SIZE \in Nat \ {0} /\ 0 \in Slots
  BY PipeAssumption DEF Slots
<1>2. TypeOK /\ Ring
  BY Zenon, <1>1, PipeAssumption DEF Init, TypeOK, Ring
<1>3. available_read = 0
  BY Zenon DEF Init, available_read
<1>4. InOrder /\ TransferFits /\ EofIsFinal /\ Asking
  BY <1>3 DEF Init, InOrder, TransferFits, EofIsFinal, Asking, Threads
<1> QED  BY Zenon, <1>2, <1>4 DEF IInv

(* A read or a write begins.                                               *)
LEMMA StartIInv ==
  ASSUME IInv, NEW t \in Threads, NEW n \in 1..MaxLen, Start(t, n),
         asked' \in Nat
  PROVE  IInv'
<1>1. TypeOK'
  BY PipeAssumption DEF IInv, TypeOK, Start, bufVars
<1>2. /\ Ring' /\ InOrder' /\ available_read' = available_read
      /\ available_write' = available_write
  BY Zenon, BufferUnchanged DEF Start
<1>3. TransferFits'
  BY Zenon, <1>2 DEF IInv, TypeOK, TransferFits, Start
<1>4. EofIsFinal'
  BY Zenon DEF IInv, TypeOK, EofIsFinal, Exists, Start, EndOf
<1>5. Asking'
  BY DEF IInv, TypeOK, Asking, Threads, Start
<1> QED  BY Zenon, <1>1, <1>2, <1>3, <1>4, <1>5 DEF IInv

(* A call takes the mutex to move n bytes.                                 *)
LEMMA CopyIInv ==
  ASSUME IInv, NEW t \in Threads, NEW n \in Nat \ {0}, Copy(t, n),
         lock = NoThread, pc[t] = "loop",
         n <= IF t \in Readers THEN available_read ELSE available_write
  PROVE  IInv'
<1>1. TypeOK'
  BY Zenon DEF IInv, TypeOK, Copy, bufVars, countVars
<1>2. /\ Ring' /\ InOrder' /\ available_read' = available_read
      /\ available_write' = available_write
  BY Zenon, BufferUnchanged DEF Copy, countVars
<1>3. TransferFits'
  <2> SUFFICES ASSUME NEW u \in Threads, pc'[u] = "copy"
               PROVE  /\ lock' = u
                      /\ left'[u] \in 1..(IF u \in Readers THEN available_read
                                                           ELSE available_write)
    BY Zenon, <1>2 DEF TransferFits
  <2>1. u = t
    BY Zenon, Holder DEF IInv, TypeOK, Copy
  <2>2. available_read \in Nat /\ available_write \in Nat
    BY Available DEF IInv
  <2> QED  BY <2>1, <2>2 DEF IInv, TypeOK, Copy
<1>4. EofIsFinal'
  BY Zenon DEF IInv, TypeOK, EofIsFinal, Exists, Copy, countVars
<1>5. Asking'
  BY Zenon DEF IInv, TypeOK, Asking, Threads, Copy
<1> QED  BY Zenon, <1>1, <1>2, <1>3, <1>4, <1>5 DEF IInv

(* A call returns without having touched the buffer.                       *)
LEMMA ReturnIInv ==
  ASSUME IInv, NEW t \in Threads, Return(t), lock \in {t, NoThread},
         UNCHANGED <<bufVars, refs, asked, written, taken>>,
         \/ UNCHANGED eof
         \/ eof' = TRUE /\ available_read = 0 /\ ~Exists("w")
  PROVE  IInv'
<1>1. TypeOK'
  BY Zenon DEF IInv, TypeOK, Return, bufVars
<1>2. /\ Ring' /\ InOrder' /\ available_read' = available_read
      /\ available_write' = available_write
  BY Zenon, BufferUnchanged
<1>3. TransferFits'
  <2> SUFFICES ASSUME NEW u \in Threads, pc'[u] = "copy" PROVE FALSE
    BY Zenon DEF TransferFits
  <2>1. u # t /\ pc[u] = "copy"
    BY Zenon DEF IInv, TypeOK, Return
  <2> QED  BY Zenon, <2>1, PipeAssumption DEF IInv, TransferFits, Threads
<1>4. EofIsFinal'
  <2>1. ~Exists("w") => ~Exists("w")'
    BY Zenon DEF IInv, TypeOK, Exists, Return, EndOf
  <2>2. available_read = 0 => taken = written
    BY DEF IInv, InOrder, TypeOK
  <2> QED  BY Zenon, <2>1, <2>2 DEF IInv, EofIsFinal
<1>5. Asking'
  BY Zenon DEF IInv, TypeOK, Asking, Threads, Return
<1> QED  BY Zenon, <1>1, <1>2, <1>3, <1>4, <1>5 DEF IInv

(* read takes a byte out of the buffer.                                    *)
LEMMA ReadByteIInv ==
  ASSUME IInv, NEW r \in Readers, ReadByte(r)
  PROVE  IInv'
<1>1. /\ r \in Threads /\ pc[r] = "copy" /\ lock = r /\ read_byte
      /\ left[r] \in 1..available_read /\ available_read > 0
  BY Holder, Available DEF IInv, TransferFits, ReadByte
<1>2. /\ Ring' /\ head' \in Slots /\ status' \in {"Full", "Empty", "Normal"}
      /\ available_read' = available_read - 1
      /\ available_read \in 1..RING_BUFFER_SIZE
      /\ \A i \in 1..available_read' :
           (head' + i - 1) % RING_BUFFER_SIZE = (head + i) % RING_BUFFER_SIZE
  BY <1>1, ReadByteStep, Available DEF IInv
<1>3. TypeOK'
  BY <1>1, <1>2 DEF IInv, TypeOK, ReadByte, Return, read_byte
<1>4. InOrder'
  <2>1. written' = taken' + available_read'
    BY <1>2 DEF IInv, TypeOK, InOrder, ReadByte
  <2>2. ASSUME NEW i \in 1..available_read' PROVE Contents'[i] = taken' + i
    <3>1. i + 1 \in 1..available_read /\ head + (i + 1) - 1 = head + i
      BY <1>2 DEF IInv, TypeOK, Slots
    <3>2. Contents'[i] = arr[(head + i) % RING_BUFFER_SIZE]
      BY Zenon, <1>1, <1>2 DEF Contents, read_byte
    <3>3. Contents[i + 1] = arr[(head + i) % RING_BUFFER_SIZE]
      BY Zenon, <3>1 DEF Contents
    <3>4. Contents[i + 1] = taken + (i + 1) /\ taken' = taken + 1
      BY Zenon, <3>1 DEF IInv, InOrder, ReadByte
    <3> QED  BY <3>2, <3>3, <3>4 DEF IInv, TypeOK
  <2> QED  BY Zenon, <2>1, <2>2 DEF InOrder
<1>5. TransferFits'
  <2> SUFFICES ASSUME NEW u \in Threads, pc'[u] = "copy"
               PROVE  /\ lock' = u
                      /\ left'[u] \in 1..(IF u \in Readers THEN available_read'
                                                           ELSE available_write')
    BY Zenon DEF TransferFits
  <2>1. pc[u] = "copy" /\ u = r
    BY Zenon, <1>1, Holder DEF IInv, TypeOK, ReadByte, Return
  <2>2. left[r] # 1
    BY Zenon, <1>1, <2>1 DEF IInv, TypeOK, ReadByte, Return
  <2> QED  BY <1>1, <1>2, <2>1, <2>2 DEF IInv, TypeOK, ReadByte
<1>6. EofIsFinal'
  <2>1. taken # written
    BY <1>2 DEF IInv, InOrder, TypeOK
  <2> QED  BY Zenon, <2>1 DEF IInv, EofIsFinal, ReadByte
<1>7. Asking'
  BY Zenon, <1>1 DEF IInv, TypeOK, Asking, Threads, ReadByte, Return
<1> QED  BY Zenon, <1>2, <1>3, <1>4, <1>5, <1>6, <1>7 DEF IInv

(* write puts a byte into the buffer.                                      *)
LEMMA WriteByteIInv ==
  ASSUME IInv, NEW w \in Writers, WriteByte(w)
  PROVE  IInv'
<1>1. /\ w \in Threads /\ w \notin Readers /\ EndOf(w) = "w"
      /\ pc[w] = "copy" /\ lock = w /\ write_byte(written + 1)
      /\ left[w] \in 1..available_write /\ available_write > 0
      /\ written + 1 \in Nat
  BY Holder, Available DEF IInv, TransferFits, WriteByte, TypeOK
<1>2. /\ Ring' /\ tail' \in Slots /\ arr' \in [Slots -> Nat]
      /\ status' \in {"Full", "Empty", "Normal"}
      /\ available_read' = available_read + 1
      /\ arr'[(head + available_read) % RING_BUFFER_SIZE] = written + 1
      /\ \A i \in 1..available_read :
           arr'[(head + i - 1) % RING_BUFFER_SIZE]
             = arr[(head + i - 1) % RING_BUFFER_SIZE]
  BY Zenon, <1>1, WriteByteStep DEF IInv
<1>3. /\ available_read \in 0..RING_BUFFER_SIZE
      /\ available_write = RING_BUFFER_SIZE - available_read
      /\ RING_BUFFER_SIZE \in Nat /\ head' = head
  BY Zenon, <1>1, Available DEF IInv, write_byte
<1>4. TypeOK'
  BY <1>1, <1>2, PipeAssumption DEF IInv, TypeOK, WriteByte, write_byte
<1>5. available_write' = available_write - 1
  <2>1. head \in Int
    BY DEF IInv, TypeOK, Slots
  <2>2. status' = "Full" => available_read' = RING_BUFFER_SIZE
    BY <1>2, <1>3, <2>1 DEF available_read, Ring
  <2> QED  BY <1>2, <1>3, <2>2 DEF available_write
<1>6. InOrder'
  <2>1. written' = taken' + available_read'
    BY <1>2, <1>3 DEF IInv, TypeOK, InOrder, WriteByte
  <2>2. ASSUME NEW i \in 1..available_read' PROVE Contents'[i] = taken' + i
    <3>1. Contents'[i] = arr'[(head + i - 1) % RING_BUFFER_SIZE]
      BY Zenon, <1>3 DEF Contents
    <3>2. CASE i \in 1..available_read
      <4>1. Contents[i] = arr[(head + i - 1) % RING_BUFFER_SIZE]
        BY Zenon, <3>2 DEF Contents
      <4> QED  BY Zenon, <1>2, <3>1, <3>2, <4>1 DEF IInv, InOrder, WriteByte
    <3>3. CASE i = available_read + 1
      <4>1. head + i - 1 = head + available_read
        BY <1>3, <3>3 DEF IInv, TypeOK, Slots
      <4>2. taken' + i = written + 1
        BY <1>3, <3>3 DEF IInv, TypeOK, InOrder, WriteByte
      <4> QED  BY Zenon, <1>2, <3>1, <4>1, <4>2
    <3> QED  BY <1>2, <1>3, <3>2, <3>3
  <2> QED  BY Zenon, <2>1, <2>2 DEF InOrder
<1>7. TransferFits'
  <2> SUFFICES ASSUME NEW u \in Threads, pc'[u] = "copy"
               PROVE  /\ lock' = u
                      /\ left'[u] \in 1..(IF u \in Readers THEN available_read'
                                                           ELSE available_write')
    BY Zenon DEF TransferFits
  <2>1. pc[u] = "copy" /\ u = w
    BY Zenon, <1>1, Holder DEF IInv, TypeOK, WriteByte
  <2>2. left[w] # 1
    BY Zenon, <1>1, <2>1 DEF IInv, TypeOK, WriteByte
  <2> QED  BY <1>1, <1>3, <1>5, <2>1, <2>2 DEF IInv, TypeOK, WriteByte
<1>8. EofIsFinal'
  <2>1. Exists("w")
    BY Zenon, <1>1 DEF Exists
  <2> QED  BY Zenon, <2>1 DEF IInv, EofIsFinal, WriteByte
<1>9. Asking'
  BY Zenon, <1>1 DEF IInv, TypeOK, Asking, Threads, WriteByte
<1> QED  BY Zenon, <1>2, <1>4, <1>6, <1>7, <1>8, <1>9 DEF IInv

(* A descriptor of an end is duplicated, or closed.                        *)
LEMMA DescriptorIInv ==
  ASSUME IInv, NEW e \in Ends, Dup(e) \/ Close(e)
  PROVE  IInv'
<1>1. TypeOK'
  BY PipeAssumption DEF IInv, TypeOK, Ends, Dup, Close, bufVars, countVars
<1>2. /\ Ring' /\ InOrder' /\ available_read' = available_read
      /\ available_write' = available_write
  BY Zenon, BufferUnchanged DEF Dup, Close, countVars
<1>3. TransferFits'
  BY Zenon, <1>2 DEF IInv, TransferFits, Dup, Close
<1>4. EofIsFinal'
  <2>1. refs["w"] = 0 => refs'["w"] = 0
    BY DEF IInv, TypeOK, Ends, Dup, Close
  <2>2. refs["w"] \in Nat /\ UNCHANGED <<pc, countVars>>
    BY Zenon DEF IInv, TypeOK, Ends, Dup, Close
  <2>3. ~Exists("w") => ~Exists("w")'
    BY <2>1, <2>2 DEF Exists
  <2> QED  BY Zenon, <2>2, <2>3 DEF IInv, EofIsFinal, countVars
<1>5. Asking'
  BY Zenon DEF IInv, Asking, Dup, Close
<1> QED  BY Zenon, <1>1, <1>2, <1>3, <1>4, <1>5 DEF IInv

-----------------------------------------------------------------------------
(* Every step of Next preserves the invariant.                             *)
LEMMA NextIInv == IInv /\ [Next]_vars => IInv'
<1> SUFFICES ASSUME IInv, [Next]_vars PROVE IInv'  OBVIOUS
<1>1. ASSUME NEW r \in Readers, NEW n \in 1..MaxLen, ReadStart(r, n)
      PROVE  IInv'
  BY Zenon, <1>1, StartIInv, Holder DEF ReadStart, IInv, TypeOK
<1>2. ASSUME NEW r \in Readers, ReadLoop(r) PROVE IInv'
  <2>1. available_read \in Nat \ {0} /\ r \in Threads
    BY <1>2, Available, Holder DEF ReadLoop, IInv
  <2>2. Min(available_read, todo[r]) \in Nat \ {0}
    BY <1>2, <2>1 DEF ReadLoop, Min, IInv, TypeOK, Asking
  <2> QED  BY <1>2, <2>1, <2>2, CopyIInv DEF ReadLoop, Min
<1>3. ASSUME NEW r \in Readers, ReadEof(r) PROVE IInv'
  BY Zenon, <1>3, ReturnIInv, Holder DEF ReadEof, Closed
<1>4. ASSUME NEW r \in Readers, ReadByte(r) PROVE IInv'
  BY Zenon, <1>4, ReadByteIInv
<1>5. ASSUME NEW w \in Writers, NEW n \in 1..MaxLen, WriteStart(w, n)
      PROVE  IInv'
  BY <1>5, StartIInv, Holder, PipeAssumption DEF WriteStart, IInv, TypeOK
<1>6. ASSUME NEW w \in Writers, WriteLoop(w) PROVE IInv'
  <2>1. available_write \in Nat \ {0} /\ w \in Threads \ Readers
    BY <1>6, Available, Holder DEF WriteLoop, IInv
  <2> QED  BY <1>6, <2>1, CopyIInv DEF WriteLoop
<1>7. ASSUME NEW w \in Writers, WriteClosed(w) PROVE IInv'
  BY Zenon, <1>7, ReturnIInv, Holder DEF WriteClosed, countVars
<1>8. ASSUME NEW w \in Writers, WriteByte(w) PROVE IInv'
  BY Zenon, <1>8, WriteByteIInv
<1>9. ASSUME NEW w \in Writers, WriteDone(w) PROVE IInv'
  <2>1. lock = w /\ w \in Threads
    BY Zenon, <1>9, Holder DEF IInv, TransferFits, WriteDone
  <2> QED  BY Zenon, <1>9, <2>1, ReturnIInv DEF WriteDone, countVars
<1>10. ASSUME NEW e \in Ends, Dup(e) \/ Close(e) PROVE IInv'
  BY Zenon, <1>10, DescriptorIInv
<1>11. CASE UNCHANGED vars
  BY Zenon, <1>11 DEF IInv, TypeOK, Ring, Asking, InOrder, Contents, TransferFits, EofIsFinal,
     Exists, available_read, available_write, vars, bufVars, fdVars, countVars
<1> QED
  BY Zenon, <1>1, <1>2, <1>3, <1>4, <1>5, <1>6, <1>7, <1>8, <1>9, <1>10, <1>11
     DEF Next, Read, Write

(* The inductive invariant holds throughout every behaviour of the pipe.   *)
LEMMA PipeInvariant == Spec => []IInv
  BY InitIInv, NextIInv, PTL DEF Spec

(* Types, for any size of the ring buffer: head and tail stay within it.   *)
THEOREM TypeCorrect == Spec => []TypeOK
  BY PipeInvariant, PTL DEF IInv

(* Reads return the bytes in the order in which they were written, and the *)
(* buffer never loses, repeats or overwrites one.                          *)
THEOREM FirstInFirstOut == Spec => []InOrder
  BY PipeInvariant, PTL DEF IInv

(* A transfer happens under the mutex and fits what the buffer holds.      *)
THEOREM TransfersFit == Spec => []TransferFits
  BY PipeInvariant, PTL DEF IInv

(* A read returns 0 only when every byte has been read and the write end   *)
(* is gone, and neither changes afterwards.                                *)
THEOREM EndOfFileIsFinal == Spec => []EofIsFinal
  BY PipeInvariant, PTL DEF IInv

-----------------------------------------------------------------------------
(* The pipe implements the queue of PipeFifo *)

(* The contents are the numbers of the bytes written and not read.         *)
LEMMA ContentsSeq ==
  ASSUME IInv
  PROVE  /\ Contents = [i \in 1..available_read |-> taken + i]
         /\ Contents \in Seq(Nat) /\ Len(Contents) = available_read
         /\ available_read \in Nat /\ taken \in Nat
<1>1. available_read \in Nat /\ taken \in Nat
  BY Available DEF IInv, TypeOK
<1>2. Contents = [i \in 1..available_read |-> taken + i]
  BY Zenon DEF IInv, InOrder, Contents
<1> QED  BY <1>1, <1>2

(* Nobody brings back a write end that is gone: a write needs a descriptor *)
(* and dup needs one to copy.                                              *)
LEMMA WriterStaysGone ==
  ASSUME IInv, [Next]_vars, ~Exists("w")
  PROVE  ~Exists("w")'
<1>1. refs["w"] = 0 /\ \A t \in Writers : pc[t] = "user"
  BY Holder DEF IInv, TypeOK, Ends, Exists
<1>2. refs'["w"] = 0 /\ \A t \in Writers : pc'[t] = "user"
  BY <1>1, Holder DEF IInv, TypeOK, Ends, Next, Read, Write, ReadStart, ReadLoop,
     ReadEof, ReadByte, WriteStart, WriteLoop, WriteClosed, WriteByte, WriteDone,
     Dup, Close, Start, Copy, Return, vars, fdVars
<1> QED  BY <1>2 DEF Exists, EndOf, Threads

(* A byte read is the first of the queue.                                  *)
LEMMA ReadByteGets ==
  ASSUME IInv, IInv', NEW r \in Readers, ReadByte(r)
  PROVE  Contents # <<>> /\ Contents' = Tail(Contents)
<1>1. /\ available_read > 0 /\ available_read' = available_read - 1
      /\ taken' = taken + 1
  <2>1. left[r] \in 1..available_read /\ read_byte
    BY Zenon, Holder DEF IInv, TransferFits, ReadByte
  <2> QED  BY <2>1, ContentsSeq, ReadByteStep DEF IInv, ReadByte
<1>2. Contents' = [i \in 1..(available_read - 1) |-> taken + i + 1]
  <2>1. Contents' = [i \in 1..available_read' |-> taken' + i]
    BY Zenon DEF IInv, InOrder, Contents
  <2> QED  BY <1>1, <2>1, ContentsSeq
<1>3. Contents # <<>>
  BY <1>1, ContentsSeq
<1>4. /\ Tail(Contents) \in Seq(Nat) /\ Len(Tail(Contents)) = available_read - 1
      /\ \A i \in 1..(available_read - 1) : Tail(Contents)[i] = Contents[i + 1]
  BY Zenon, <1>3, ContentsSeq, HeadTailProperties
<1>5. \A i \in 1..(available_read - 1) : Contents[i + 1] = taken + i + 1
  BY <1>1, ContentsSeq
<1>6. Contents' \in Seq(Nat) /\ Len(Contents') = available_read - 1
  <2>1. available_read - 1 \in Nat /\ taken \in Nat
    BY <1>1, ContentsSeq
  <2> QED  BY <1>2, <2>1
<1>7. \A i \in 1..Len(Contents') : Contents'[i] = Tail(Contents)[i]
  BY Zenon, <1>2, <1>4, <1>5, <1>6
<1> QED  BY Zenon, <1>3, <1>4, <1>6, <1>7, SeqEqual

(* A byte written is the last of the queue, and there was room for it.     *)
LEMMA WriteBytePuts ==
  ASSUME IInv, IInv', NEW w \in Writers, WriteByte(w)
  PROVE  /\ Len(Contents) < RING_BUFFER_SIZE
         /\ Contents' = Append(Contents, written + 1)
<1>1. /\ available_read < RING_BUFFER_SIZE
      /\ available_read' = available_read + 1 /\ taken' = taken
      /\ written + 1 = taken + available_read + 1
  <2>1. left[w] \in 1..available_write /\ write_byte(written + 1)
    BY Zenon, Holder DEF IInv, TransferFits, WriteByte
  <2>2. available_write > 0 /\ written + 1 \in Nat
    BY <2>1, Available DEF IInv, TypeOK
  <2> QED  BY <2>1, <2>2, Available, WriteByteStep
           DEF IInv, TypeOK, InOrder, WriteByte
<1>2. available_read \in Nat /\ taken \in Nat
  BY Zenon, ContentsSeq
<1>3. Contents' = [i \in 1..(available_read + 1) |-> taken + i]
  <2>1. Contents' = [i \in 1..available_read' |-> taken' + i]
    BY Zenon DEF IInv, InOrder, Contents
  <2> QED  BY Zenon, <1>1, <2>1
<1>4. Contents' \in Seq(Nat) /\ Len(Contents') = available_read + 1
  BY <1>2, <1>3
<1>5. /\ Append(Contents, written + 1) \in Seq(Nat)
      /\ Len(Append(Contents, written + 1)) = available_read + 1
      /\ \A i \in 1..available_read :
           Append(Contents, written + 1)[i] = Contents[i]
      /\ Append(Contents, written + 1)[available_read + 1] = written + 1
  BY <1>1, ContentsSeq, AppendProperties
<1>6. \A i \in 1..(available_read + 1) : Append(Contents, written + 1)[i] = taken + i
  <2>1. \A i \in 1..available_read : Contents[i] = taken + i
    BY Zenon, ContentsSeq
  <2> QED  BY <1>1, <1>2, <1>5, <2>1
<1>7. \A i \in 1..Len(Contents') : Contents'[i] = Append(Contents, written + 1)[i]
  BY Zenon, <1>2, <1>3, <1>4, <1>6
<1>8. Len(Contents) < RING_BUFFER_SIZE
  BY Zenon, <1>1, ContentsSeq
<1> QED  BY Zenon, <1>4, <1>5, <1>7, <1>8, SeqEqual

(* Every step is a step of the queue, or changes nothing the queue shows.  *)
LEMMA FifoStep == IInv /\ IInv' /\ [Next]_vars => [Fifo!FifoNext]_(Fifo!fifoVars)
<1> SUFFICES ASSUME IInv, IInv', [Next]_vars
             PROVE  [Fifo!FifoNext]_(Fifo!fifoVars)
  OBVIOUS
<1>1. /\ ~Exists("w") => ~Exists("w")'
      /\ Exists("w") \in BOOLEAN /\ Exists("w")' \in BOOLEAN
  BY Zenon, WriterStaysGone DEF Exists
<1>2. ASSUME NEW r \in Readers, ReadByte(r) PROVE Fifo!Get
  <2>1. UNCHANGED <<written, eof>> /\ Exists("w")' = Exists("w")
    BY <1>2, Holder DEF IInv, TypeOK, ReadByte, Return, Exists
  <2> QED  BY Zenon, <1>2, <2>1, ReadByteGets DEF Fifo!Get
<1>3. ASSUME NEW w \in Writers, WriteByte(w) PROVE Fifo!Put
  <2>1. w \in Threads /\ Exists("w") /\ Exists("w")'
    BY Zenon, <1>3, Holder DEF IInv, TypeOK, WriteByte, Exists
  <2> QED  BY Zenon, <1>3, <2>1, WriteBytePuts DEF Fifo!Put, WriteByte
<1>4. ASSUME NEW r \in Readers, ReadEof(r) PROVE Fifo!Eof
  <2>1. ~Exists("w") /\ available_read = 0
    BY Zenon, <1>4 DEF ReadEof, Closed
  <2>2. Contents = <<>> /\ Contents' = Contents
    BY <1>4, <2>1, ContentsSeq DEF ReadEof, bufVars, Contents, available_read
  <2>3. Exists("w")' = Exists("w")
    BY Zenon, <1>1, <2>1
  <2> QED  BY Zenon, <1>4, <2>1, <2>2, <2>3 DEF Fifo!Eof, ReadEof
<1>5. ASSUME UNCHANGED <<bufVars, written, eof>>
      PROVE  Fifo!CloseWriter \/ UNCHANGED Fifo!fifoVars
  <2>1. Contents' = Contents
    BY Zenon, <1>5 DEF bufVars, Contents, available_read
  <2>2. Exists("w")' = FALSE \/ Exists("w")' = Exists("w")
    BY Zenon, <1>1
  <2> QED  BY Zenon, <1>5, <2>1, <2>2 DEF Fifo!CloseWriter, Fifo!fifoVars
<1>6. \/ \E r \in Readers : ReadByte(r) \/ ReadEof(r)
      \/ \E w \in Writers : WriteByte(w)
      \/ UNCHANGED <<bufVars, written, eof>>
  BY Zenon DEF Next, Read, Write, ReadStart, ReadLoop, WriteStart, WriteLoop,
     WriteClosed, WriteDone, Dup, Close, Start, Copy, vars, countVars
<1> QED  BY Zenon, <1>2, <1>3, <1>4, <1>5, <1>6 DEF Fifo!FifoNext

(* The pipe, however its calls interleave and its indices wrap, behaves as *)
(* the bounded queue of PipeFifo does.                                     *)
THEOREM PipeImplementsFifo == Spec => ImplementsFifo
<1>1. Init => Fifo!FifoInit
  <2> SUFFICES ASSUME Init PROVE Fifo!FifoInit  OBVIOUS
  <2>1. Contents = <<>>
    BY InitIInv, ContentsSeq DEF Init, available_read
  <2>2. Exists("w") = TRUE
    BY DEF Init, Exists, Ends
  <2> QED  BY Zenon, <2>1, <2>2 DEF Init, Fifo!FifoInit
<1> QED  BY <1>1, PipeInvariant, FifoStep, PTL
         DEF Spec, ImplementsFifo, Fifo!FifoSpec
=============================================================================
