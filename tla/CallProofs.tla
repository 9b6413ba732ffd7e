---------------------------- MODULE CallProofs -----------------------------
(***************************************************************************)
(* What epoll_wait collects is registered, also when instances watch each  *)
(* other; what select and poll leave to their caller is what they count,   *)
(* and misses nothing; splice and copy_file_range keep the bytes in order. *)
(* For any numbers of threads, descriptors, instances and bytes, and sets, *)
(* arrays and buffers of any size.                                         *)
(***************************************************************************)
EXTENDS Epoll, Calls, FiniteSetTheorems, TLAPS

(***************************************************************************)
(* splice and copy_file_range: of the bytes read, those that are not       *)
(* written yet are the end of the chunk in the buffer.                     *)
(***************************************************************************)
(* g is o and then b without its first n bytes.                            *)
Rest(o, g, b, n) ==
  /\ n <= Len(b) /\ Len(g) = Len(o) + (Len(b) - n)
  /\ \A x \in 1..Len(o) : o[x] = g[x]
  /\ \A x \in 1..(Len(b) - n) : g[Len(o) + x] = b[n + x]

Begins(o, g) == Len(o) <= Len(g) /\ \A x \in 1..Len(o) : o[x] = g[x]

SpliceTypes ==
  /\ got \in Seq(Nat) /\ out \in Seq(Nat) /\ pipe \in Seq(Nat) /\ buf \in Seq(Nat)
  /\ total \in Nat /\ input \in Nat /\ made \in Nat /\ put \in Nat /\ chunk \in Nat
  /\ remaining \in Int

Copied ==
  /\ Begins(out, got)
  /\ at \in {"loop", "pipe_read"} => out = got /\ total = Len(out)
  /\ at = "write" => Rest(out, got, buf, 0) /\ total = Len(out)
  /\ at = "pipe_write" => Rest(out, got, buf, put) /\ total + put = Len(out)
  /\ at = "done" => total = Len(out)

SpliceInv == SpliceTypes /\ Copied

-----------------------------------------------------------------------------
(* What the concatenation of two sequences holds.                          *)
LEMMA Joined ==
  ASSUME NEW o \in Seq(Nat), NEW b \in Seq(Nat)
  PROVE  /\ o \o b \in Seq(Nat) /\ Len(o \o b) = Len(o) + Len(b)
         /\ \A x \in 1..Len(o) : (o \o b)[x] = o[x]
         /\ \A x \in 1..Len(b) : (o \o b)[Len(o) + x] = b[x]
  OBVIOUS

(* Bytes that are read and not written yet; then m of them are written.    *)
LEMMA RestTaken ==
  ASSUME NEW o \in Seq(Nat), NEW b \in Seq(Nat)
  PROVE  Rest(o, o \o b, b, 0) /\ (b = <<>> => o \o b = o)
<1>1. Rest(o, o \o b, b, 0)
  BY Joined DEF Rest
<1>2. b = <<>> => o \o b = o
  OBVIOUS
<1> QED
  BY Zenon, <1>1, <1>2

LEMMA RestGiven ==
  ASSUME NEW o \in Seq(Nat), NEW g \in Seq(Nat), NEW b \in Seq(Nat), NEW n \in Nat,
         Rest(o, g, b, n), NEW m \in 0..(Len(b) - n)
  PROVE  LET o2 == o \o SubSeq(b, n + 1, n + m)
         IN  o2 \in Seq(Nat) /\ Len(o2) = Len(o) + m /\ Rest(o2, g, b, n + m)
<1> DEFINE now == SubSeq(b, n + 1, n + m)
<1>1. /\ n <= Len(b) /\ Len(g) = Len(o) + (Len(b) - n) /\ Len(o) \in Nat /\ Len(b) \in Nat
      /\ \A x \in 1..Len(o) : o[x] = g[x]
      /\ \A x \in 1..(Len(b) - n) : g[Len(o) + x] = b[n + x]
  BY DEF Rest
<1>2. now \in Seq(Nat) /\ Len(now) = m /\ \A x \in 1..m : now[x] = b[n + x]
  <2>1. \A x \in (n + 1)..(n + m) : b[x] \in Nat
    BY <1>1
  <2> QED
    BY <1>1, <2>1
<1> HIDE DEF now
<1>3. /\ o \o now \in Seq(Nat) /\ Len(o \o now) = Len(o) + m
      /\ \A x \in 1..Len(o) : (o \o now)[x] = o[x]
      /\ \A x \in 1..m : (o \o now)[Len(o) + x] = now[x]
  BY Zenon, <1>2, Joined
<1>4. ASSUME NEW x \in 1..(Len(o) + m) PROVE (o \o now)[x] = g[x]
  <2>1. CASE x <= Len(o)
    BY <1>1, <1>3, <2>1
  <2>2. CASE x > Len(o)
    <3>1. PICK y \in 1..m : x = Len(o) + y /\ y \in 1..(Len(b) - n)
      <4>1. x - Len(o) \in 1..m /\ x = Len(o) + (x - Len(o))
        BY <1>1, <2>2
      <4>2. x - Len(o) \in 1..(Len(b) - n)
        BY <1>1, <4>1
      <4> QED
        BY Zenon, <4>1, <4>2
    <3>2. (o \o now)[Len(o) + y] = b[n + y]
      BY Zenon, <1>2, <1>3, <3>1
    <3>3. g[Len(o) + y] = b[n + y]
      BY Zenon, <1>1, <3>1
    <3> QED
      BY Zenon, <3>1, <3>2, <3>3
  <2>3. x <= Len(o) \/ x > Len(o)
    BY <1>1
  <2> QED
    BY Zenon, <2>1, <2>2, <2>3
<1>5. ASSUME NEW x \in 1..(Len(b) - (n + m))
      PROVE  g[(Len(o) + m) + x] = b[(n + m) + x]
  <2>1. m + x \in 1..(Len(b) - n) /\ Len(o) + (m + x) = (Len(o) + m) + x
        /\ n + (m + x) = (n + m) + x
    BY <1>1
  <2> QED
    BY Zenon, <1>1, <2>1
<1>6. n + m <= Len(b) /\ Len(g) = (Len(o) + m) + (Len(b) - (n + m))
  BY <1>1
<1>7. Rest(o \o now, g, b, n + m)
  BY Zenon, <1>3, <1>4, <1>5, <1>6 DEF Rest
<1> QED
  BY Zenon, <1>3, <1>7 DEF now

LEMMA RestBegins ==
  ASSUME NEW o \in Seq(Nat), NEW g \in Seq(Nat), NEW b \in Seq(Nat), NEW n \in Nat,
         Rest(o, g, b, n)
  PROVE  Begins(o, g) /\ (n = Len(b) => o = g)
<1>1. Begins(o, g)
  BY DEF Rest, Begins
<1>2. ASSUME n = Len(b) PROVE o = g
  <2>1. Len(o) = Len(g) /\ \A x \in 1..Len(o) : o[x] = g[x]
    BY <1>2 DEF Rest
  <2> QED
    BY <2>1
<1> QED
  BY Zenon, <1>1, <1>2

LEMMA BeginsSelf == \A o \in Seq(Nat) : Begins(o, o)
  BY DEF Begins

LEMMA BytesType ==
  ASSUME NEW from \in Nat, NEW n \in Nat
  PROVE  Bytes(from, n) \in Seq(Nat) /\ Len(Bytes(from, n)) = n /\ (n = 0 => Bytes(from, n) = <<>>)
  BY DEF Bytes

LEMMA LeastOf ==
  ASSUME NEW a \in Nat, NEW b \in Nat
  PROVE  Least(a, b) \in Nat /\ Least(a, b) <= a /\ Least(a, b) <= b
  BY DEF Least

-----------------------------------------------------------------------------
LEMMA SpliceInitInv == SpliceInit => SpliceInv
<1> SUFFICES ASSUME SpliceInit PROVE SpliceInv
  OBVIOUS
<1>1. made \in Nat /\ len \in Nat
  BY CallsAssumption DEF SpliceInit
<1>2. SpliceTypes
  BY <1>1 DEF SpliceInit, SpliceTypes
<1>3. Copied
  <2>1. <<>> \in Seq(Nat) /\ Len(<<>>) = 0
    OBVIOUS
  <2>2. out = <<>> /\ got = <<>> /\ total = 0 /\ at = "loop"
    BY Zenon DEF SpliceInit
  <2> QED
    BY Zenon, <2>1, <2>2, BeginsSelf DEF Copied
<1> QED
  BY Zenon, <1>2, <1>3 DEF SpliceInv

(* The other users of the pipe, and failures.                              *)
LEMMA OthersInv ==
  ASSUME SpliceInv, FileFails \/ OtherWrites \/ OtherReads \/ OtherCloses
  PROVE  SpliceInv'
<1>1. UNCHANGED <<got, out, buf, total, put>> /\ (at' = at \/ at' = "error")
  BY Zenon DEF FileFails, OtherWrites, OtherReads, OtherCloses, log
<1>2. Copied'
  BY Zenon, <1>1 DEF SpliceInv, Copied
<1>3. pipe' \in Seq(Nat) /\ made' \in Nat
  <2>1. pipe \in Seq(Nat) /\ made \in Nat
    BY Zenon DEF SpliceInv, SpliceTypes
  <2>2. CASE OtherWrites
    BY <2>1, <2>2 DEF OtherWrites
  <2>3. CASE OtherReads
    <3>1. pipe # <<>> /\ pipe' = Tail(pipe) /\ made' = made
      BY Zenon, <2>3 DEF OtherReads
    <3> QED
      BY <2>1, <3>1
  <2>4. CASE FileFails \/ OtherCloses
    BY Zenon, <2>1, <2>4 DEF FileFails, OtherCloses
  <2> QED
    BY Zenon, <2>2, <2>3, <2>4
<1>4. UNCHANGED <<input, chunk, remaining>>
  BY Zenon DEF FileFails, OtherWrites, OtherReads, OtherCloses, log
<1>5. SpliceTypes'
  BY Zenon, <1>1, <1>3, <1>4 DEF SpliceInv, SpliceTypes
<1> QED
  BY Zenon, <1>2, <1>5 DEF SpliceInv

(* The chunk n bytes of which a loop has just read.                        *)
LEMMA ReadInv ==
  ASSUME SpliceInv, at \in {"loop", "pipe_read"}, NEW b \in Seq(Nat),
         buf' = b, got' = got \o b, UNCHANGED <<out, total, put, chunk, remaining, made>>,
         input' \in Nat, pipe' \in Seq(Nat),
         at' = IF Len(b) = 0 THEN "done" ELSE "write"
  PROVE  SpliceInv'
<1>1. /\ got \in Seq(Nat) /\ out = got /\ total = Len(out)
  BY Zenon DEF SpliceInv, SpliceTypes, Copied
<1>2. got' \in Seq(Nat)
  BY Zenon, <1>1, Joined
<1>3. Rest(got, got \o b, b, 0)
  BY Zenon, <1>1, RestTaken
<1>4. Rest(out', got', buf', 0)
  BY Zenon, <1>1, <1>3
<1>5. Begins(out', got')
  BY Zenon, <1>1, <1>2, <1>4, RestBegins
<1>6. Copied'
  BY Zenon, <1>1, <1>4, <1>5 DEF Copied
<1>7. SpliceTypes'
  BY Zenon, <1>2 DEF SpliceInv, SpliceTypes
<1> QED
  BY Zenon, <1>6, <1>7 DEF SpliceInv

LEMMA ReadFileInv ==
  ASSUME SpliceInv, NEW n \in 0..DEFAULT_BUFFER_SIZE, ReadFile(n)
  PROVE  SpliceInv'
<1>1. n \in Nat /\ input \in Nat
  BY CallsAssumption DEF SpliceInv, SpliceTypes
<1>2. /\ Bytes(input, n) \in Seq(Nat) /\ Len(Bytes(input, n)) = n
  BY Zenon, <1>1, BytesType
<1>3. /\ at = "loop" /\ UNCHANGED <<out, total, put, chunk, remaining, made, pipe>>
      /\ buf' = Bytes(input, n) /\ got' = got \o Bytes(input, n) /\ input' = input + n
      /\ at' = IF Len(Bytes(input, n)) = 0 THEN "done" ELSE "write"
  BY Zenon, <1>2 DEF ReadFile
<1>4. input' \in Nat /\ pipe' \in Seq(Nat)
  BY <1>1, <1>3 DEF SpliceInv, SpliceTypes
<1> QED
  BY Zenon, <1>2, <1>3, <1>4, ReadInv

LEMMA PipeReadInv ==
  ASSUME SpliceInv, PipeRead
  PROVE  SpliceInv'
<1> DEFINE n == Least(chunk, Len(pipe))
<1>1. /\ pipe \in Seq(Nat) /\ Len(pipe) \in Nat /\ n \in Nat /\ n <= Len(pipe)
  <2>1. pipe \in Seq(Nat) /\ Len(pipe) \in Nat /\ chunk \in Nat
    BY DEF SpliceInv, SpliceTypes
  <2> QED
    BY Zenon, <2>1, LeastOf
<1>2. /\ at = "pipe_read"
      /\ UNCHANGED <<out, total, put, chunk, remaining, made, input>>
      /\ buf' = SubSeq(pipe, 1, n) /\ got' = got \o SubSeq(pipe, 1, n)
      /\ pipe' = SubSeq(pipe, n + 1, Len(pipe)) /\ at' = IF n = 0 THEN "done" ELSE "write"
  BY Zenon DEF PipeRead
<1> HIDE DEF n
<1>3. \A x \in 1..Len(pipe) : pipe[x] \in Nat
  BY <1>1
<1>4. SubSeq(pipe, 1, n) \in Seq(Nat) /\ Len(SubSeq(pipe, 1, n)) = n
  BY <1>1, <1>3
<1>5. SubSeq(pipe, n + 1, Len(pipe)) \in Seq(Nat)
  BY <1>1, <1>3
<1>6. input' \in Nat /\ pipe' \in Seq(Nat)
  BY Zenon, <1>2, <1>5 DEF SpliceInv, SpliceTypes
<1> QED
  BY Zenon, <1>2, <1>4, <1>6, ReadInv

(* A step of the loop that moves no bytes.                                 *)
LEMMA LookInv ==
  ASSUME SpliceInv, LoopEnd \/ PipeAvailable
  PROVE  SpliceInv'
<1>1. /\ at = "loop" /\ at' \in {"done", "pipe_read"}
      /\ UNCHANGED <<got, out, total, buf, put, pipe, input, made, remaining>>
  BY Zenon DEF LoopEnd, PipeAvailable, log
<1>2. chunk' \in Nat
  <2>1. CASE LoopEnd
    BY Zenon, <2>1 DEF LoopEnd, SpliceInv, SpliceTypes
  <2>2. CASE PipeAvailable
    <3>1. remaining \in Nat /\ Len(pipe) \in Nat
      BY <2>2 DEF PipeAvailable, SpliceInv, SpliceTypes
    <3> QED
      BY Zenon, <2>2, <3>1, CallsAssumption, LeastOf DEF PipeAvailable
  <2> QED
    BY Zenon, <2>1, <2>2
<1>3. Copied'
  BY Zenon, <1>1 DEF SpliceInv, Copied
<1>4. SpliceTypes'
  BY Zenon, <1>1, <1>2 DEF SpliceInv, SpliceTypes
<1> QED
  BY Zenon, <1>3, <1>4 DEF SpliceInv

LEMMA WriteFileInv ==
  ASSUME SpliceInv, NEW n \in 0..DEFAULT_BUFFER_SIZE, WriteFile(n)
  PROVE  SpliceInv'
<1>1. /\ at = "write" /\ n \in Nat /\ n \in 0..Len(buf)
      /\ total' = total + n /\ remaining' = remaining - n
      /\ at' = IF n < Len(buf) THEN "done" ELSE "loop"
      /\ out' = out \o SubSeq(buf, 0 + 1, 0 + n)
      /\ UNCHANGED <<got, buf, put, pipe, input, made, chunk>>
  BY CallsAssumption DEF WriteFile, Wrote
<1>2. /\ out \in Seq(Nat) /\ got \in Seq(Nat) /\ buf \in Seq(Nat)
      /\ Rest(out, got, buf, 0) /\ total = Len(out) /\ Len(buf) \in Nat /\ Len(out) \in Nat
  BY <1>1 DEF SpliceInv, SpliceTypes, Copied
<1>3. n \in 0..(Len(buf) - 0)
  BY <1>1, <1>2
<1>4. out' \in Seq(Nat) /\ Len(out') = Len(out) + n /\ Rest(out', got, buf, n)
  <2>1. 0 + n = n
    BY <1>1
  <2>2. out' \in Seq(Nat) /\ Len(out') = Len(out) + n /\ Rest(out', got, buf, 0 + n)
    BY <1>1, <1>2, <1>3, RestGiven
  <2> QED
    BY Zenon, <2>1, <2>2
<1>5. Begins(out', got) /\ (n = Len(buf) => out' = got)
  BY Zenon, <1>1, <1>2, <1>4, RestBegins
<1>6. Copied'
  BY <1>1, <1>2, <1>4, <1>5 DEF Copied
<1>7. SpliceTypes'
  BY <1>1, <1>2, <1>4 DEF SpliceInv, SpliceTypes
<1> QED
  BY Zenon, <1>6, <1>7 DEF SpliceInv

LEMMA WritePipeInv ==
  ASSUME SpliceInv, WritePipe
  PROVE  SpliceInv'
<1>1. /\ at = "write" /\ at' \in {"pipe_write", "error"} /\ put' = 0
      /\ UNCHANGED <<got, out, total, buf, pipe, input, made, remaining, chunk>>
  BY Zenon DEF WritePipe, log
<1>2. Copied'
  BY <1>1 DEF SpliceInv, SpliceTypes, Copied
<1>3. SpliceTypes'
  BY Zenon, <1>1 DEF SpliceInv, SpliceTypes
<1> QED
  BY Zenon, <1>2, <1>3 DEF SpliceInv

(* n bytes of the chunk have been written, and the call knows.             *)
LEMMA PipeWriteInv ==
  ASSUME SpliceInv, PipeWrite \/ PipeWriteClosed
  PROVE  SpliceInv'
<1>1. /\ at = "pipe_write" /\ UNCHANGED <<got, buf, input, made, chunk>>
  BY Zenon DEF PipeWrite, PipeWriteClosed, log
<1>2. /\ out \in Seq(Nat) /\ got \in Seq(Nat) /\ buf \in Seq(Nat) /\ pipe \in Seq(Nat)
      /\ put \in Nat /\ total \in Nat /\ remaining \in Int
      /\ Rest(out, got, buf, put) /\ total + put = Len(out) /\ Len(buf) \in Nat
      /\ Len(out) \in Nat
  BY <1>1 DEF SpliceInv, SpliceTypes, Copied
<1>3. put <= Len(buf)
  BY Zenon, <1>2 DEF Rest
<1>4. CASE PipeWrite
  <2> DEFINE space == RING_BUFFER_SIZE - Len(pipe)
             n == Least(space, Len(buf) - put)
             now == SubSeq(buf, put + 1, put + n)
  <2>1. space \in Nat /\ Len(buf) - put \in Nat
    <3>1. RING_BUFFER_SIZE \in Nat /\ Len(pipe) \in Nat
      BY <1>2, CallsAssumption
    <3> QED
      BY <1>2, <1>3, <1>4, <3>1 DEF PipeWrite
  <2>2. n \in Nat /\ n <= Len(buf) - put /\ n <= space
    BY Zenon, <2>1, LeastOf
  <2>3. n < space => n = Len(buf) - put
    BY <2>1 DEF Least
  <2>4. /\ pipe' = pipe \o now /\ out' = out \o now /\ put' = put + n
        /\ IF n < space THEN Wrote(put + n) ELSE UNCHANGED <<total, remaining, at>>
    BY Zenon, <1>4 DEF PipeWrite
  <2> HIDE DEF n, space
  <2>5. n \in 0..(Len(buf) - put)
    BY <1>2, <2>2
  <2>6. /\ out' \in Seq(Nat) /\ Len(out') = Len(out) + n
        /\ Rest(out', got, buf, put + n)
    BY <1>2, <2>4, <2>5, RestGiven
  <2>7. put + n \in Nat /\ put + n <= Len(buf)
    BY <1>2, <2>2
  <2>8. Begins(out', got) /\ (put + n = Len(buf) => out' = got)
    BY Zenon, <1>2, <2>6, <2>7, RestBegins
  <2>9. pipe' \in Seq(Nat)
    <3>1. \A x \in 1..Len(buf) : buf[x] \in Nat
      BY <1>2
    <3>2. now \in Seq(Nat)
      BY <1>2, <2>2, <2>7, <3>1
    <3> QED
      BY Zenon, <1>2, <2>4, <3>2, Joined
  <2>10. /\ Len(out') = total + (put + n) /\ total + (put + n) \in Nat
         /\ remaining - (put + n) \in Int
    <3>1. /\ total \in Nat /\ put \in Nat /\ n \in Nat /\ remaining \in Int
          /\ total + put = Len(out) /\ Len(out') = Len(out) + n
      BY Zenon, <1>2, <2>2, <2>6
    <3> QED
      BY <3>1
  <2>11. CASE n < space
    <3>1. /\ total' = total + (put + n) /\ remaining' = remaining - (put + n) /\ at' = "loop"
          /\ put + n = Len(buf)
      BY <1>2, <2>2, <2>3, <2>4, <2>11 DEF Wrote
    <3>2. total' \in Nat /\ total' = Len(out') /\ remaining' \in Int
      BY Zenon, <2>10, <3>1
    <3>3. Copied'
      BY Zenon, <1>1, <2>8, <3>1, <3>2 DEF Copied
    <3>4. SpliceTypes'
      BY Zenon, <1>1, <1>2, <2>4, <2>6, <2>7, <2>9, <3>2 DEF SpliceInv, SpliceTypes
    <3> QED
      BY Zenon, <3>3, <3>4 DEF SpliceInv
  <2>12. CASE ~(n < space)
    <3>1. UNCHANGED <<total, remaining, at>>
      BY Zenon, <2>4, <2>12
    <3>2. total' + put' = Len(out') /\ Rest(out', got', buf', put')
      BY Zenon, <1>1, <2>4, <2>6, <2>10, <3>1
    <3>3. Copied'
      BY Zenon, <1>1, <2>8, <3>1, <3>2 DEF Copied
    <3>4. SpliceTypes'
      BY Zenon, <1>1, <1>2, <2>4, <2>6, <2>7, <2>9, <3>1 DEF SpliceInv, SpliceTypes
    <3> QED
      BY Zenon, <3>3, <3>4 DEF SpliceInv
  <2> QED
    BY Zenon, <2>11, <2>12
<1>5. CASE PipeWriteClosed
  <2>1. /\ total' = total + put /\ remaining' = remaining - put
        /\ at' = IF put < Len(buf) THEN "done" ELSE "loop"
        /\ UNCHANGED <<out, pipe, put>>
    BY Zenon, <1>5 DEF PipeWriteClosed, Wrote, log
  <2>2. Begins(out, got) /\ (put = Len(buf) => out = got)
    BY Zenon, <1>2, RestBegins
  <2>3. Copied'
    BY <1>1, <1>2, <1>3, <2>1, <2>2 DEF Copied
  <2>4. SpliceTypes'
    BY <1>1, <1>2, <2>1 DEF SpliceInv, SpliceTypes
  <2> QED
    BY Zenon, <2>3, <2>4 DEF SpliceInv
<1> QED
  BY Zenon, <1>4, <1>5

LEMMA SpliceNextInv == SpliceInv /\ [SpliceNext]_spliceVars => SpliceInv'
<1> SUFFICES ASSUME SpliceInv, [SpliceNext]_spliceVars PROVE SpliceInv'
  OBVIOUS
<1>1. CASE SpliceCall
  BY Zenon, <1>1, ReadFileInv, PipeReadInv, LookInv, WriteFileInv, WritePipeInv, PipeWriteInv
     DEF SpliceCall
<1>2. CASE FileFails \/ OtherWrites \/ OtherReads \/ OtherCloses
  BY Zenon, <1>2, OthersInv
<1>3. CASE UNCHANGED spliceVars
  BY Zenon, <1>3 DEF spliceVars, asked, SpliceInv, SpliceTypes, Copied
<1> QED
  BY Zenon, <1>1, <1>2, <1>3 DEF SpliceNext

(* What a loop of splice or copy_file_range has read and not written is    *)
(* the end of the chunk in its buffer, whatever others do to the pipe.     *)
THEOREM SpliceSpecInv == SpliceSpec => []SpliceInv
  BY SpliceInitInv, SpliceNextInv, PTL DEF SpliceSpec

LEMMA SpliceInvKeeps == SpliceInv => SpliceKeepsBytes
  BY Zenon DEF SpliceInv, Copied, Begins, SpliceKeepsBytes

(* The loops of splice and copy_file_range write what they read, in order  *)
(* and without a gap, and return the number of bytes written, for chunks   *)
(* and pipes of every size.                                                *)
THEOREM BytesAreKept == SpliceSpec => []SpliceKeepsBytes
  BY SpliceSpecInv, SpliceInvKeeps, PTL

-----------------------------------------------------------------------------
(***************************************************************************)
(* select: the scan has come to descriptor m; the count is that of the     *)
(* bits found, all below m and nfds, and no bit below m is missing whose   *)
(* descriptor kept its state.                                              *)
(***************************************************************************)
Bits(r) == Cardinality(r["read"]) + Cardinality(r["write"]) + Cardinality(r["except"])

SelectTypes ==
  /\ state \in [Asked -> SUBSET Kinds] /\ steady \subseteq Asked
  /\ user \in [Kinds -> SUBSET Asked] /\ bits \in [Kinds -> SUBSET Asked]
  /\ result \in [Kinds -> SUBSET Asked]
  /\ nfds \in Nat /\ i \in Nat /\ j \in Nat /\ num \in Nat

Found(m) ==
  /\ num = Bits(result)
  /\ \A c \in Kinds : \A fd \in result[c] : fd < nfds /\ fd < m
  /\ \A c \in Kinds, fd \in steady :
       (fd < nfds /\ fd < m /\ fd \in bits[c] /\ c \in state[fd]) => fd \in result[c]

SelectPCs == {"start", "round", "word", "bit", "back", "yield", "done", "timeout"}

SelectInv ==
  /\ SelectTypes /\ pc \in SelectPCs
  /\ pc = "word" => Found(i)
  /\ pc = "bit" => j <= BITS_PER_USIZE /\ Found(i + j)
  /\ pc \in {"back", "yield", "done"} => Found(nfds)
  /\ pc \in {"yield", "done"} => user = result
  /\ pc = "yield" => num = 0
  /\ pc = "timeout" => user = NoFds

-----------------------------------------------------------------------------
LEMMA AskedFinite ==
  ASSUME NEW S \in SUBSET Asked
  PROVE  IsFiniteSet(S) /\ Cardinality(S) \in Nat /\ S \subseteq Nat
<1>1. FD_SETSIZE \in Nat /\ Asked \subseteq 0..(FD_SETSIZE - 1)
  BY Zenon, SelectAssumption
<1>2. IsFiniteSet(0..(FD_SETSIZE - 1))
  BY <1>1, FS_Interval
<1>3. IsFiniteSet(S)
  BY Zenon, <1>1, <1>2, FS_Subset
<1>4. S \subseteq Nat
  BY <1>1
<1> QED
  BY Zenon, <1>3, <1>4, FS_CardinalityType

(* One more element, or not.                                               *)
LEMMA PerhapsOneMore ==
  ASSUME NEW S, IsFiniteSet(S), NEW x, x \notin S, NEW b \in BOOLEAN
  PROVE  /\ IsFiniteSet(IF b THEN S \cup {x} ELSE S)
         /\ Cardinality(IF b THEN S \cup {x} ELSE S) = Cardinality(S) + (IF b THEN 1 ELSE 0)
<1>1. Cardinality(S) \in Nat
  BY Zenon, FS_CardinalityType
<1>2. CASE b
  BY Zenon, <1>2, FS_AddElement
<1>3. CASE ~b
  BY <1>1, <1>3
<1> QED
  BY Zenon, <1>2, <1>3

LEMMA HowManyKinds ==
  ASSUME NEW H \in SUBSET Kinds
  PROVE  Cardinality(H) = (IF "read" \in H THEN 1 ELSE 0) + (IF "write" \in H THEN 1 ELSE 0)
                            + (IF "except" \in H THEN 1 ELSE 0)
<1> DEFINE R == IF "read" \in H THEN {} \cup {"read"} ELSE {}
           W == IF "write" \in H THEN R \cup {"write"} ELSE R
           E == IF "except" \in H THEN W \cup {"except"} ELSE W
<1>0. IsFiniteSet({}) /\ Cardinality({}) = 0
  BY Zenon, FS_EmptySet
<1>1. IsFiniteSet(R) /\ Cardinality(R) = Cardinality({}) + (IF "read" \in H THEN 1 ELSE 0)
  <2>1. "read" \notin {} /\ ("read" \in H) \in BOOLEAN
    OBVIOUS
  <2> QED
    BY Zenon, <1>0, <2>1, PerhapsOneMore
<1>2. IsFiniteSet(W) /\ Cardinality(W) = Cardinality(R) + (IF "write" \in H THEN 1 ELSE 0)
  <2>1. "write" \notin R /\ ("write" \in H) \in BOOLEAN
    OBVIOUS
  <2> QED
    BY Zenon, <1>1, <2>1, PerhapsOneMore
<1>3. IsFiniteSet(E) /\ Cardinality(E) = Cardinality(W) + (IF "except" \in H THEN 1 ELSE 0)
  <2>1. "except" \notin W /\ ("except" \in H) \in BOOLEAN
    OBVIOUS
  <2> QED
    BY Zenon, <1>2, <2>1, PerhapsOneMore
<1>4. H = E
  BY Zenon DEF Kinds
<1> HIDE DEF R, W, E
<1> QED
  BY <1>0, <1>1, <1>2, <1>3, <1>4

(* The count after a poll that adds fd to the sets of H.                   *)
LEMMA BitsAfter ==
  ASSUME NEW r \in [Kinds -> SUBSET Asked], NEW fd, NEW H \in SUBSET Kinds,
         \A c \in Kinds : fd \notin r[c]
  PROVE  Bits([c \in Kinds |-> IF c \in H THEN r[c] \cup {fd} ELSE r[c]])
           = Bits(r) + Cardinality(H)
<1> DEFINE r2 == [c \in Kinds |-> IF c \in H THEN r[c] \cup {fd} ELSE r[c]]
<1>1. ASSUME NEW c \in Kinds
      PROVE  /\ Cardinality(r[c]) \in Nat
             /\ Cardinality(r2[c]) = Cardinality(r[c]) + (IF c \in H THEN 1 ELSE 0)
  <2>1. IsFiniteSet(r[c]) /\ Cardinality(r[c]) \in Nat
    BY Zenon, AskedFinite
  <2>2. r2[c] = IF c \in H THEN r[c] \cup {fd} ELSE r[c]
    OBVIOUS
  <2>3. (c \in H) \in BOOLEAN /\ fd \notin r[c]
    OBVIOUS
  <2> QED
    BY Zenon, <2>1, <2>2, <2>3, PerhapsOneMore
<1>2. {"read", "write", "except"} = Kinds
  BY Zenon DEF Kinds
<1> HIDE DEF r2
<1>3. Bits(r2) = Bits(r) + ((IF "read" \in H THEN 1 ELSE 0)
                   + (IF "write" \in H THEN 1 ELSE 0) + (IF "except" \in H THEN 1 ELSE 0))
  BY <1>1, <1>2 DEF Bits
<1> QED
  BY Zenon, <1>3, HowManyKinds DEF r2

LEMMA SelectInitInv == SelectInit => SelectInv
<1> SUFFICES ASSUME SelectInit PROVE SelectInv
  OBVIOUS
<1>1. ReadyStates \subseteq SUBSET Kinds
  BY Zenon DEF ReadyStates, Kinds
<1>2. NoFds \in [Kinds -> SUBSET Asked]
  BY Zenon DEF NoFds
<1>3. nfds \in Nat
  BY SelectAssumption DEF SelectInit
<1>4. SelectTypes
  BY Zenon, <1>1, <1>2, <1>3 DEF SelectInit, SelectTypes
<1> QED
  BY Zenon, <1>4 DEF SelectInit, SelectInv, SelectPCs

LEMMA FromInv ==
  ASSUME SelectInv, From
  PROVE  SelectInv'
<1>1. /\ pc' = "round" /\ user' = NoFds /\ bits' = copy_from_fd_set
      /\ UNCHANGED <<state, steady, result, nfds, i, j, num>>
  BY Zenon DEF From, selectArgs, Cleared
<1>2. NoFds \in [Kinds -> SUBSET Asked]
  BY Zenon DEF NoFds
<1>3. copy_from_fd_set \in [Kinds -> SUBSET Asked]
  BY Zenon DEF copy_from_fd_set, SelectInv, SelectTypes
<1> QED
  BY Zenon, <1>1, <1>2, <1>3 DEF SelectInv, SelectTypes, SelectPCs

LEMMA SelectRoundInv ==
  ASSUME SelectInv, SelectRound
  PROVE  SelectInv'
<1>1. /\ pc' = "word" /\ i' = 0 /\ j' = 0 /\ num' = 0 /\ result' = NoFds /\ steady' = Asked
      /\ UNCHANGED <<state, user, nfds, bits>>
  BY Zenon DEF SelectRound, selectArgs
<1>2. NoFds \in [Kinds -> SUBSET Asked] /\ \A c \in Kinds : NoFds[c] = {}
  BY Zenon DEF NoFds
<1>3. SelectTypes'
  BY Zenon, <1>1, <1>2 DEF SelectInv, SelectTypes
<1>4. Bits(NoFds) = 0
  BY <1>2, FS_EmptySet DEF Bits, Kinds
<1>5. Asked \subseteq Nat
  BY Zenon, AskedFinite
<1>6. Found(i)'
  BY <1>1, <1>2, <1>4, <1>5 DEF Found
<1> QED
  BY Zenon, <1>1, <1>3, <1>6 DEF SelectInv, SelectPCs

LEMMA NextWordInv ==
  ASSUME SelectInv, NextWord
  PROVE  SelectInv'
<1>1. /\ pc = "word" /\ UNCHANGED <<state, user, nfds, bits, result, num, steady>>
  BY Zenon DEF NextWord, selectArgs
<1>2. /\ SelectTypes /\ Found(i) /\ i \in Nat /\ nfds \in Nat /\ BITS_PER_USIZE \in Nat
  BY Zenon, <1>1, SelectAssumption DEF SelectInv, SelectTypes
<1>3. \A c \in Kinds : bits[c] \subseteq Nat /\ result[c] \subseteq Nat
  BY Zenon, <1>2, AskedFinite DEF SelectTypes
<1>4. CASE i >= nfds
  <2>1. pc' = "back" /\ UNCHANGED <<i, j>>
    BY Zenon, <1>4 DEF NextWord
  <2>2. Found(nfds)
    BY <1>2, <1>3, <1>4 DEF Found
  <2>3. Found(nfds)'
    BY Zenon, <1>1, <2>2 DEF Found, Bits
  <2> QED
    BY Zenon, <1>1, <1>2, <2>1, <2>3 DEF SelectInv, SelectTypes, SelectPCs
<1>5. CASE ~(i >= nfds) /\ all_bits(i) = {}
  <2>1. i' = i + BITS_PER_USIZE /\ UNCHANGED <<pc, j>>
    BY Zenon, <1>5 DEF NextWord
  <2>2. ASSUME NEW c \in Kinds, NEW fd \in bits[c], fd < i + BITS_PER_USIZE
        PROVE  fd < i
    <3>1. fd \notin Word(i)
      BY Zenon, <1>5, <2>2 DEF all_bits
    <3>2. fd \in Nat
      BY Zenon, <1>3
    <3>3. SUFFICES ASSUME ~(fd < i) PROVE FALSE
      OBVIOUS
    <3>4. fd - i \in 0..(BITS_PER_USIZE - 1) /\ fd = i + (fd - i)
      BY <1>2, <2>2, <3>2, <3>3
    <3> QED
      BY Zenon, <3>1, <3>4 DEF Word
  <2>3. Found(i + BITS_PER_USIZE)
    <3>1. \A c \in Kinds : \A fd \in result[c] : fd < i + BITS_PER_USIZE
      <4> TAKE c \in Kinds
      <4> TAKE fd \in result[c]
      <4>1. fd \in Nat /\ fd < i
        BY Zenon, <1>2, <1>3 DEF Found
      <4> QED
        BY <1>2, <4>1
    <3> QED
      BY Zenon, <1>2, <2>2, <3>1 DEF Found, SelectTypes
  <2>4. Found(i)'
    BY Zenon, <1>1, <2>1, <2>3 DEF Found, Bits
  <2>5. i' \in Nat
    BY <1>2, <2>1
  <2> QED
    BY Zenon, <1>1, <1>2, <2>1, <2>4, <2>5 DEF SelectInv, SelectTypes, SelectPCs
<1>6. CASE ~(i >= nfds) /\ all_bits(i) # {}
  <2>1. pc' = "bit" /\ j' = 0 /\ i' = i
    BY Zenon, <1>6 DEF NextWord
  <2>2. i + 0 = i /\ 0 <= BITS_PER_USIZE
    BY <1>2
  <2>3. Found(i + j)'
    BY Zenon, <1>1, <1>2, <2>1, <2>2 DEF Found, Bits
  <2> QED
    BY Zenon, <1>1, <1>2, <2>1, <2>2, <2>3 DEF SelectInv, SelectTypes, SelectPCs
<1> QED
  BY Zenon, <1>4, <1>5, <1>6

LEMMA NextBitInv ==
  ASSUME SelectInv, NextBit
  PROVE  SelectInv'
<1>1. /\ pc = "bit" /\ UNCHANGED <<state, user, nfds, bits, steady>>
  BY Zenon DEF NextBit, selectArgs
<1>2. /\ SelectTypes /\ Found(i + j) /\ i \in Nat /\ j \in Nat /\ nfds \in Nat
      /\ BITS_PER_USIZE \in Nat /\ num \in Nat /\ j <= BITS_PER_USIZE
      /\ result \in [Kinds -> SUBSET Asked]
  BY Zenon, <1>1, SelectAssumption DEF SelectInv, SelectTypes
<1>3. \A c \in Kinds : bits[c] \subseteq Nat /\ result[c] \subseteq Nat
  BY Zenon, <1>2, AskedFinite DEF SelectTypes
<1>4. CASE j < BITS_PER_USIZE /\ i + j < nfds
  <2> DEFINE fd == i + j
             H == Hits(fd)
  <2>1. /\ result' = [c \in Kinds |-> IF c \in H THEN result[c] \cup {fd} ELSE result[c]]
        /\ num' = num + Cardinality(H) /\ j' = j + 1 /\ pc' = pc /\ i' = i
    BY Zenon, <1>4 DEF NextBit
  <2>2. fd \in Nat /\ fd < nfds /\ \A c \in Kinds : fd \notin result[c]
    BY <1>2, <1>3, <1>4 DEF Found
  <2>3. H \in SUBSET Kinds /\ \A c \in H : fd \in Asked /\ fd \in bits[c]
    BY Zenon, <1>2 DEF Hits, SelectTypes
  <2>4. result' \in [Kinds -> SUBSET Asked]
    BY Zenon, <1>2, <2>1, <2>3
  <2>5. num' = Bits(result')
    BY Zenon, <1>2, <2>1, <2>2, <2>3, BitsAfter DEF Found
  <2>6. num' \in Nat
    <3>1. \A c \in Kinds : Cardinality(result'[c]) \in Nat
      BY Zenon, <2>4, AskedFinite
    <3> QED
      BY <2>5, <3>1 DEF Bits, Kinds
  <2>7. \A c \in Kinds : \A x \in result'[c] : x < nfds /\ x < fd + 1
    <3> TAKE c \in Kinds
    <3> TAKE x \in result'[c]
    <3>1. x \in result[c] \/ x = fd
      BY Zenon, <2>1
    <3>2. CASE x \in result[c]
      BY <1>2, <1>3, <3>2 DEF Found
    <3>3. CASE x = fd
      BY <2>2, <3>3
    <3> QED
      BY Zenon, <3>1, <3>2, <3>3
  <2>8. ASSUME NEW c \in Kinds, NEW x \in steady,
               x < nfds, x < fd + 1, x \in bits[c], c \in state[x]
        PROVE  x \in result'[c]
    <3>1. x \in Nat
      BY Zenon, <1>3, <2>8
    <3>2. CASE x = fd
      BY Zenon, <2>1, <2>8, <3>2 DEF Hits
    <3>3. CASE x # fd
      <4>1. x < fd
        BY <2>2, <2>8, <3>1, <3>3
      <4>2. x \in result[c]
        BY Zenon, <1>2, <2>8, <4>1 DEF Found
      <4> QED
        BY Zenon, <2>1, <4>2
    <3> QED
      BY Zenon, <3>2, <3>3
  <2>9. fd + 1 = i' + j' /\ j' <= BITS_PER_USIZE /\ j' \in Nat
    BY <1>2, <1>4, <2>1
  <2> HIDE DEF fd, H
  <2>10. Found(i + j)'
    BY Zenon, <1>1, <2>5, <2>7, <2>8, <2>9 DEF Found
  <2>11. SelectTypes'
    BY Zenon, <1>1, <1>2, <2>1, <2>4, <2>6, <2>9 DEF SelectTypes
  <2> QED
    BY Zenon, <1>1, <2>1, <2>9, <2>10, <2>11 DEF SelectInv, SelectPCs
<1>5. CASE ~(j < BITS_PER_USIZE /\ i + j < nfds)
  <2>1. pc' = "word" /\ i' = i + BITS_PER_USIZE /\ UNCHANGED <<j, result, num>>
    BY Zenon, <1>5 DEF NextBit
  <2>2. \A x \in Nat : (x < nfds /\ x < i + BITS_PER_USIZE) => x < i + j
    BY <1>2, <1>5
  <2>3. \A c \in Kinds : \A x \in result[c] : x < i + BITS_PER_USIZE
    BY <1>2, <1>3 DEF Found
  <2>4. Found(i + BITS_PER_USIZE)
    BY Zenon, <1>2, <1>3, <2>2, <2>3 DEF Found
  <2>5. Found(i)'
    BY Zenon, <1>1, <2>1, <2>4 DEF Found, Bits
  <2>6. i' \in Nat
    BY <1>2, <2>1
  <2> QED
    BY Zenon, <1>1, <1>2, <2>1, <2>5, <2>6 DEF SelectInv, SelectTypes, SelectPCs
<1> QED
  BY Zenon, <1>4, <1>5

LEMMA WriteBackInv ==
  ASSUME SelectInv, WriteBack
  PROVE  SelectInv'
<1>1. /\ pc = "back" /\ user' = result /\ pc' = IF num > 0 THEN "done" ELSE "yield"
      /\ UNCHANGED <<state, nfds, bits, i, j, result, num, steady>>
  BY Zenon DEF WriteBack, selectArgs
<1>2. SelectTypes /\ Found(nfds) /\ num \in Nat
  BY Zenon, <1>1 DEF SelectInv, SelectTypes
<1>3. Found(nfds)'
  BY Zenon, <1>1, <1>2 DEF Found, Bits
<1>4. SelectTypes'
  BY Zenon, <1>1, <1>2 DEF SelectTypes
<1>5. pc' = "yield" => num' = 0
  BY <1>1, <1>2
<1> QED
  BY Zenon, <1>1, <1>3, <1>4, <1>5 DEF SelectInv, SelectPCs

LEMMA SelectYieldInv ==
  ASSUME SelectInv, SelectYield
  PROVE  SelectInv'
<1>1. /\ pc = "yield" /\ pc' \in {"round", "timeout"}
      /\ UNCHANGED <<state, user, nfds, bits, i, j, result, num, steady>>
  BY Zenon DEF SelectYield, poll_with_timeout
<1>2. SelectTypes /\ user = result /\ Bits(result) = 0
  BY Zenon, <1>1 DEF SelectInv, Found
<1>3. \A c \in Kinds : IsFiniteSet(user[c]) /\ Cardinality(user[c]) \in Nat
  BY Zenon, <1>2, AskedFinite DEF SelectTypes
<1>4. \A c \in Kinds : Cardinality(user[c]) = 0
  BY <1>2, <1>3 DEF Bits, Kinds
<1>5. \A c \in Kinds : user[c] = {}
  BY Zenon, <1>3, <1>4, FS_EmptySet
<1>6. user = NoFds
  BY Zenon, <1>2, <1>5 DEF SelectTypes, NoFds
<1> QED
  BY Zenon, <1>1, <1>2, <1>6 DEF SelectInv, SelectTypes, SelectPCs

LEMMA SelectChangeInv ==
  ASSUME SelectInv, NEW fd \in Asked, NEW s \in States[fd], SelectChange(fd, s)
  PROVE  SelectInv'
<1>1. /\ state' = [state EXCEPT ![fd] = s] /\ steady' = steady \ {fd}
      /\ UNCHANGED <<user, nfds, bits, pc, i, j, result, num>>
  BY Zenon DEF SelectChange, Change
<1>2. s \in SUBSET Kinds
  BY SelectAssumption DEF ReadyStates, Kinds
<1>3. SelectTypes'
  BY Zenon, <1>1, <1>2 DEF SelectInv, SelectTypes
<1>4. \A x \in steady' : x \in steady /\ state'[x] = state[x]
  BY Zenon, <1>1 DEF SelectInv, SelectTypes
<1>5. \A m : Found(m) => Found(m)'
  BY Zenon, <1>1, <1>4 DEF Found, Bits
<1>6. Found(i) => Found(i)'
  BY Zenon, <1>1, <1>5 DEF Found
<1>7. Found(i + j) => Found(i + j)'
  BY Zenon, <1>1, <1>5 DEF Found
<1>8. Found(nfds) => Found(nfds)'
  BY Zenon, <1>1, <1>5 DEF Found
<1> QED
  BY Zenon, <1>1, <1>3, <1>6, <1>7, <1>8 DEF SelectInv

LEMMA SelectNextInv == SelectInv /\ [SelectNext]_selectVars => SelectInv'
<1> SUFFICES ASSUME SelectInv, [SelectNext]_selectVars PROVE SelectInv'
  OBVIOUS
<1>1. CASE UNCHANGED selectVars
  BY Zenon, <1>1 DEF selectVars, SelectInv, SelectTypes, Found, Bits
<1> QED
  BY Zenon, <1>1, FromInv, SelectRoundInv, NextWordInv, NextBitInv, WriteBackInv, SelectYieldInv,
     SelectChangeInv DEF SelectNext, SelectCall

(* The scan of FdSets::poll_all counts what it finds, and neither a skipped *)
(* word nor the end at nfds leaves out a descriptor that stays ready.      *)
THEOREM SelectSpecInv == SelectSpec => []SelectInv
  BY SelectInitInv, SelectNextInv, PTL DEF SelectSpec

LEMMA SelectInvAnswers == SelectInv => SelectAnswers
  BY Zenon DEF SelectInv, Found, Bits, SelectAnswers


(***************************************************************************)
(* poll: of the entries before the next one, the count is the number with  *)
(* revents, and each whose descriptor kept its state has the answer of     *)
(* that state.                                                             *)
(***************************************************************************)
Nonzero(r, m) == {x \in 1..m : r[x] # {}}

PollTypes ==
  /\ state \in [Polled -> Asks \cup Bad] /\ steady \subseteq Polled
  /\ length \in Nat /\ entries \in [1..length -> Wanted]
  /\ revents \in [1..length -> Asks \cup Bad]
  /\ k \in Nat \ {0} /\ count \in Nat

Scanned(m) ==
  /\ count = Cardinality(Nonzero(revents, m))
  /\ \A x \in 1..m :
       entries[x].fd \in steady \cup {Ignored} => revents[x] = Answer(entries[x])

PollPCs == {"start", "round", "scan", "yield", "done", "timeout"}

PollInv ==
  /\ PollTypes /\ pc \in PollPCs
  /\ pc = "scan" => k <= length + 1 /\ Scanned(k - 1)
  /\ pc \in {"yield", "done"} => Scanned(length)
  /\ pc = "yield" => count = 0
  /\ pc = "timeout" => \A x \in 1..length : revents[x] = {}

-----------------------------------------------------------------------------
LEMMA NonzeroFinite ==
  ASSUME NEW r, NEW m \in Nat
  PROVE  IsFiniteSet(Nonzero(r, m)) /\ Cardinality(Nonzero(r, m)) \in Nat
<1>1. IsFiniteSet(1..m)
  BY FS_Interval
<1>2. IsFiniteSet(Nonzero(r, m))
  BY Zenon, <1>1, FS_Subset DEF Nonzero
<1> QED
  BY Zenon, <1>2, FS_CardinalityType

LEMMA NonzeroNext ==
  ASSUME NEW n \in Nat, NEW r \in [1..n -> Asks \cup Bad], NEW m \in 1..n, NEW a
  PROVE  LET r2 == [r EXCEPT ![m] = a]
         IN  Cardinality(Nonzero(r2, m)) =
               Cardinality(Nonzero(r, m - 1)) + (IF a = {} THEN 0 ELSE 1)
<1> DEFINE r2 == [r EXCEPT ![m] = a]
<1>1. m - 1 \in Nat
  OBVIOUS
<1>2. IsFiniteSet(Nonzero(r, m - 1)) /\ Cardinality(Nonzero(r, m - 1)) \in Nat
  BY Zenon, <1>1, NonzeroFinite
<1>3. \A x \in 1..m : r2[x] = IF x = m THEN a ELSE r[x]
  OBVIOUS
<1>4. CASE a = {}
  <2>1. Nonzero(r2, m) = Nonzero(r, m - 1)
    BY <1>3, <1>4 DEF Nonzero
  <2> QED
    BY <1>2, <1>4, <2>1
<1>5. CASE a # {}
  <2>1. Nonzero(r2, m) = Nonzero(r, m - 1) \cup {m} /\ m \notin Nonzero(r, m - 1)
    BY <1>3, <1>5 DEF Nonzero
  <2> QED
    BY Zenon, <1>2, <1>5, <2>1, FS_AddElement
<1> QED
  BY Zenon, <1>4, <1>5

LEMMA AnswerType ==
  ASSUME PollTypes, NEW x \in 1..length
  PROVE  Answer(entries[x]) \in Asks \cup Bad
<1>1. entries[x].fd \in Polled \cup {Ignored} /\ entries[x].events \in Asks
  BY Zenon DEF PollTypes, Wanted
<1>2. CASE entries[x].fd = Ignored
  BY Zenon, <1>2 DEF Answer, Asks
<1>3. CASE entries[x].fd # Ignored
  <2>1. state[entries[x].fd] \in Asks \cup Bad
    BY Zenon, <1>1, <1>3 DEF PollTypes
  <2> QED
    BY Zenon, <1>1, <1>3, <2>1 DEF Answer, Asks
<1> QED
  BY Zenon, <1>2, <1>3

LEMMA LengthIs ==
  ASSUME NEW n \in Nat, DOMAIN entries = 1..n
  PROVE  length = n
  BY FS_Interval DEF length

LEMMA PollInitInv == PollInit => PollInv
<1> SUFFICES ASSUME PollInit PROVE PollInv
  OBVIOUS
<1>1. PICK n \in Nat : entries \in [1..n -> Wanted] /\ revents \in [1..n -> Asks \cup Bad]
  <2>1. PICK n \in 0..MaxNfds :
          entries \in [1..n -> Wanted] /\ revents \in [1..n -> {{}, {"POLLIN"}}]
    BY Zenon DEF PollInit
  <2>2. n \in Nat
    BY <2>1, CallsAssumption
  <2>3. {{}, {"POLLIN"}} \subseteq Asks \cup Bad
    BY Zenon DEF Asks
  <2> QED
    BY Zenon, <2>1, <2>2, <2>3
<1>2. length = n
  BY Zenon, <1>1, LengthIs
<1>3. PollTypes
  BY <1>1, <1>2 DEF PollInit, PollTypes
<1> QED
  BY Zenon, <1>3 DEF PollInit, PollInv, PollPCs

(* The steps that leave the caller's array and the count alone.            *)
LEMMA PollKept ==
  ASSUME PollTypes, UNCHANGED <<entries, revents, count>>, k' \in Nat \ {0},
         state' \in [Polled -> Asks \cup Bad], steady' \subseteq Polled
  PROVE  PollTypes' /\ length' = length
<1>1. length' = length
  BY Zenon DEF length
<1> QED
  BY Zenon, <1>1 DEF PollTypes

LEMMA StartInv ==
  ASSUME PollInv, Start
  PROVE  PollInv'
<1>1. /\ UNCHANGED <<entries, revents, count, k, state, steady>>
      /\ pc' = IF length = 0 THEN "timeout" ELSE "round"
  BY Zenon DEF Start, pollArgs
<1>2. PollTypes' /\ length' = length /\ length \in Nat
  BY Zenon, <1>1, PollKept DEF PollInv, PollTypes
<1>3. length = 0 => 1..length = {}
  BY <1>2
<1> QED
  BY Zenon, <1>1, <1>2, <1>3 DEF PollInv, PollPCs

LEMMA RoundInv ==
  ASSUME PollInv, PollRound
  PROVE  PollInv'
<1>1. /\ UNCHANGED <<entries, revents, state>> /\ k' = 1 /\ count' = 0 /\ steady' = Polled
      /\ pc' = "scan"
  BY Zenon DEF PollRound, pollArgs
<1>2. length' = length /\ length \in Nat
  BY Zenon, <1>1 DEF length, PollInv, PollTypes
<1>3. PollTypes'
  BY <1>1, <1>2 DEF PollInv, PollTypes
<1>4. k' - 1 = 0 /\ k' <= length' + 1 /\ 1..0 = {}
  BY <1>1, <1>2
<1>5. Nonzero(revents', 0) = {}
  BY Zenon, <1>4 DEF Nonzero
<1>6. Scanned(k - 1)'
  BY Zenon, <1>1, <1>4, <1>5, FS_EmptySet DEF Scanned
<1> QED
  BY Zenon, <1>1, <1>3, <1>4, <1>6 DEF PollInv, PollPCs

LEMMA ScanInv ==
  ASSUME PollInv, Scan
  PROVE  PollInv'
<1> DEFINE a == Answer(entries[k])
<1>1. /\ UNCHANGED <<entries, state, steady, pc>> /\ pc = "scan" /\ k <= length
      /\ revents' = [revents EXCEPT ![k] = a] /\ k' = k + 1
      /\ count' = IF a = {} THEN count ELSE count + 1
  BY Zenon DEF Scan, pollArgs
<1>2. /\ PollTypes /\ length \in Nat /\ k \in 1..length /\ Scanned(k - 1)
      /\ revents \in [1..length -> Asks \cup Bad] /\ count \in Nat
  BY <1>1 DEF PollInv, PollTypes
<1>3. a \in Asks \cup Bad
  BY Zenon, <1>2, AnswerType
<1>4. length' = length
  BY Zenon, <1>1 DEF length
<1>5. revents' \in [1..length' -> Asks \cup Bad] /\ k' \in Nat \ {0} /\ count' \in Nat
  BY <1>1, <1>2, <1>3, <1>4
<1>6. PollTypes'
  BY Zenon, <1>1, <1>2, <1>4, <1>5 DEF PollTypes
<1>7. count' = Cardinality(Nonzero(revents', k))
  <2>1. count = Cardinality(Nonzero(revents, k - 1))
    BY Zenon, <1>2 DEF Scanned
  <2>2. Cardinality(Nonzero(revents', k)) =
          Cardinality(Nonzero(revents, k - 1)) + (IF a = {} THEN 0 ELSE 1)
    BY Zenon, <1>1, <1>2, NonzeroNext
  <2> QED
    BY <1>1, <1>2, <2>1, <2>2
<1>8. ASSUME NEW x \in 1..k, entries[x].fd \in steady \cup {Ignored}
      PROVE  revents'[x] = Answer(entries[x])
  <2>1. CASE x = k
    BY Zenon, <1>1, <1>2, <2>1
  <2>2. CASE x # k
    <3>1. x \in 1..(k - 1) /\ revents'[x] = revents[x]
      BY <1>1, <1>2, <2>2
    <3> QED
      BY Zenon, <1>2, <1>8, <3>1 DEF Scanned
  <2> QED
    BY Zenon, <2>1, <2>2
<1>9. \A e : Answer(e)' = Answer(e)
  BY Zenon, <1>1 DEF Answer
<1>10. k' - 1 = k /\ k' <= length' + 1
  <2>1. k \in 1..length /\ length \in Nat /\ k' = k + 1 /\ length' = length
    BY Zenon, <1>1, <1>2, <1>4
  <2> QED
    BY <2>1
<1>11. Scanned(k - 1)'
  BY Zenon, <1>1, <1>7, <1>8, <1>9, <1>10 DEF Scanned, Answer
<1> QED
  BY Zenon, <1>1, <1>6, <1>10, <1>11 DEF PollInv, PollPCs

LEMMA ScanEndInv ==
  ASSUME PollInv, ScanEnd
  PROVE  PollInv'
<1>1. /\ UNCHANGED <<entries, revents, count, k, state, steady>> /\ pc = "scan" /\ k > length
      /\ pc' = IF count > 0 THEN "done" ELSE "yield"
  BY Zenon DEF ScanEnd, pollArgs
<1>2. PollTypes' /\ length' = length
  BY Zenon, <1>1, PollKept DEF PollInv, PollTypes
<1>3. k - 1 = length /\ count \in Nat
  BY <1>1 DEF PollInv, PollTypes
<1>4. Scanned(length)
  BY Zenon, <1>1, <1>3 DEF PollInv
<1>5. Scanned(length)'
  BY Zenon, <1>1, <1>2, <1>4 DEF Scanned, Nonzero, Answer
<1>6. pc' = "yield" => count' = 0
  BY <1>1, <1>3
<1> QED
  BY Zenon, <1>1, <1>2, <1>5, <1>6 DEF PollInv, PollPCs

LEMMA PollYieldInv ==
  ASSUME PollInv, PollYield
  PROVE  PollInv'
<1>1. /\ UNCHANGED <<entries, revents, count, k, state, steady>> /\ pc = "yield"
      /\ pc' \in {"round", "timeout"}
  BY Zenon DEF PollYield, poll_with_timeout
<1>2. PollTypes' /\ length' = length /\ length \in Nat
  BY Zenon, <1>1, PollKept DEF PollInv, PollTypes
<1>3. IsFiniteSet(Nonzero(revents, length)) /\ Cardinality(Nonzero(revents, length)) = 0
  BY Zenon, <1>1, <1>2, NonzeroFinite DEF PollInv, Scanned
<1>4. Nonzero(revents, length) = {}
  BY Zenon, <1>3, FS_EmptySet
<1>5. \A x \in 1..length : revents[x] = {}
  BY Zenon, <1>4 DEF Nonzero
<1> QED
  BY Zenon, <1>1, <1>2, <1>5 DEF PollInv, PollPCs

LEMMA PollChangeInv ==
  ASSUME PollInv, NEW fd \in Polled, NEW s \in Asks \cup Bad, PollChange(fd, s)
  PROVE  PollInv'
<1>1. /\ UNCHANGED <<entries, revents, count, k, pc>> /\ state' = [state EXCEPT ![fd] = s]
      /\ steady' = steady \ {fd} /\ pc \notin {"start", "done", "timeout"}
  BY Zenon DEF PollChange, Change
<1>2. PollTypes' /\ length' = length /\ length \in Nat /\ k \in Nat \ {0}
  BY Zenon, <1>1, PollKept DEF PollInv, PollTypes
<1>3. ASSUME NEW m \in 0..length, Scanned(m)
      PROVE  Scanned(m)'
  <2>1. ASSUME NEW x \in 1..m, entries[x].fd \in steady' \cup {Ignored}
        PROVE  revents[x] = Answer(entries[x])'
    <3>1. entries[x].fd \in steady \cup {Ignored} /\ entries[x].fd # fd
      BY <1>1, <2>1, CallsAssumption DEF Ignored
    <3>2. revents[x] = Answer(entries[x])
      BY Zenon, <1>3, <3>1 DEF Scanned
    <3>3. entries[x].fd # Ignored => state'[entries[x].fd] = state[entries[x].fd]
      BY Zenon, <1>1, <3>1 DEF PollInv, PollTypes
    <3> QED
      BY Zenon, <1>1, <3>2, <3>3 DEF Answer
  <2> QED
    BY Zenon, <1>1, <1>3, <2>1 DEF Scanned
<1>4. pc = "scan" => k - 1 \in 0..length
  BY <1>2 DEF PollInv
<1>5. pc = "scan" => Scanned(k - 1)'
  BY Zenon, <1>3, <1>4, <1>1 DEF PollInv
<1>6. pc = "yield" => Scanned(length)'
  BY <1>1, <1>2, <1>3 DEF PollInv
<1> QED
  BY Zenon, <1>1, <1>2, <1>5, <1>6 DEF PollInv

LEMMA PollNextInv == PollInv /\ [PollNext]_pollVars => PollInv'
<1> SUFFICES ASSUME PollInv, [PollNext]_pollVars PROVE PollInv'
  OBVIOUS
<1>1. CASE UNCHANGED pollVars
  BY Zenon, <1>1 DEF pollVars, pollArgs, PollInv, PollTypes, Scanned, Nonzero, Answer, length
<1> QED
  BY Zenon, <1>1, StartInv, RoundInv, ScanInv, ScanEndInv, PollYieldInv, PollChangeInv
     DEF PollNext, PollCall

(* The scan of poll_fds counts the entries with revents, and each entry     *)
(* before the next one has the answer of this round.                       *)
THEOREM PollSpecInv == PollSpec => []PollInv
  BY PollInitInv, PollNextInv, PTL DEF PollSpec

LEMMA PollInvAnswers == PollInv => PollAnswers
  BY Zenon DEF PollInv, Scanned, Nonzero, PollAnswers

-----------------------------------------------------------------------------
(* Between them: the calls that are not made rest.                         *)
CallsInv ==
  \/ called = "select" /\ SelectInv /\ NoPoll
  \/ called = "poll" /\ PollInv /\ NoSelect
  \/ called = "splice" /\ NoSelect /\ NoPoll

LEMMA RestingSelect == NoSelect => SelectAnswers
<1> SUFFICES ASSUME NoSelect PROVE SelectAnswers
  OBVIOUS
<1>1. num = 0 /\ user = NoFds /\ bits = NoFds /\ \A c \in Kinds : NoFds[c] = {}
  BY Zenon DEF NoSelect, NoFds
<1>2. Cardinality({}) = 0
  BY Zenon, FS_EmptySet
<1>3. user["read"] = {} /\ user["write"] = {} /\ user["except"] = {}
  BY Zenon, <1>1 DEF Kinds
<1>4. num = Cardinality(user["read"]) + Cardinality(user["write"]) + Cardinality(user["except"])
  BY <1>1, <1>2, <1>3
<1> QED
  BY Zenon, <1>1, <1>4 DEF SelectAnswers

LEMMA RestingPoll == NoPoll => PollAnswers
<1> SUFFICES ASSUME NoPoll PROVE PollAnswers
  OBVIOUS
<1>1. DOMAIN entries = 1..0 /\ count = 0
  BY DEF NoPoll
<1>2. length = 0 /\ 1..length = {}
  BY <1>1, LengthIs
<1>3. {x \in 1..length : revents[x] # {}} = {}
  BY Zenon, <1>2
<1> QED
  BY Zenon, <1>1, <1>2, <1>3, FS_EmptySet DEF PollAnswers

LEMMA CallsInitInv == CallsInit => CallsInv
  BY Zenon, SelectInitInv, PollInitInv DEF CallsInit, CallsInv

LEMMA CallsNextInv == CallsInv /\ [CallsNext]_callVars => CallsInv'
<1> SUFFICES ASSUME CallsInv, [CallsNext]_callVars PROVE CallsInv'
  OBVIOUS
<1>1. called' = called
  BY Zenon DEF CallsNext, callVars, Selecting, Polling, Splicing
<1>2. called # "select" => UNCHANGED ofSelect
  BY Zenon DEF CallsNext, callVars, Selecting, Polling, Splicing
<1>3. called # "poll" => UNCHANGED ofPoll
  BY Zenon DEF CallsNext, callVars, Selecting, Polling, Splicing
<1>4. called = "select" => [SelectNext]_selectVars
  BY Zenon DEF CallsNext, callVars, ofSelect, ofBoth, selectVars, Polling, Splicing
<1>5. called = "poll" => [PollNext]_pollVars
  BY Zenon DEF CallsNext, callVars, ofPoll, ofBoth, pollVars, Selecting, Splicing
<1>6. called # "select" /\ NoSelect => NoSelect'
  BY Zenon, <1>2 DEF ofSelect, NoSelect
<1>7. called # "poll" /\ NoPoll => NoPoll'
  BY Zenon, <1>3 DEF ofPoll, NoPoll
<1>8. called = "select" /\ SelectInv => SelectInv'
  BY Zenon, <1>4, SelectNextInv
<1>9. called = "poll" /\ PollInv => PollInv'
  BY Zenon, <1>5, PollNextInv
<1> QED
  BY Zenon, <1>1, <1>6, <1>7, <1>8, <1>9 DEF CallsInv

LEMMA CallsInvAnswers == CallsInv => PollersAnswer
  BY Zenon, RestingSelect, RestingPoll, SelectInvAnswers, PollInvAnswers DEF CallsInv, PollersAnswer

(* What select and poll leave to their caller is what they count, nothing  *)
(* is left of an earlier round or after a timeout, and what stays ready    *)
(* through the last round is reported: for sets and arrays of every size   *)
(* and words of every length.                                              *)
THEOREM PollersAreRight == CallsSpec => []PollersAnswer
<1>1. CallsSpec => []CallsInv
  BY CallsInitInv, CallsNextInv, PTL DEF CallsSpec
<1> QED
  BY <1>1, CallsInvAnswers, PTL

-----------------------------------------------------------------------------
(***************************************************************************)
(* epoll                                                                   *)
(***************************************************************************)
Events == {"in", "out", "err"}
EventMaps == UNION {[S -> SUBSET Events] : S \in SUBSET Fds}
Report == [fd: Fds, ev: SUBSET Events]
Reports == Seq(Report)
EpollCalls ==
  [pc: PCs, ep: Epolls \cup {None}, op: {"add", "mod", "del"}, fd: Fds \cup {0},
   mask: SUBSET Events, timed: BOOLEAN, file: Plain \cup Epolls \cup {None},
   rest: EventMaps, found: Reports]

Types ==
  /\ files \in [Fds -> Plain \cup Epolls \cup {None}]
  /\ ready \in [Plain -> SUBSET {"in", "out"}]
  /\ events \in [Epolls -> EventMaps]
  /\ lock \in [Epolls -> Threads \cup {None}]
  /\ call \in [Threads -> EpollCalls]

Visiting(t) == call[t].pc \in {"poll_get", "poll_file"}

(* What a call of poll_all has collected, is looking at and has still to   *)
(* look at is part of the map.                                             *)
Within(c, e) ==
  /\ \A fd \in DOMAIN c.rest : fd \in DOMAIN e /\ c.rest[fd] = e[fd]
  /\ c.pc = "poll_file" => c.fd \in DOMAIN e /\ c.mask = e[c.fd]
  /\ \A n \in 1..Len(c.found) :
       c.found[n].fd \in DOMAIN e /\ c.found[n].ev \subseteq e[c.found[n].fd]

(* A call has an instance, epoll_ctl a descriptor; poll_all holds the lock *)
(* of its instance.                                                        *)
Has(c) ==
  /\ c.pc # "user" => c.ep \in Epolls
  /\ c.pc \in {"ctl_check", "ctl_apply"} => c.fd \in Fds
Holds ==
  \A t \in Threads :
    /\ Has(call[t])
    /\ Visiting(t) => lock[call[t].ep] = t

Collected == \A t \in Threads : Visiting(t) => Within(call[t], events[call[t].ep])

Inv == Types /\ Holds /\ Collected

-----------------------------------------------------------------------------
LEMMA EmptyMap == <<>> \in EventMaps /\ DOMAIN <<>> = {}
<1>1. <<>> \in [{} -> SUBSET Events]
  OBVIOUS
<1>2. {} \in SUBSET Fds
  OBVIOUS
<1> QED  BY Zenon, <1>1, <1>2 DEF EventMaps

LEMMA IdleType == Idle \in EpollCalls /\ <<>> \in Reports
<1>1. <<>> \in Reports
  BY DEF Reports
<1> QED  BY Zenon, <1>1, EmptyMap DEF Idle, EpollCalls, PCs

LEMMA PutDrop ==
  ASSUME NEW e \in EventMaps, NEW fd \in Fds, NEW mask \in SUBSET Events
  PROVE  /\ Put(e, fd, mask) \in EventMaps /\ Drop(e, fd) \in EventMaps
         /\ DOMAIN Drop(e, fd) = DOMAIN e \ {fd}
         /\ \A x \in DOMAIN e \ {fd} : Drop(e, fd)[x] = e[x]
<1>1. PICK S \in SUBSET Fds : e \in [S -> SUBSET Events]
  BY Zenon DEF EventMaps
<1>2. Put(e, fd, mask) \in [S \cup {fd} -> SUBSET Events] /\ S \cup {fd} \in SUBSET Fds
  BY Zenon, <1>1 DEF Put
<1>3. Drop(e, fd) \in [S \ {fd} -> SUBSET Events] /\ S \ {fd} \in SUBSET Fds
  BY Zenon, <1>1 DEF Drop
<1> QED  BY Zenon, <1>1, <1>2, <1>3 DEF EventMaps, Drop

LEMMA InitInv == Init => Inv
<1> SUFFICES ASSUME Init PROVE Inv
  OBVIOUS
<1>1. Types
  BY Zenon, EmptyMap, IdleType DEF Init, Types
<1>2. \A t \in Threads : call[t].pc = "user"
  BY Zenon DEF Init, Idle
<1> QED  BY Zenon, <1>1, <1>2 DEF Inv, Holds, Has, Collected, Visiting

(* A step of t that leaves the locks and the maps alone, and after which t *)
(* is not in poll_all.                                                     *)
LEMMA OutsideInv ==
  ASSUME Inv, NEW t \in Threads, NEW c \in EpollCalls, call' = [call EXCEPT ![t] = c],
         c.pc \notin {"poll_get", "poll_file"}, Has(c),
         files' = files, ready' = ready, events' = events, lock' = lock
  PROVE  Inv'
<1>1. Types'
  BY Zenon DEF Inv, Types
<1>2. call'[t] = c /\ \A u \in Threads \ {t} : call'[u] = call[u]
  BY Zenon DEF Inv, Types
<1>3. Holds'
  <2>1. Has(call'[t]) /\ ~Visiting(t)'
    BY Zenon, <1>2 DEF Visiting
  <2>2. ASSUME NEW u \in Threads \ {t}
        PROVE  Has(call'[u]) /\ (Visiting(u)' => lock'[call'[u].ep] = u)
    BY Zenon, <1>2 DEF Inv, Holds, Visiting
  <2> QED  BY Zenon, <2>1, <2>2 DEF Holds, Has
<1>4. Collected'
  BY Zenon, <1>2 DEF Inv, Collected, Visiting
<1> QED  BY Zenon, <1>1, <1>3, <1>4 DEF Inv

LEMMA FileInv ==
  ASSUME Inv, call' = call, events' = events, lock' = lock,
         files' \in [Fds -> Plain \cup Epolls \cup {None}],
         ready' \in [Plain -> SUBSET {"in", "out"}]
  PROVE  Inv'
<1>1. Types'
  BY Zenon DEF Inv, Types
<1>2. Holds'
  BY Zenon DEF Inv, Holds, Has, Visiting
<1>3. Collected'
  BY Zenon DEF Inv, Collected, Within, Visiting
<1> QED  BY Zenon, <1>1, <1>2, <1>3 DEF Inv

LEMMA BeginInv ==
  ASSUME Inv, NEW t \in Threads, Begin(t)
  PROVE  Inv'
<1>1. ASSUME NEW fd \in Fds, NEW f \in Plain \cup Epolls, OpenFd(t, fd, f) PROVE Inv'
  BY Zenon, <1>1, FileInv DEF OpenFd, Inv, Types
<1>2. ASSUME NEW fd \in Fds, CloseFd(t, fd) PROVE Inv'
  BY Zenon, <1>2, FileInv DEF CloseFd, Inv, Types
<1>3. ASSUME NEW epfd \in EpollFds, NEW fd \in WatchFds, NEW op \in {"add", "mod", "del"},
             NEW mask \in Masks, Ctl(t, epfd, op, fd, mask)
      PROVE  Inv'
  <2> DEFINE c == [Idle EXCEPT !.pc = "ctl_check", !.ep = files[epfd],
                               !.op = op, !.fd = fd, !.mask = mask]
  <2>1. c \in EpollCalls /\ c.pc = "ctl_check" /\ c.ep \in Epolls /\ c.fd \in Fds
    BY Zenon, <1>3, IdleType, EpollAssumption DEF Ctl, EpollCalls, PCs, Events
  <2> QED  BY Zenon, <1>3, <2>1, OutsideInv DEF Ctl, Has
<1>4. ASSUME NEW epfd \in EpollFds, NEW b \in BOOLEAN, EpollWait(t, epfd, b)
      PROVE  Inv'
  <2> DEFINE c == [Idle EXCEPT !.pc = "poll_lock", !.ep = files[epfd], !.timed = b]
  <2>1. c \in EpollCalls /\ c.pc = "poll_lock" /\ c.ep \in Epolls
    BY Zenon, <1>4, IdleType, EpollAssumption DEF EpollWait, EpollCalls, PCs
  <2> QED  BY Zenon, <1>4, <2>1, OutsideInv DEF EpollWait, Has
<1> QED  BY Zenon, <1>1, <1>2, <1>3, <1>4 DEF Begin

LEMMA CtlCheckInv ==
  ASSUME Inv, NEW t \in Threads, CtlCheck(t)
  PROVE  Inv'
<1> DEFINE c == IF files[call[t].fd] = None THEN Idle ELSE [call[t] EXCEPT !.pc = "ctl_apply"]
<1>1. call[t] \in EpollCalls /\ call[t].ep \in Epolls /\ call[t].fd \in Fds
  BY Zenon DEF Inv, Types, Holds, Has, CtlCheck
<1>2. c \in EpollCalls /\ c.pc \in {"user", "ctl_apply"} /\ Has(c)
  BY Zenon, <1>1, IdleType DEF EpollCalls, PCs, Idle, Has
<1> QED  BY Zenon, <1>2, OutsideInv DEF CtlCheck

LEMMA WaitAgainInv ==
  ASSUME Inv, NEW t \in Threads, Expire(t) \/ Again(t)
  PROVE  Inv'
<1>1. CASE Expire(t)
  <2>1. Idle.pc = "user"
    BY Zenon DEF Idle
  <2> QED  BY Zenon, <1>1, <2>1, IdleType, OutsideInv DEF Expire, Has
<1>2. CASE Again(t)
  <2> DEFINE c == [call[t] EXCEPT !.pc = "poll_lock"]
  <2>1. call[t] \in EpollCalls /\ call[t].ep \in Epolls
    BY Zenon, <1>2 DEF Inv, Types, Holds, Has, Again
  <2>2. c \in EpollCalls /\ c.pc = "poll_lock" /\ c.ep \in Epolls
    BY Zenon, <2>1 DEF EpollCalls, PCs
  <2> QED  BY Zenon, <1>2, <2>2, OutsideInv DEF Again, Has
<1> QED  BY Zenon, <1>1, <1>2

-----------------------------------------------------------------------------
(* The thread that changes a map finds the lock of its instance free: no   *)
(* call of poll_all on it is under way.                                    *)
LEMMA CtlApplyInv ==
  ASSUME Inv, NEW t \in Threads, CtlApply(t)
  PROVE  Inv'
<1> DEFINE ep == call[t].ep
<1>1. /\ call[t] \in EpollCalls /\ call[t].fd \in Fds
      /\ ep \in Epolls /\ lock[ep] = None /\ events[ep] \in EventMaps
  BY Zenon DEF Inv, Types, Holds, Has, CtlApply
<1>2. PICK e : e \in EventMaps /\ events' = [events EXCEPT ![ep] = e]
  <2>1. call[t].mask \in SUBSET Events
    BY Zenon, <1>1 DEF EpollCalls
  <2> QED  BY Zenon, <1>1, <2>1, PutDrop DEF CtlApply
<1>3. call'[t].pc = "user" /\ \A u \in Threads \ {t} : call'[u] = call[u]
  BY Zenon DEF Inv, Types, CtlApply, Idle
<1>4. Types'
  <2>1. events' \in [Epolls -> EventMaps]
    BY Zenon, <1>1, <1>2 DEF Inv, Types
  <2> QED  BY Zenon, <2>1, IdleType DEF Inv, Types, CtlApply
<1>5. Holds'
  BY Zenon, <1>3 DEF Inv, Holds, Has, Visiting, CtlApply
<1>6. ASSUME NEW u \in Threads, Visiting(u)' PROVE Within(call[u], events[call[u].ep])'
  <2>1. u # t /\ Visiting(u) /\ call'[u] = call[u]
    BY Zenon, <1>3, <1>6 DEF Visiting
  <2>2. call[u].ep \in Epolls /\ lock[call[u].ep] = u
    BY Zenon, <2>1 DEF Inv, Holds, Has, Visiting
  <2>3. call[u].ep # ep
    BY Zenon, <1>1, <2>2, EpollAssumption
  <2>4. events'[call'[u].ep] = events[call[u].ep]
    BY Zenon, <1>2, <2>1, <2>2, <2>3 DEF Inv, Types
  <2>5. Within(call[u], events[call[u].ep])
    BY Zenon, <2>1 DEF Inv, Collected
  <2> QED  BY Zenon, <2>1, <2>4, <2>5
<1> QED  BY Zenon, <1>4, <1>5, <1>6 DEF Inv, Collected

LEMMA PollLockInv ==
  ASSUME Inv, NEW t \in Threads, PollLock(t)
  PROVE  Inv'
<1> DEFINE ep == call[t].ep
           c == [call[t] EXCEPT !.pc = "poll_get", !.rest = events[ep], !.found = <<>>]
<1>1. call[t] \in EpollCalls /\ ep \in Epolls /\ lock[ep] = None /\ events[ep] \in EventMaps
  BY Zenon DEF Inv, Types, Holds, Has, PollLock
<1>2. c \in EpollCalls /\ c.pc = "poll_get" /\ c.ep = ep /\ c.rest = events[ep] /\ c.found = <<>>
  BY Zenon, <1>1, IdleType DEF EpollCalls, PCs
<1>3. call' = [call EXCEPT ![t] = c]
  BY Zenon DEF PollLock
<1>4. call'[t] = c /\ \A u \in Threads \ {t} : call'[u] = call[u]
  BY Zenon, <1>3 DEF Inv, Types
<1>5. Types'
  BY Zenon, <1>1, <1>2, <1>3 DEF Inv, Types, PollLock
<1>6. Holds'
  <2>1. ASSUME NEW u \in Threads \ {t}, Visiting(u)' PROVE lock'[call'[u].ep] = u
    <3>1. call[u].ep \in Epolls /\ lock[call[u].ep] = u
      BY Zenon, <1>4, <2>1 DEF Inv, Holds, Has, Visiting
    <3>2. call[u].ep # ep
      BY Zenon, <1>1, <3>1, EpollAssumption
    <3> QED  BY Zenon, <1>4, <3>1, <3>2 DEF Inv, Types, PollLock
  <2>2. lock'[call'[t].ep] = t /\ call'[t].ep \in Epolls
    BY Zenon, <1>1, <1>2, <1>4 DEF Inv, Types, PollLock
  <2>3. \A u \in Threads : Has(call'[u])
    BY Zenon, <1>1, <1>2, <1>4 DEF Inv, Holds, Has
  <2> QED  BY Zenon, <2>1, <2>2, <2>3 DEF Holds, Has
<1>7. Collected'
  <2>1. Within(c, events[ep])
    BY <1>2 DEF Within
  <2>2. events' = events
    BY Zenon DEF PollLock
  <2>3. Within(call[t], events[call[t].ep])'
    BY Zenon, <1>2, <1>4, <2>1, <2>2 DEF Within
  <2>4. ASSUME NEW u \in Threads \ {t}, Visiting(u)' PROVE Within(call[u], events[call[u].ep])'
    <3>1. call'[u] = call[u] /\ Visiting(u)
      BY Zenon, <1>4, <2>4 DEF Visiting
    <3>2. Within(call[u], events[call[u].ep])
      BY Zenon, <3>1 DEF Inv, Collected
    <3> QED  BY Zenon, <2>2, <3>1, <3>2 DEF Within
  <2> QED  BY Zenon, <2>3, <2>4 DEF Collected
<1> QED  BY Zenon, <1>5, <1>6, <1>7 DEF Inv

(* A step of t inside poll_all.                                            *)
LEMMA InsideInv ==
  ASSUME Inv, NEW t \in Threads, Visiting(t), NEW c \in EpollCalls, call' = [call EXCEPT ![t] = c],
         c.pc \in {"poll_get", "poll_file"}, c.ep = call[t].ep, Within(c, events[c.ep]),
         files' = files, ready' = ready, events' = events, lock' = lock
  PROVE  Inv'
<1>1. call'[t] = c /\ \A u \in Threads \ {t} : call'[u] = call[u]
  BY Zenon DEF Inv, Types
<1>2. Types'
  BY Zenon DEF Inv, Types
<1>3. Holds'
  <2>1. Has(call'[t]) /\ lock'[call'[t].ep] = t
    BY Zenon, <1>1 DEF Inv, Holds, Has, Visiting
  <2>2. ASSUME NEW u \in Threads \ {t}
        PROVE  Has(call'[u]) /\ (Visiting(u)' => lock'[call'[u].ep] = u)
    BY Zenon, <1>1 DEF Inv, Holds, Visiting
  <2> QED  BY Zenon, <2>1, <2>2 DEF Holds, Has
<1>4. Within(call[t], events[call[t].ep])'
  BY Zenon, <1>1 DEF Within
<1>5. ASSUME NEW u \in Threads \ {t}, Visiting(u)' PROVE Within(call[u], events[call[u].ep])'
  <2>1. call'[u] = call[u] /\ Visiting(u)
    BY Zenon, <1>1, <1>5 DEF Visiting
  <2>2. Within(call[u], events[call[u].ep])
    BY Zenon, <2>1 DEF Inv, Collected
  <2> QED  BY Zenon, <2>1, <2>2 DEF Within
<1> QED  BY Zenon, <1>2, <1>3, <1>4, <1>5 DEF Inv, Collected

LEMMA PollGetInv ==
  ASSUME Inv, NEW t \in Threads, PollGet(t)
  PROVE  Inv'
<1>1. /\ call[t] \in EpollCalls /\ Visiting(t) /\ Within(call[t], events[call[t].ep])
      /\ call[t].rest \in EventMaps
  <2>1. call[t] \in EpollCalls /\ Visiting(t)
    BY Zenon DEF Inv, Types, Visiting, PollGet
  <2> QED  BY Zenon, <2>1 DEF Inv, Collected, EpollCalls
<1>2. PICK fd \in DOMAIN call[t].rest :
        call' = [call EXCEPT ![t] = [call[t] EXCEPT !.pc = "poll_file", !.fd = fd,
                  !.mask = call[t].rest[fd], !.file = files[fd], !.rest = Drop(call[t].rest, fd)]]
  BY Zenon DEF PollGet, Lowest
<1>3. fd \in Fds /\ call[t].rest[fd] \in SUBSET Events
  BY Zenon, <1>1, <1>2 DEF EventMaps
<1>4. /\ Drop(call[t].rest, fd) \in EventMaps
      /\ DOMAIN Drop(call[t].rest, fd) = DOMAIN call[t].rest \ {fd}
      /\ \A x \in DOMAIN call[t].rest \ {fd} : Drop(call[t].rest, fd)[x] = call[t].rest[x]
  BY Zenon, <1>1, <1>3, PutDrop
<1>5. files[fd] \in Plain \cup Epolls \cup {None}
  BY Zenon, <1>3 DEF Inv, Types
<1> DEFINE c == [call[t] EXCEPT !.pc = "poll_file", !.fd = fd, !.mask = call[t].rest[fd],
                   !.file = files[fd], !.rest = Drop(call[t].rest, fd)]
<1>6. c \in EpollCalls
  BY Zenon, <1>1, <1>3, <1>4, <1>5 DEF EpollCalls, PCs
<1>7. /\ c.pc = "poll_file" /\ c.ep = call[t].ep /\ c.fd = fd /\ c.mask = call[t].rest[fd]
      /\ c.rest = Drop(call[t].rest, fd) /\ c.found = call[t].found
  <2>1. c.pc = "poll_file" /\ c.ep = call[t].ep /\ c.fd = fd
    BY Zenon, <1>1 DEF EpollCalls
  <2>2. c.mask = call[t].rest[fd] /\ c.rest = Drop(call[t].rest, fd)
    BY Zenon, <1>1 DEF EpollCalls
  <2>3. c.found = call[t].found
    BY Zenon, <1>1 DEF EpollCalls
  <2> QED  BY Zenon, <2>1, <2>2, <2>3
<1> HIDE DEF c
<1>8. Within(c, events[c.ep])
  <2>1. \A x \in DOMAIN c.rest : x \in DOMAIN events[c.ep] /\ c.rest[x] = events[c.ep][x]
    <3>1. \A x \in DOMAIN call[t].rest :
            x \in DOMAIN events[c.ep] /\ call[t].rest[x] = events[c.ep][x]
      BY Zenon, <1>1, <1>7 DEF Within
    <3> QED  BY Zenon, <1>4, <1>7, <3>1
  <2>2. c.fd \in DOMAIN events[c.ep] /\ c.mask = events[c.ep][c.fd]
    BY Zenon, <1>1, <1>2, <1>7 DEF Within
  <2>3. \A n \in 1..Len(c.found) :
          /\ c.found[n].fd \in DOMAIN events[c.ep]
          /\ c.found[n].ev \subseteq events[c.ep][c.found[n].fd]
    BY Zenon, <1>1, <1>7 DEF Within
  <2> QED  BY Zenon, <2>1, <2>2, <2>3 DEF Within
<1>9. call' = [call EXCEPT ![t] = c]
  BY Zenon, <1>2 DEF c
<1> QED  BY Zenon, <1>1, <1>6, <1>7, <1>8, <1>9, InsideInv DEF PollGet

(* What is reported is part of what was asked for.                         *)
LEMMA ReportedAsked ==
  ASSUME NEW f, NEW mask \in SUBSET Events
  PROVE  Reported(f, mask) \subseteq mask
  BY Zenon DEF Reported

LEMMA Appended ==
  ASSUME NEW R, NEW q \in Seq(R), NEW x \in R
  PROVE  /\ Append(q, x) \in Seq(R)
         /\ \A n \in 1..Len(Append(q, x)) :
              Append(q, x)[n] = x \/ (n \in 1..Len(q) /\ Append(q, x)[n] = q[n])
  OBVIOUS

LEMMA PollFileInv ==
  ASSUME Inv, NEW t \in Threads, PollFile(t)
  PROVE  Inv'
<1> DEFINE r == Reported(call[t].file, call[t].mask)
           e == events[call[t].ep]
           new == IF r = {} THEN call[t].found
                  ELSE Append(call[t].found, [fd |-> call[t].fd, ev |-> r])
           c == [call[t] EXCEPT !.pc = "poll_get", !.file = None, !.found = new]
<1>1. call[t] \in EpollCalls /\ Visiting(t) /\ call[t].pc = "poll_file" /\ Within(call[t], e)
  BY Zenon DEF Inv, Types, Visiting, PollFile, Collected
<1>2. /\ call[t].mask \in SUBSET Events /\ call[t].found \in Reports
      /\ call[t].ep \in Epolls /\ e \in EventMaps
  <2>1. call[t].mask \in SUBSET Events /\ call[t].found \in Reports
    BY Zenon, <1>1 DEF EpollCalls
  <2>2. call[t].ep \in Epolls
    BY Zenon, <1>1 DEF Inv, Holds, Has
  <2> QED  BY Zenon, <2>1, <2>2 DEF Inv, Types
<1>3. call[t].fd \in DOMAIN e /\ call[t].mask = e[call[t].fd] /\ call[t].fd \in Fds
  <2>1. call[t].fd \in DOMAIN e /\ call[t].mask = e[call[t].fd]
    BY Zenon, <1>1 DEF Within
  <2> QED  BY Zenon, <1>2, <2>1 DEF EventMaps
<1>4. r \subseteq call[t].mask /\ r \in SUBSET Events
  BY Zenon, <1>2, ReportedAsked
<1>5. /\ new \in Reports
      /\ \A n \in 1..Len(new) : new[n].fd \in DOMAIN e /\ new[n].ev \subseteq e[new[n].fd]
  <2> HIDE DEF r, e
  <2>1. \A n \in 1..Len(call[t].found) :
          call[t].found[n].fd \in DOMAIN e /\ call[t].found[n].ev \subseteq e[call[t].found[n].fd]
    BY Zenon, <1>1 DEF Within
  <2> DEFINE x == [fd |-> call[t].fd, ev |-> r]
  <2>2. x \in Report /\ x.fd \in DOMAIN e /\ x.ev \subseteq e[x.fd]
    BY Zenon, <1>3, <1>4 DEF Report
  <2> HIDE DEF x
  <2>3. CASE r = {}
    BY Zenon, <1>2, <2>1, <2>3
  <2>4. CASE r # {}
    <3>1. new = Append(call[t].found, x)
      BY Zenon, <2>4 DEF x
    <3> HIDE DEF new
    <3>2. \A n \in 1..Len(new) : new[n] = x \/ (n \in 1..Len(call[t].found) /\ new[n] = call[t].found[n])
      BY <1>2, <2>2, <3>1, Appended DEF Reports
    <3>3. new \in Reports
      BY Zenon, <1>2, <2>2, <3>1, Appended DEF Reports
    <3> QED  BY Zenon, <2>1, <2>2, <3>2, <3>3
  <2> QED  BY Zenon, <2>3, <2>4
<1> HIDE DEF new
<1>6. c \in EpollCalls
  BY Zenon, <1>1, <1>5 DEF EpollCalls, PCs
<1>7. /\ c.pc = "poll_get" /\ c.ep = call[t].ep /\ c.rest = call[t].rest /\ c.found = new
  BY Zenon, <1>1 DEF EpollCalls
<1>8. Within(c, events[c.ep])
  BY Zenon, <1>1, <1>5, <1>7 DEF Within
<1>9. call' = [call EXCEPT ![t] = c]
  BY Zenon DEF PollFile, new
<1> HIDE DEF c
<1> QED  BY Zenon, <1>1, <1>6, <1>7, <1>8, <1>9, InsideInv DEF PollFile

LEMMA PollEndInv ==
  ASSUME Inv, NEW t \in Threads, PollEnd(t)
  PROVE  Inv'
<1> DEFINE ep == call[t].ep
           c == IF call[t].found # <<>> THEN Idle
                ELSE [call[t] EXCEPT !.pc = "yield", !.rest = <<>>]
<1>1. call[t] \in EpollCalls /\ ep \in Epolls /\ lock[ep] = t
  BY Zenon DEF Inv, Types, Holds, Has, Visiting, PollEnd
<1>2. c \in EpollCalls /\ c.pc \in {"user", "yield"} /\ Has(c)
  BY Zenon, <1>1, IdleType, EmptyMap DEF EpollCalls, PCs, Idle, Has
<1>3. call' = [call EXCEPT ![t] = c] /\ lock' = [lock EXCEPT ![ep] = None]
  BY Zenon DEF PollEnd
<1> HIDE DEF c
<1>4. call'[t] = c /\ \A u \in Threads \ {t} : call'[u] = call[u]
  BY Zenon, <1>3 DEF Inv, Types
<1>5. Types'
  BY <1>1, <1>2, <1>3 DEF Inv, Types, PollEnd
<1>6. ASSUME NEW u \in Threads, Visiting(u)'
      PROVE  lock'[call'[u].ep] = u /\ Within(call[u], events[call[u].ep])'
  <2>1. u # t /\ Visiting(u) /\ call'[u] = call[u]
    BY Zenon, <1>2, <1>4, <1>6 DEF Visiting
  <2>2. call[u].ep \in Epolls /\ lock[call[u].ep] = u /\ Within(call[u], events[call[u].ep])
    BY Zenon, <2>1 DEF Inv, Holds, Has, Visiting, Collected
  <2>3. call[u].ep # ep
    BY Zenon, <1>1, <2>1, <2>2
  <2>4. lock'[call[u].ep] = lock[call[u].ep] /\ events' = events
    BY Zenon, <1>1, <1>3, <2>2, <2>3 DEF Inv, Types, PollEnd
  <2> QED  BY Zenon, <2>1, <2>2, <2>4
<1>7. \A u \in Threads : Has(call'[u])
  BY Zenon, <1>2, <1>4 DEF Inv, Holds
<1> QED  BY Zenon, <1>5, <1>6, <1>7 DEF Inv, Holds, Has, Collected

LEMMA NextInv == Inv /\ [Next]_vars => Inv'
<1> SUFFICES ASSUME Inv, [Next]_vars PROVE Inv'
  OBVIOUS
<1>1. CASE UNCHANGED vars
  BY Zenon, <1>1, FileInv DEF vars, Inv, Types
<1>2. ASSUME NEW f \in Plain, NEW r \in SUBSET {"in", "out"}, SetReady(f, r) PROVE Inv'
  BY Zenon, <1>2, FileInv DEF SetReady, Inv, Types
<1>3. ASSUME NEW t \in Threads, Continue(t) PROVE Inv'
  BY Zenon, <1>3, CtlCheckInv, CtlApplyInv, PollLockInv, PollGetInv, PollFileInv, PollEndInv,
     WaitAgainInv DEF Continue
<1> QED  BY Zenon, <1>1, <1>2, <1>3, BeginInv, WaitAgainInv DEF Next

(* Instances, locks and maps fit together whatever the calls do.           *)
THEOREM SpecInv == Spec => []Inv
  BY InitInv, NextInv, PTL DEF Spec

LEMMA InvReports == Inv => ReportsRegistered
  BY Zenon DEF Inv, Collected, Within, Visiting, ReportsRegistered

(* poll_all holds the spin lock from the first descriptor to the last, so  *)
(* that what epoll_wait returns is registered when it lets go of the lock. *)
THEOREM ReportsAreRegistered == Spec => []ReportsRegistered
  BY SpecInv, InvReports, PTL
=============================================================================
