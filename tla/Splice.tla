------------------------------- MODULE Splice ------------------------------
(***************************************************************************)
(* splice and copy_file_range (api/src/imp/fs/io.rs): the three loops that *)
(* read a chunk from a file or a pipe and write it to a file or a pipe.    *)
(* Others use the pipe at the same time; reads and writes of files may be  *)
(* short or fail.  The bytes of the input are numbered.                    *)
(***************************************************************************)
EXTENDS Integers, Sequences

CONSTANTS DEFAULT_BUFFER_SIZE, RING_BUFFER_SIZE,
          MaxBytes       \* bound on the bytes of the input

VARIABLES kind,       \* which of the three loops
          len,        \* bytes asked for
          remaining, total,   \* remaining, total_copied
          input,      \* bytes of the file, or written to the pipe, so far read
          made,       \* bytes the input has; a pipe's writer makes more
          pipe,       \* the ring buffer
          open,       \* the other end of the pipe is open
          buf,        \* the chunk that was read
          put,        \* bytes of it that a write to a pipe has put in
          chunk,      \* chunk_size
          at,
          got, out,   \* all bytes read and all bytes written by the call
          rival       \* someone else has read the pipe spliced from

(* The loops: sys_splice runs the one from or the one to a pipe.           *)
Loops == {"copy", "from_pipe", "to_pipe"}

asked == <<kind, len>>
spliceVars == <<asked, remaining, total, input, made, pipe, open, buf, put, chunk, at, got, out, rival>>
log == <<got, out, rival>>

Least(a, b) == IF a < b THEN a ELSE b
Bytes(from, n) == [x \in 1..n |-> from + x]

LoopEnd ==
  /\ at = "loop" /\ remaining = 0
  /\ at' = "done"
  /\ UNCHANGED <<asked, remaining, total, input, made, pipe, open, buf, put, chunk, log>>

(* read or read_at of a file; its end ends the loop.                       *)
ReadFile(n) ==
  /\ at = "loop" /\ remaining > 0 /\ kind \in {"copy", "to_pipe"}
  /\ n \in 0..Least(DEFAULT_BUFFER_SIZE, remaining) /\ n <= made - input
  /\ n = 0 => input = made
  /\ buf' = Bytes(input, n) /\ got' = got \o Bytes(input, n) /\ input' = input + n
  /\ at' = IF n = 0 THEN "done" ELSE "write"
  /\ UNCHANGED <<asked, remaining, total, made, pipe, open, put, chunk, out, rival>>

(* Variant: the pipe is read without a look at what it holds.              *)
PipeAvailableAlways ==
  /\ at = "loop" /\ remaining > 0 /\ kind = "from_pipe"
  /\ chunk' = Least(DEFAULT_BUFFER_SIZE, remaining) /\ at' = "pipe_read"
  /\ UNCHANGED <<asked, remaining, total, input, made, pipe, open, buf, put, log>>

(* available_data: nothing there ends the loop, whether closed or not.     *)
PipeAvailable ==
  /\ at = "loop" /\ remaining > 0 /\ kind = "from_pipe"
  /\ chunk' = Least(Least(DEFAULT_BUFFER_SIZE, remaining), Len(pipe))
  /\ at' = IF pipe = <<>> THEN "done" ELSE "pipe_read"
  /\ UNCHANGED <<asked, remaining, total, input, made, pipe, open, buf, put, log>>

(* Pipe::read waits for data while the write end is open.                  *)
PipeRead ==
  LET n == Least(chunk, Len(pipe))
  IN  /\ at = "pipe_read" /\ (n > 0 \/ ~open)
      /\ buf' = SubSeq(pipe, 1, n) /\ pipe' = SubSeq(pipe, n + 1, Len(pipe))
      /\ got' = got \o SubSeq(pipe, 1, n)
      /\ at' = IF n = 0 THEN "done" ELSE "write"
      /\ UNCHANGED <<asked, remaining, total, input, made, open, put, chunk, out, rival>>

(* The end of a round: n bytes of the chunk were written.                  *)
Wrote(n) ==
  /\ total' = total + n /\ remaining' = remaining - n
  /\ at' = IF n < Len(buf) THEN "done" ELSE "loop"

(* Variant: the loop goes on after a short write.                          *)
WriteFileGoOn(n) ==
  /\ at = "write" /\ kind # "to_pipe" /\ n \in 0..Len(buf)
  /\ total' = total + n /\ remaining' = remaining - n /\ at' = "loop"
  /\ out' = out \o SubSeq(buf, 1, n)
  /\ UNCHANGED <<asked, input, made, pipe, open, buf, put, chunk, got, rival>>

WriteFile(n) ==
  /\ at = "write" /\ kind # "to_pipe" /\ n \in 0..Len(buf)
  /\ Wrote(n)
  /\ out' = out \o SubSeq(buf, 1, n)
  /\ UNCHANGED <<asked, input, made, pipe, open, buf, put, chunk, got, rival>>

(* Pipe::write: EPIPE, and otherwise round after round until all is in.    *)
WritePipe ==
  /\ at = "write" /\ kind = "to_pipe"
  /\ at' = IF open THEN "pipe_write" ELSE "error"
  /\ put' = 0
  /\ UNCHANGED <<asked, remaining, total, input, made, pipe, open, buf, chunk, log>>

(* A round with space in the ring; all written is noticed with space left. *)
PipeWrite ==
  LET space == RING_BUFFER_SIZE - Len(pipe)
      n == Least(space, Len(buf) - put)
      now == SubSeq(buf, put + 1, put + n)
  IN  /\ at = "pipe_write" /\ space > 0
      /\ pipe' = pipe \o now /\ out' = out \o now /\ put' = put + n
      /\ IF n < space THEN Wrote(put + n) ELSE UNCHANGED <<total, remaining, at>>
      /\ UNCHANGED <<asked, input, made, open, buf, chunk, got, rival>>

PipeWriteClosed ==
  /\ at = "pipe_write" /\ Len(pipe) = RING_BUFFER_SIZE /\ ~open
  /\ Wrote(put)
  /\ UNCHANGED <<asked, input, made, pipe, open, buf, put, chunk, log>>

(* Reading or writing a file fails: the call's count is not returned.      *)
FileFails ==
  /\ \/ at = "loop" /\ remaining > 0 /\ kind # "from_pipe"
     \/ at = "write" /\ kind # "to_pipe"
  /\ at' = "error"
  /\ UNCHANGED <<asked, remaining, total, input, made, pipe, open, buf, put, chunk, log>>

(* The other users of the pipe.                                            *)
OtherWrites ==
  /\ kind = "from_pipe" /\ open /\ made < MaxBytes /\ Len(pipe) < RING_BUFFER_SIZE
  /\ made' = made + 1 /\ pipe' = Append(pipe, made + 1)
  /\ UNCHANGED <<asked, remaining, total, input, open, buf, put, chunk, at, log>>

OtherReads ==
  /\ pipe # <<>> /\ (kind = "from_pipe" \/ open)
  /\ pipe' = Tail(pipe) /\ rival' = (kind = "from_pipe")
  /\ UNCHANGED <<asked, remaining, total, input, made, open, buf, put, chunk, at, got, out>>

OtherCloses ==
  /\ kind # "copy" /\ open
  /\ open' = FALSE
  /\ UNCHANGED <<asked, remaining, total, input, made, pipe, buf, put, chunk, at, log>>

(* A call that sys_splice or sys_copy_file_range refuses (one descriptor   *)
(* for both ends, a negative or missing offset, the wrong end of a pipe,   *)
(* not a file) does nothing; the others begin one of the loops.            *)
SpliceInit ==
  /\ kind \in Loops /\ len \in 0..(MaxBytes + 1)
  /\ remaining = len /\ total = 0 /\ input = 0
  /\ made \in IF kind = "from_pipe" THEN {0} ELSE 0..MaxBytes
  /\ pipe = <<>> /\ open = TRUE /\ buf = <<>> /\ put = 0 /\ chunk = 0
  /\ at = "loop" /\ got = <<>> /\ out = <<>> /\ rival = FALSE

SpliceCall ==
  \/ LoopEnd \/ \E n \in 0..DEFAULT_BUFFER_SIZE : ReadFile(n) \/ WriteFile(n)
  \/ PipeAvailable \/ PipeRead \/ WritePipe \/ PipeWrite \/ PipeWriteClosed
SpliceNext == SpliceCall \/ FileFails \/ OtherWrites \/ OtherReads \/ OtherCloses

SpliceSpec == SpliceInit /\ [][SpliceNext]_spliceVars

-----------------------------------------------------------------------------
(* Every variable keeps its type.                                          *)
SpliceTypeOK ==
  /\ kind \in Loops /\ len \in 0..(MaxBytes + 1)
  /\ remaining \in 0..len /\ total = len - remaining
  /\ input \in 0..made /\ made \in 0..MaxBytes /\ open \in BOOLEAN
  /\ Len(pipe) \in 0..RING_BUFFER_SIZE /\ Len(buf) \in 0..DEFAULT_BUFFER_SIZE
  /\ put \in 0..DEFAULT_BUFFER_SIZE /\ chunk \in 0..DEFAULT_BUFFER_SIZE
  /\ at \in {"loop", "pipe_read", "write", "pipe_write", "done", "error"}
  /\ rival \in BOOLEAN

(* The bytes that splice and copy_file_range write are, in their order and *)
(* without a gap, the first of the bytes read, whoever else uses the pipe; *)
(* the number returned is that of the bytes written; and between rounds    *)
(* nothing that was read is left over, so that bytes are lost only by a    *)
(* call whose last write was short or failed.                              *)
SpliceKeepsBytes ==
  /\ Len(out) <= Len(got) /\ \A x \in 1..Len(out) : out[x] = got[x]
  /\ at = "done" => total = Len(out)
  /\ at = "loop" => out = got
=============================================================================
