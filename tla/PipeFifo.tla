------------------------------ MODULE PipeFifo ------------------------------
(***************************************************************************)
(* What a pipe promises: a bounded first-in first-out queue of bytes with  *)
(* a read end and a write end.  Bytes are numbered in the order in which   *)
(* they are written.  Once the write end is gone nothing enters the queue, *)
(* and the end of file is reported only when the queue has run dry.        *)
(***************************************************************************)
EXTENDS Integers, Sequences

CONSTANT Capacity

VARIABLES queue,     \* bytes written and not read
          written,   \* number of bytes ever written
          writer,    \* the write end exists
          eof        \* some read has returned 0

fifoVars == <<queue, written, writer, eof>>

FifoInit == queue = <<>> /\ written = 0 /\ writer = TRUE /\ eof = FALSE

Put == /\ writer
       /\ Len(queue) < Capacity
       /\ queue' = Append(queue, written + 1)
       /\ written' = written + 1
       /\ UNCHANGED <<writer, eof>>

Get == /\ queue # <<>>
       /\ queue' = Tail(queue)
       /\ UNCHANGED <<written, writer, eof>>

CloseWriter == writer' = FALSE /\ UNCHANGED <<queue, written, eof>>

Eof == /\ queue = <<>> /\ ~writer
       /\ eof' = TRUE
       /\ UNCHANGED <<queue, written, writer>>

FifoNext == Put \/ Get \/ CloseWriter \/ Eof

FifoSpec == FifoInit /\ [][FifoNext]_fifoVars
=============================================================================
