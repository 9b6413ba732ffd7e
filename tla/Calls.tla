------------------------------- MODULE Calls -------------------------------
(***************************************************************************)
(* One thread makes one of the calls that go round a loop: select, poll,   *)
(* or splice and copy_file_range.  select and poll share the variables of  *)
(* PollLoop; the variables of the other calls rest.                        *)
(***************************************************************************)
EXTENDS Select, Poll, Splice

ASSUME CallsAssumption ==
  /\ Polled \subseteq Nat /\ {MaxNfds, MaxBytes} \subseteq Nat
  /\ {DEFAULT_BUFFER_SIZE, RING_BUFFER_SIZE} \subseteq Nat \ {0}

VARIABLE called

ofSelect == <<user, nfds, bits, i, j, result, num>>
ofPoll == <<entries, revents, k, count>>
ofBoth == <<state, timed, pc, steady>>
ofSplice == <<kind, len, remaining, total, input, made, pipe, open, buf, put, chunk,
              at, got, out, rival>>
callVars == <<called, ofSelect, ofPoll, ofBoth, ofSplice>>

NoSelect ==
  /\ user = NoFds /\ bits = NoFds /\ result = NoFds
  /\ nfds = 0 /\ i = 0 /\ j = 0 /\ num = 0
NoPoll == entries = <<>> /\ revents = <<>> /\ k = 1 /\ count = 0
NoSplice ==
  /\ kind = "copy" /\ len = 0 /\ remaining = 0 /\ total = 0 /\ input = 0 /\ made = 0
  /\ pipe = <<>> /\ open = TRUE /\ buf = <<>> /\ put = 0 /\ chunk = 0
  /\ at = "loop" /\ got = <<>> /\ out = <<>> /\ rival = FALSE

CallsInit ==
  \/ called = "select" /\ SelectInit /\ NoPoll /\ NoSplice
  \/ called = "poll" /\ PollInit /\ NoSelect /\ NoSplice
  \/ /\ called = "splice" /\ SpliceInit /\ NoSelect /\ NoPoll
     /\ state = <<>> /\ timed = FALSE /\ pc = "start" /\ steady = {}

Selecting == called = "select" /\ UNCHANGED <<called, ofPoll, ofSplice>>
Polling == called = "poll" /\ UNCHANGED <<called, ofSelect, ofSplice>>
Splicing == called = "splice" /\ UNCHANGED <<called, ofSelect, ofPoll, ofBoth>>

CallsNext ==
  (Selecting /\ SelectNext) \/ (Polling /\ PollNext) \/ (Splicing /\ SpliceNext)

(* The thread keeps running: the loops yield and never block.              *)
CallsSpec ==
  /\ CallsInit /\ [][CallsNext]_callVars
  /\ WF_callVars((Selecting /\ SelectCall) \/ (Polling /\ PollCall)
                   \/ (Splicing /\ SpliceCall))

-----------------------------------------------------------------------------
(* select and poll return the number of bits they leave in the caller's    *)
(* sets, or of entries whose revents is not zero; nothing is left of an    *)
(* earlier round or call, nor after a timeout; and every descriptor that   *)
(* had one state all through the last round is reported as that: neither   *)
(* the skipping of words nor an nfds inside a word leaves one out or lets  *)
(* one in.                                                                 *)
PollersAnswer == SelectAnswers /\ PollAnswers

(* The loops end.  When a descriptor that select was asked about is ready  *)
(* from some time on, poll_with_timeout returns, with or without a         *)
(* deadline, whatever the others do.  splice from a pipe and               *)
(* copy_file_range never wait for others: they return although the pipe    *)
(* stays open and empty, unless someone else has read the pipe between the *)
(* look at it and the read.                                                *)
CallReturns ==
  /\ \A fd \in Asked :
       <>[](called = "select" /\ fd < nfds /\ Hits(fd) # {})
         => <>(pc \in {"done", "timeout"})
  /\ <>(called = "splice" => (kind = "to_pipe" \/ at \in {"done", "error"} \/ rival))
=============================================================================
