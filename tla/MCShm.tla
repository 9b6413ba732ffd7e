------------------------------- MODULE MCShm -------------------------------
(* Two small instances of Shm in one run.  In the first, two threads of    *)
(* one process and one of another, made by fork and clone, share at most   *)
(* MaxSegs segments.  In the second a single thread makes WrapSegs of      *)
(* them, more than there are identifiers, so that next_id wraps.  There    *)
(* validate() refuses a segment that is attached already, and no shmget    *)
(* asks for nothing or lacks the pages, as in the first they do.           *)
EXTENDS ShmFork, TLC

CONSTANTS t1, t2, t3, p1, p2,
          WrapSegs, WrapAttempts    \* MaxSegs, MAX_ATTEMPTS of the second

VARIABLE wraps    \* whether this is the second instance

W == INSTANCE Shm WITH
       MaxSegs <- WrapSegs, MAX_ATTEMPTS <- WrapAttempts, MaxAttach <- 0

MCProcOf == (t1 :> p1) @@ (t2 :> p1) @@ (t3 :> p2)
RW == {"r", "w"}
MCModes == {RW}
MCSymmetry == Permutations({t1, t2})    \* both in p1

MCInit ==
  \/ wraps = FALSE /\ ForkInit
  \/ /\ wraps = TRUE /\ W!ShmInit /\ OneThread
     /\ inherited = [p \in Procs |-> [a \in Addrs |-> 0]]

MCNext ==
  \/ ~wraps /\ ForkNext /\ UNCHANGED wraps
  \/ /\ wraps /\ W!Next /\ UNCHANGED <<inherited, wraps>>
     /\ created' # created => ds'[created'].size = 1

MCSpec == MCInit /\ [][MCNext]_<<forkVars, wraps>>
=============================================================================
