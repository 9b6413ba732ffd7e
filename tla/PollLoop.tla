------------------------------ MODULE PollLoop -----------------------------
(***************************************************************************)
(* What select and poll share: poll_with_timeout                           *)
(* (api/src/imp/fs/io_mpx/mod.rs), which polls round after round and       *)
(* yields between them, and the files, which become ready, are drained or  *)
(* are closed at any time.                                                 *)
(***************************************************************************)
VARIABLES state,   \* what the poll of each descriptor says
          timed,   \* there is a deadline
          pc,
          steady   \* descriptors whose state is the same since the round began

(* After the yield the deadline may have passed.                           *)
poll_with_timeout ==
  /\ pc = "yield"
  /\ pc' \in {"round"} \cup {l \in {"timeout"} : timed}
  /\ UNCHANGED <<state, timed, steady>>

(* Files become ready, are drained, fail or are closed.                    *)
Change(fd, s) ==
  /\ pc \notin {"start", "done", "timeout"}
  /\ state[fd] # s
  /\ state' = [state EXCEPT ![fd] = s]
  /\ steady' = steady \ {fd}
  /\ UNCHANGED <<timed, pc>>
=============================================================================
