------------------------------ MODULE MCFutex ------------------------------
(* Small instances of Futex: t3 has a clear_child_tid word.                *)
EXTENDS Futex, TLC

CONSTANTS t1, t2, t3

MCTidAddr == (t1 :> 0) @@ (t2 :> 0) @@ (t3 :> 16)
Joiners == Permutations({t1, t2})
MCTwoTid == (t1 :> 0) @@ (t3 :> 16)
=============================================================================
