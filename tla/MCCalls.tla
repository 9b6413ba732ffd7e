------------------------------ MODULE MCCalls ------------------------------
(***************************************************************************)
(* Two descriptors, in different words of the sets, for select; arrays of  *)
(* up to two entries for poll; and four bytes in chunks of two for splice. *)
(***************************************************************************)
EXTENDS Calls, TLC

(* The read end of a pipe, and a socket.                                   *)
MCStates == (1 :> {{}, {"read"}, {"except"}})
              @@ (3 :> {{}, {"write"}, {"read", "write"}, {"except"}})
=============================================================================
