------------------------------ MODULE MCEpoll ------------------------------
(* Small instances of Epoll.                                               *)
EXTENDS Epoll

MCMasks == {{"in", "err"}}
=============================================================================
