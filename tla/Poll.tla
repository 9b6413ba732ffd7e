-------------------------------- MODULE Poll -------------------------------
(***************************************************************************)
(* poll and ppoll (api/src/imp/fs/io_mpx/poll.rs): poll_fds goes through   *)
(* the caller's array once per round of poll_with_timeout, writing revents *)
(* in place, while files become ready and descriptors are closed.          *)
(***************************************************************************)
EXTENDS PollLoop, Integers, FiniteSets

CONSTANTS Polled,   \* descriptors
          MaxNfds   \* bound on the length of the array

Ignored == -1       \* a negative descriptor: the entry is skipped
Asks == SUBSET {"POLLIN", "POLLOUT"}
Bad == {{"POLLERR"}, {"POLLNVAL"}}
Wanted == [fd : Polled \cup {Ignored}, events : Asks]

VARIABLES entries,  \* fd and events of the array
          revents,  \* revents of the array, as the caller sees them
          k,        \* the next entry
          count     \* ready_count

pollVars == <<state, entries, revents, timed, pc, k, count, steady>>
pollArgs == <<entries, timed>>

length == Cardinality(DOMAIN entries)

(* sys_poll: an empty array only sleeps, and not at all without timeout.   *)
Start ==
  /\ pc = "start"
  /\ pc' = IF length = 0 THEN "timeout" ELSE "round"
  /\ UNCHANGED <<state, pollArgs, revents, k, count, steady>>

PollRound ==
  /\ pc = "round"
  /\ k' = 1 /\ count' = 0 /\ steady' = Polled /\ pc' = "scan"
  /\ UNCHANGED <<state, pollArgs, revents>>

(* What poll_fds stores for an entry.                                      *)
Answer(e) ==
  IF e.fd = Ignored THEN {}
  ELSE IF state[e.fd] \in Bad THEN state[e.fd]
  ELSE e.events \cap state[e.fd]

Scan ==
  /\ pc = "scan" /\ k <= length
  /\ LET a == Answer(entries[k])
     IN  /\ revents' = [revents EXCEPT ![k] = a]
         /\ count' = IF a = {} THEN count ELSE count + 1
  /\ k' = k + 1
  /\ UNCHANGED <<state, pollArgs, pc, steady>>

ScanEnd ==
  /\ pc = "scan" /\ k > length
  /\ pc' = IF count > 0 THEN "done" ELSE "yield"
  /\ UNCHANGED <<state, pollArgs, revents, k, count, steady>>

PollYield ==
  /\ poll_with_timeout
  /\ UNCHANGED <<entries, revents, k, count>>

PollChange(fd, s) ==
  /\ Change(fd, s)
  /\ UNCHANGED <<entries, revents, k, count>>

(* sys_poll and sys_ppoll differ in the form of the timeout only.          *)
(* The caller's array may hold the revents of an earlier call.             *)
PollInit ==
  /\ state \in [Polled -> Asks \cup Bad]
  /\ \E n \in 0..MaxNfds :
       /\ entries \in [1..n -> Wanted]
       /\ revents \in [1..n -> {{}, {"POLLIN"}}]
  /\ timed \in BOOLEAN
  /\ pc = "start" /\ k = 1 /\ count = 0 /\ steady = Polled

PollCall == Start \/ PollRound \/ Scan \/ ScanEnd \/ PollYield
PollNext == PollCall \/ \E fd \in Polled, s \in Asks \cup Bad : PollChange(fd, s)

PollSpec == PollInit /\ [][PollNext]_pollVars

-----------------------------------------------------------------------------
(* Every variable keeps its type.                                          *)
PollTypeOK ==
  /\ state \in [Polled -> Asks \cup Bad]
  /\ \E n \in 0..MaxNfds : /\ entries \in [1..n -> Wanted]
                           /\ revents \in [1..n -> Asks \cup Bad]
  /\ timed \in BOOLEAN /\ steady \subseteq Polled
  /\ pc \in {"start", "round", "scan", "yield", "done", "timeout"}
  /\ k \in 1..(length + 1) /\ count \in 0..length

(* poll returns the number of entries whose revents is not zero; a timeout *)
(* leaves none, and no entry keeps revents of an earlier round or call.    *)
(* An entry whose descriptor had the same state all through the round that *)
(* ended the call reports exactly the events asked about that it has, one  *)
(* with a negative descriptor none.                                        *)
PollAnswers ==
  /\ pc = "done" =>
       /\ count = Cardinality({x \in 1..length : revents[x] # {}})
       /\ \A x \in 1..length :
            entries[x].fd \in steady \cup {Ignored} => revents[x] = Answer(entries[x])
  /\ pc = "timeout" => \A x \in 1..length : revents[x] = {}
=============================================================================
