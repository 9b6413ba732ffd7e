------------------------------- MODULE Select ------------------------------
(***************************************************************************)
(* select and pselect6 (api/src/imp/fs/io_mpx/select.rs) with the polling  *)
(* loop of PollLoop.                                                       *)
(*                                                                         *)
(* The three descriptor sets are copied word by word, the user's sets are  *)
(* cleared, and rounds of polling follow: words of BITS_PER_USIZE          *)
(* descriptors are skipped when no set has a bit in them, otherwise the    *)
(* descriptors below nfds are polled one by one.  A null set behaves as an *)
(* empty one: it gives no bits, so no result would be written to it.       *)
(***************************************************************************)
EXTENDS PollLoop, Integers, FiniteSets

CONSTANTS BITS_PER_USIZE, FD_SETSIZE,
          Asked,       \* descriptors that a program may put into its sets
          States       \* what the poll of each of them can say: the kinds it is ready for

Kinds == {"read", "write", "except"}
NoFds == [k \in Kinds |-> {}]

(* A descriptor that is closed, or whose poll fails, answers for the       *)
(* except set and for no other.                                            *)
ReadyStates == {{}, {"read"}, {"write"}, {"read", "write"}, {"except"}}

ASSUME SelectAssumption ==
  /\ BITS_PER_USIZE \in Nat \ {0} /\ FD_SETSIZE \in Nat
  /\ FD_SETSIZE % BITS_PER_USIZE = 0 /\ Asked \subseteq 0..(FD_SETSIZE - 1)
  /\ States \in [Asked -> SUBSET ReadyStates]

VARIABLES user,    \* the caller's three sets
          nfds,
          bits,    \* FdSets::bits
          i, j,
          result,  \* result_read, result_write and result_except
          num      \* res_num

selectVars == <<state, user, nfds, timed, bits, pc, i, j, result, num, steady>>
selectArgs == <<nfds, timed>>

(* clear_fd_set *)
Cleared == NoFds
Word(w) == {w + b : b \in 0..(BITS_PER_USIZE - 1)}

(* FdSets::from copies whole words, up to the one that holds nfds - 1.     *)
copy_from_fd_set ==
  LET words == (nfds + BITS_PER_USIZE - 1) \div BITS_PER_USIZE
  IN  [k \in Kinds |-> {fd \in user[k] : fd < words * BITS_PER_USIZE}]

From ==
  /\ pc = "start"
  /\ bits' = copy_from_fd_set
  /\ user' = Cleared
  /\ pc' = "round"
  /\ UNCHANGED <<state, selectArgs, i, j, result, num, steady>>

(* A round of poll_all begins.                                             *)
SelectRound ==
  /\ pc = "round"
  /\ i' = 0 /\ j' = 0 /\ num' = 0 /\ result' = NoFds /\ steady' = Asked
  /\ pc' = "word"
  /\ UNCHANGED <<state, user, selectArgs, bits>>

(* Variant: a word is skipped when no descriptor in it is asked for input. *)
all_bits_read(w) == Word(w) \cap bits["read"]

all_bits(w) == Word(w) \cap UNION {bits[k] : k \in Kinds}

NextWord ==
  /\ pc = "word"
  /\ IF i >= nfds THEN pc' = "back" /\ UNCHANGED <<i, j>>
     ELSE IF all_bits(i) = {} THEN i' = i + BITS_PER_USIZE /\ UNCHANGED <<pc, j>>
     ELSE pc' = "bit" /\ j' = 0 /\ UNCHANGED i
  /\ UNCHANGED <<state, user, selectArgs, bits, result, num, steady>>

(* The poll of one descriptor adds it to the sets that asked for what it   *)
(* is ready for.                                                           *)
Hits(fd) == {k \in Kinds : fd \in bits[k] /\ k \in state[fd]}

NextBit ==
  /\ pc = "bit"
  /\ IF j < BITS_PER_USIZE /\ i + j < nfds
     THEN /\ result' = [k \in Kinds |-> IF k \in Hits(i + j) THEN result[k] \cup {i + j}
                                                             ELSE result[k]]
          /\ num' = num + Cardinality(Hits(i + j))
          /\ j' = j + 1
          /\ UNCHANGED <<pc, i>>
     ELSE pc' = "word" /\ i' = i + BITS_PER_USIZE /\ UNCHANGED <<j, result, num>>
  /\ UNCHANGED <<state, user, selectArgs, bits, steady>>

(* The results are written to the caller's sets, also when there are none. *)
WriteBack ==
  /\ pc = "back"
  /\ user' = result
  /\ pc' = IF num > 0 THEN "done" ELSE "yield"
  /\ UNCHANGED <<state, selectArgs, bits, i, j, result, num, steady>>

SelectYield ==
  /\ poll_with_timeout
  /\ UNCHANGED <<user, nfds, bits, i, j, result, num>>

SelectChange(fd, s) ==
  /\ Change(fd, s)
  /\ UNCHANGED <<user, nfds, bits, i, j, result, num>>

(* nfds is cut to FD_SETSIZE; a negative one is EINVAL.  sys_select and    *)
(* sys_pselect6 differ in the unit of the timeout only.                    *)
SelectInit ==
  /\ state \in [Asked -> ReadyStates] /\ \A fd \in Asked : state[fd] \in States[fd]
  /\ user \in [Kinds -> SUBSET Asked]
  /\ nfds \in 0..FD_SETSIZE /\ timed \in BOOLEAN
  /\ bits = NoFds /\ pc = "start" /\ i = 0 /\ j = 0
  /\ result = NoFds /\ num = 0 /\ steady = Asked

SelectCall == From \/ SelectRound \/ NextWord \/ NextBit \/ WriteBack \/ SelectYield
SelectNext == SelectCall \/ \E fd \in Asked : \E s \in States[fd] : SelectChange(fd, s)

SelectSpec == SelectInit /\ [][SelectNext]_selectVars

-----------------------------------------------------------------------------
(* Every variable keeps its type.                                          *)
SelectTypeOK ==
  /\ \A fd \in Asked : state[fd] \in States[fd]
  /\ user \in [Kinds -> SUBSET Asked] /\ bits \in [Kinds -> SUBSET Asked]
  /\ result \in [Kinds -> SUBSET Asked]
  /\ nfds \in 0..FD_SETSIZE /\ timed \in BOOLEAN
  /\ pc \in {"start", "round", "word", "bit", "back", "yield", "done", "timeout"}
  /\ i \in 0..FD_SETSIZE /\ j \in 0..BITS_PER_USIZE
  /\ num \in 0..(3 * FD_SETSIZE) /\ steady \subseteq Asked

(* select returns the number of bits it leaves in the caller's sets, 0 and *)
(* three empty sets after a timeout, and only bits below nfds; nothing is  *)
(* left of an earlier round.  A descriptor below nfds that was ready for   *)
(* what it was asked about all through the round that ended the call is    *)
(* reported: the skipping of words leaves none out.                        *)
SelectAnswers ==
  /\ pc = "done" =>
       /\ num = Cardinality(user["read"]) + Cardinality(user["write"])
                  + Cardinality(user["except"])
       /\ \A k \in Kinds : \A fd \in user[k] : fd < nfds
       /\ \A k \in Kinds, fd \in steady :
            (fd < nfds /\ fd \in bits[k] /\ k \in state[fd]) => fd \in user[k]
  /\ pc = "timeout" => user = NoFds
=============================================================================
