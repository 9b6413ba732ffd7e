------------------------------ MODULE Getdents -----------------------------
(***************************************************************************)
(* getdents64 (api/src/imp/fs/ctl.rs) on a Directory shared by several     *)
(* threads (api/src/file/fs.rs).  An entry that does not fit the buffer    *)
(* any more is kept in last_dirent for the next call; the lock of          *)
(* last_dirent is held for the whole call.                                 *)
(***************************************************************************)
EXTENDS Integers, Sequences, FiniteSets

CONSTANTS Readers,
          Size,       \* length of each entry's record, in directory order
          MaxBuf,     \* bound on the length of the caller's buffer
          NoEntry     \* no entry, no thread

(* No record is empty, the header of a dirent64 has a length.              *)
ASSUME DirAssumption ==
  /\ Size \in Seq(Nat \ {0}) /\ MaxBuf \in Nat
  /\ NoEntry \notin Readers /\ NoEntry \notin 1..Len(Size)

VARIABLES pos,         \* entries that read_dir has given out
          last_dirent,
          owner,       \* the thread with the lock of last_dirent
          reader,      \* the call that each thread is in
          seen,        \* entries in the order in which callers got them
          unread       \* reading the directory has failed

told == <<seen, unread>>
direntVars == <<pos, last_dirent, owner, reader, told>>

NotReading == [pc |-> "user", len |-> 0, buf |-> <<>>, offset |-> 0, result |-> "none"]

(* DirBuffer::write_entry *)
Fits(c, e) == c.len - c.offset >= Size[e]
write_entry(c, e) ==
  [c EXCEPT !.buf = Append(c.buf, e), !.offset = c.offset + Size[e]]

ReturnDir(t, r) ==
  /\ reader' = [reader EXCEPT ![t] = [NotReading EXCEPT !.result = r]]
  /\ owner' = NoEntry
Deliver(t) == seen' = seen \o reader[t].buf /\ UNCHANGED unread

Getdents(t, len) ==
  /\ reader[t].pc = "user"
  /\ reader' = [reader EXCEPT ![t] = [NotReading EXCEPT !.pc = "last", !.len = len]]
  /\ UNCHANGED <<pos, last_dirent, owner, told>>

(* The kept entry goes first; when even it does not fit it stays.          *)
TakeLast(t) ==
  /\ reader[t].pc = "last" /\ owner = NoEntry
  /\ IF last_dirent = NoEntry
     THEN /\ owner' = t /\ reader' = [reader EXCEPT ![t].pc = "read"]
          /\ UNCHANGED last_dirent
     ELSE IF Fits(reader[t], last_dirent)
     THEN /\ owner' = t /\ last_dirent' = NoEntry
          /\ reader' = [reader EXCEPT ![t] =
                         [write_entry(reader[t], last_dirent) EXCEPT !.pc = "read"]]
     ELSE ReturnDir(t, "EINVAL") /\ UNCHANGED last_dirent
  /\ UNCHANGED <<pos, told>>

(* Variant: the entry that does not fit is dropped.                        *)
ReadDirDrop(t) ==
  /\ reader[t].pc = "read" /\ pos < Len(Size)
  /\ pos' = pos + 1
  /\ reader' = [reader EXCEPT ![t] = IF Fits(@, pos + 1) THEN write_entry(@, pos + 1)
                                 ELSE [@ EXCEPT !.pc = "end"]]
  /\ UNCHANGED <<last_dirent, owner, told>>

(* One round of the loop.                                                  *)
ReadDir(t) ==
  /\ reader[t].pc = "read" /\ pos < Len(Size)
  /\ pos' = pos + 1
  /\ IF Fits(reader[t], pos + 1)
     THEN /\ reader' = [reader EXCEPT ![t] = write_entry(reader[t], pos + 1)]
          /\ UNCHANGED last_dirent
     ELSE /\ reader' = [reader EXCEPT ![t].pc = "end"]
          /\ last_dirent' = pos + 1
  /\ UNCHANGED <<owner, told>>

ReadDirEnd(t) ==
  /\ reader[t].pc = "read" /\ pos = Len(Size)
  /\ reader' = [reader EXCEPT ![t].pc = "end"]
  /\ UNCHANGED <<pos, last_dirent, owner, told>>

(* An error of read_dir ends the call; the buffer's entries are not told.  *)
ReadDirFails(t) ==
  /\ reader[t].pc = "read"
  /\ ReturnDir(t, "EIO") /\ unread' = TRUE
  /\ UNCHANGED <<pos, last_dirent, seen>>

Finish(t) ==
  /\ reader[t].pc = "end"
  /\ ReturnDir(t, IF reader[t].offset = 0
               THEN IF last_dirent = NoEntry THEN "zero" ELSE "EINVAL"
               ELSE "some")
  /\ Deliver(t)
  /\ UNCHANGED <<pos, last_dirent>>

DirInit ==
  /\ pos = 0 /\ last_dirent = NoEntry /\ owner = NoEntry
  /\ reader = [t \in Readers |-> NotReading] /\ seen = <<>> /\ unread = FALSE

DirNext ==
  \E t \in Readers :
    \/ \E len \in 0..MaxBuf : Getdents(t, len)
    \/ TakeLast(t) \/ ReadDir(t) \/ ReadDirEnd(t) \/ ReadDirFails(t) \/ Finish(t)

DirSpec == DirInit /\ [][DirNext]_direntVars

-----------------------------------------------------------------------------
(* Every variable keeps its type, and no buffer is written past its end.   *)
DirTypeOK ==
  /\ pos \in 0..Len(Size) /\ last_dirent \in (1..Len(Size)) \cup {NoEntry}
  /\ owner \in Readers \cup {NoEntry} /\ unread \in BOOLEAN
  /\ \A t \in Readers :
       /\ reader[t].pc \in {"user", "last", "read", "end"}
       /\ reader[t].len \in 0..MaxBuf /\ reader[t].offset \in 0..reader[t].len
       /\ \A x \in 1..Len(reader[t].buf) : reader[t].buf[x] \in 1..pos
       /\ reader[t].result \in {"none", "zero", "some", "EINVAL", "EIO"}

(* Each entry is reported at most once and in the order of the directory.  *)
InOrderOnce == \A x, y \in 1..Len(seen) : x < y => seen[x] < seen[y]

(* A call that returns zero says that the directory has been read: unless  *)
(* reading failed, all entries have then been reported, also those that    *)
(* did not fit a buffer when they were read.                               *)
ZeroMeansAll ==
  \A t \in Readers : (reader[t].result = "zero" /\ ~unread) => Len(seen) = Len(Size)

(* Whoever calls getdents64, with whatever buffers, each entry is reported *)
(* at most once and in the order of the directory, and zero is returned    *)
(* only when all entries have been reported, unless reading failed.        *)
DirentsOnceAndAll == InOrderOnce /\ ZeroMeansAll
=============================================================================
