------------------------------- MODULE Mount -------------------------------
(***************************************************************************)
(* mount and umount2 (api/src/imp/fs/mount.rs).  The list MOUNTED is       *)
(* locked for each test and each change, but not between them: a mount     *)
(* tests the target, and takes the lock again to add it.                   *)
(***************************************************************************)
EXTENDS Integers, FiniteSets

CONSTANTS Mounters,   \* threads
          Points,     \* mount points, as canonical path strings
          StrPrefix,  \* <<p, q>>: the string p begins the string q
          NoPath      \* no path

ASSUME MountAssumption ==
  /\ IsFiniteSet(Mounters) /\ NoPath \notin Points
  /\ StrPrefix \subseteq Points \X Points /\ \A p \in Points : <<p, p>> \in StrPrefix

VARIABLES dirs,      \* the paths that exist
          MOUNTED,   \* for each path, the number of MountedFs with this mnt_dir
          mounting   \* the calls of the threads

mountVars == <<dirs, MOUNTED, mounting>>

MountPCs == {"user", "exists", "check", "push", "lookup", "umount"}
NoMount == [pc |-> "user", path |-> NoPath]
MountTo(t, l) == mounting' = [mounting EXCEPT ![t].pc = l]
MountReturn(t) == mounting' = [mounting EXCEPT ![t] = NoMount]

check_mounted(p) == \E q \in Points : MOUNTED[q] > 0 /\ <<q, p>> \in StrPrefix

-----------------------------------------------------------------------------
(* sys_mount; a type other than vfat is EPERM and changes nothing.         *)
SysMount(t, p) ==
  /\ mounting[t].pc = "user"
  /\ mounting' = [mounting EXCEPT ![t] = [NoMount EXCEPT !.pc = "exists", !.path = p]]
  /\ UNCHANGED <<dirs, MOUNTED>>

MountExists(t) ==
  /\ mounting[t].pc = "exists"
  /\ IF mounting[t].path \in dirs THEN MountTo(t, "check") ELSE MountReturn(t)
  /\ UNCHANGED <<dirs, MOUNTED>>

(* Variant: the test for mounted file systems is left out.                 *)
MountCheckNone(t) ==
  /\ mounting[t].pc = "check"
  /\ MountTo(t, "push")
  /\ UNCHANGED <<dirs, MOUNTED>>

MountCheck(t) ==
  /\ mounting[t].pc = "check"
  /\ IF check_mounted(mounting[t].path) THEN MountReturn(t) ELSE MountTo(t, "push")
  /\ UNCHANGED <<dirs, MOUNTED>>

(* mount_fat_fs tests again that the path exists.                          *)
MountPush(t) ==
  /\ mounting[t].pc = "push"
  /\ MOUNTED' = IF mounting[t].path \in dirs
                  THEN [MOUNTED EXCEPT ![mounting[t].path] = @ + 1] ELSE MOUNTED
  /\ MountReturn(t)
  /\ UNCHANGED dirs

-----------------------------------------------------------------------------
(* sys_umount2; other flags than 0 are EPERM and change nothing.           *)
SysUmount(t, p) ==
  /\ mounting[t].pc = "user"
  /\ mounting' = [mounting EXCEPT ![t] = [NoMount EXCEPT !.pc = "lookup", !.path = p]]
  /\ UNCHANGED <<dirs, MOUNTED>>

UmountExists(t) ==
  /\ mounting[t].pc = "lookup"
  /\ IF mounting[t].path \in dirs THEN MountTo(t, "umount") ELSE MountReturn(t)
  /\ UNCHANGED <<dirs, MOUNTED>>

(* umount_fat_fs retains the entries of the other paths.                  *)
Umount(t) ==
  /\ mounting[t].pc = "umount"
  /\ MOUNTED' = [MOUNTED EXCEPT ![mounting[t].path] = 0]
  /\ MountReturn(t)
  /\ UNCHANGED dirs

(* Directories are made and removed, mounted or not.                       *)
Mkdir(p) == p \notin dirs /\ dirs' = dirs \cup {p} /\ UNCHANGED <<MOUNTED, mounting>>
Rmdir(p) == p \in dirs /\ dirs' = dirs \ {p} /\ UNCHANGED <<MOUNTED, mounting>>

MountInit ==
  /\ dirs = Points /\ MOUNTED = [p \in Points |-> 0]
  /\ mounting = [t \in Mounters |-> NoMount]

MountStep(t) ==
  \/ \E p \in Points : SysMount(t, p) \/ SysUmount(t, p)
  \/ MountExists(t) \/ MountCheck(t) \/ MountPush(t)
  \/ UmountExists(t) \/ Umount(t)

MountNext == (\E t \in Mounters : MountStep(t)) \/ \E p \in Points : Mkdir(p) \/ Rmdir(p)

MountSpec == MountInit /\ [][MountNext]_mountVars

-----------------------------------------------------------------------------
Pushing(p) == {t \in Mounters : mounting[t].pc = "push" /\ mounting[t].path = p}

(* Every variable keeps its type.                                          *)
MountTypeOK ==
  /\ dirs \subseteq Points /\ MOUNTED \in [Points -> Nat]
  /\ mounting \in [Mounters -> [pc : MountPCs, path : Points \cup {NoPath}]]
  /\ \A t \in Mounters : mounting[t].pc # "user" => mounting[t].path \in Points

(* Only mounts that raced through the test of sys_mount stack on one path: *)
(* the entries of a path and the mounts about to add one to it are         *)
(* together never more than the threads, however often it is mounted and   *)
(* unmounted.                                                              *)
StackedOnlyByRace ==
  \A p \in Points : MOUNTED[p] + Cardinality(Pushing(p)) <= Cardinality(Mounters)
=============================================================================
