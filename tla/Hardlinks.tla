----------------------------- MODULE Hardlinks -----------------------------
(***************************************************************************)
(* The hard link table (api/src/path.rs) and the calls that use it         *)
(* (link, unlink and rmdir of api/src/imp/fs/ctl.rs).                      *)
(*                                                                         *)
(* A link is an entry of a map from path strings to path strings; each     *)
(* path that a program gives is looked up there once when its FilePath is  *)
(* made.  A thread makes the paths of a call one after the other, looks at *)
(* the file system, and only then takes the table's lock for writing.      *)
(***************************************************************************)
EXTENDS Integers, FiniteSets

CONSTANTS Threads,
          Nodes,      \* places in the file tree
          Named,      \* path strings that programs use
          None        \* no path

(* A path string names a node, with or without a slash at its end.         *)
Paths == [node : Nodes, slash : BOOLEAN]

ASSUME LinksAssumption ==
  Named \subseteq Paths /\ None \notin Paths /\ IsFiniteSet(Paths)

VARIABLES disk,        \* what is at each node
          links,       \* LinkManagerInner::links
          ref_counts,  \* LinkManagerInner::ref_counts; 0 where absent
          call

vars == <<disk, links, ref_counts, call>>
table == <<links, ref_counts>>

PCs == {"user", "old", "new", "check", "insert", "path", "stat", "remove", "rmdir"}
Results == {"none", "ok", "NotFound", "NotFile", "EISDIR", "ENOENT"}
Idle == [pc |-> "user", old |-> None, new |-> None, src |-> None, dst |-> None,
         result |-> "none"]
Return(t, r) == call' = [call EXCEPT ![t] = [Idle EXCEPT !.result = r]]
Goto(t, l) == call' = [call EXCEPT ![t] = [@ EXCEPT !.pc = l]]

(* The file system: a slash at the end asks for a directory.               *)
exists(p) == IF p.slash THEN disk[p.node] = "dir" ELSE disk[p.node] # "none"
Removable(p) == disk[p.node] = "file" /\ ~p.slash
AfterRemoveFile(p) == IF Removable(p) THEN [disk EXCEPT ![p.node] = "none"] ELSE disk

real_path(p) == IF links[p] = None THEN p ELSE links[p]

(* decrease_ref_count: the file goes with its last link, if it is a file.  *)
Decrease(counts, p) == [counts EXCEPT ![p] = IF @ = 0 THEN 0 ELSE @ - 1]
DiskAfterDecrease(p) == IF ref_counts[p] = 1 THEN AfterRemoveFile(p) ELSE disk

-----------------------------------------------------------------------------
(* sys_linkat.  Each path is resolved once, and then used no more.         *)
Link(t, old, new) ==
  /\ call[t].pc = "user"
  /\ call' = [call EXCEPT ![t] = [Idle EXCEPT !.pc = "old", !.old = old, !.new = new]]
  /\ UNCHANGED <<disk, table>>

LinkOld(t) ==
  /\ call[t].pc = "old"
  /\ call' = [call EXCEPT ![t] = [@ EXCEPT !.pc = "new", !.old = None,
                                             !.dst = real_path(call[t].old)]]
  /\ UNCHANGED <<disk, table>>

LinkNew(t) ==
  /\ call[t].pc = "new"
  /\ call' = [call EXCEPT ![t] = [@ EXCEPT !.pc = "check", !.new = None,
                                             !.src = real_path(call[t].new)]]
  /\ UNCHANGED <<disk, table>>

(* create_link *)
LinkCheck(t) ==
  /\ call[t].pc = "check"
  /\ IF ~exists(call[t].dst) THEN Return(t, "NotFound")
     ELSE IF ~call[t].dst.slash THEN Return(t, "NotFile")
     ELSE Goto(t, "insert")
  /\ UNCHANGED <<disk, table>>

(* Variant: a replaced link keeps its count.                               *)
LinkInsertKeepCount(t) ==
  LET src == call[t].src  dst == call[t].dst
  IN  /\ call[t].pc = "insert"
      /\ links' = [links EXCEPT ![src] = dst]
      /\ ref_counts' = IF links[src] = dst THEN ref_counts
                       ELSE [ref_counts EXCEPT ![dst] = @ + 1]
      /\ disk' = disk
      /\ Return(t, "ok")

(* atomic_link_update, under the lock.                                     *)
LinkInsert(t) ==
  LET src == call[t].src  dst == call[t].dst  was == links[src]
  IN  /\ call[t].pc = "insert"
      /\ links' = [links EXCEPT ![src] = dst]
      /\ IF was = dst THEN UNCHANGED <<disk, ref_counts>>
         ELSE /\ ref_counts' = [(IF was = None THEN ref_counts ELSE Decrease(ref_counts, was))
                                  EXCEPT ![dst] = @ + 1]
              /\ disk' = IF was = None THEN disk ELSE DiskAfterDecrease(was)
      /\ Return(t, "ok")

-----------------------------------------------------------------------------
(* sys_unlinkat *)
Unlink(t, p) ==
  /\ call[t].pc = "user"
  /\ call' = [call EXCEPT ![t] = [Idle EXCEPT !.pc = "path", !.old = p]]
  /\ UNCHANGED <<disk, table>>

UnlinkPath(t) ==
  /\ call[t].pc = "path"
  /\ \E l \in {"stat", "rmdir"} :
       call' = [call EXCEPT ![t] = [@ EXCEPT !.pc = l, !.old = None,
                                             !.src = real_path(call[t].old)]]
  /\ UNCHANGED <<disk, table>>

UnlinkStat(t) ==
  /\ call[t].pc = "stat"
  /\ IF ~exists(call[t].src) THEN Return(t, "ENOENT")
     ELSE IF disk[call[t].src.node] = "dir" THEN Return(t, "EISDIR")
     ELSE Goto(t, "remove")
  /\ UNCHANGED <<disk, table>>

(* remove_link: the entry and one count, or else the file itself.          *)
UnlinkRemove(t) ==
  LET src == call[t].src  was == links[src]
  IN  /\ call[t].pc = "remove"
      /\ IF was # None
         THEN /\ links' = [links EXCEPT ![src] = None]
              /\ ref_counts' = Decrease(ref_counts, was)
              /\ disk' = DiskAfterDecrease(was)
              /\ Return(t, "ok")
         ELSE /\ disk' = AfterRemoveFile(src)
              /\ Return(t, IF Removable(src) THEN "ok" ELSE "ENOENT")
              /\ UNCHANGED table

(* AT_REMOVEDIR: axfs removes an empty directory.                          *)
UnlinkDir(t) ==
  LET p == call[t].src
  IN  /\ call[t].pc = "rmdir"
      /\ IF disk[p.node] = "dir"
         THEN disk' = [disk EXCEPT ![p.node] = "none"] /\ Return(t, "ok")
         ELSE disk' = disk /\ Return(t, "ENOENT")
      /\ UNCHANGED table

(* Files and directories are made by other calls.                          *)
Create(n, what) ==
  /\ disk[n] = "none"
  /\ disk' = [disk EXCEPT ![n] = what]
  /\ UNCHANGED <<table, call>>

Init ==
  /\ disk \in [Nodes -> {"none", "file", "dir"}]
  /\ links = [p \in Paths |-> None]
  /\ ref_counts = [p \in Paths |-> 0]
  /\ call = [t \in Threads |-> Idle]

Step(t) ==
  \/ \E old, new \in Named : Link(t, old, new)
  \/ LinkOld(t) \/ LinkNew(t) \/ LinkCheck(t) \/ LinkInsert(t)
  \/ \E p \in Named : Unlink(t, p)
  \/ UnlinkPath(t) \/ UnlinkStat(t) \/ UnlinkRemove(t) \/ UnlinkDir(t)

Next ==
  \/ \E t \in Threads : Step(t)
  \/ \E n \in Nodes, what \in {"file", "dir"} : Create(n, what)

Spec == Init /\ [][Next]_vars

-----------------------------------------------------------------------------
(* Every variable keeps its type.                                          *)
TypeOK ==
  /\ disk \in [Nodes -> {"none", "file", "dir"}]
  /\ links \in [Paths -> Paths \cup {None}]
  /\ ref_counts \in [Paths -> 0..Cardinality(Paths)]
  /\ call \in [Threads -> [pc : PCs, old : Paths \cup {None}, new : Paths \cup {None},
                           src : Paths \cup {None}, dst : Paths \cup {None},
                           result : Results]]
  /\ \A t \in Threads :
       /\ call[t].pc \in {"new", "check", "insert"} => call[t].dst \in Paths
       /\ call[t].pc \in {"check", "insert", "stat", "remove", "rmdir"} => call[t].src \in Paths

(* The count of a path is the number of links to it, so the branch of      *)
(* decrease_ref_count that logs "link exists but ref count is zero" is     *)
(* never taken, however links are made, replaced and removed.              *)
CountsLinks ==
  \A p \in Paths : ref_counts[p] = Cardinality({s \in Paths : links[s] = p})
=============================================================================
