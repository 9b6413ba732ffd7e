--------------------------- MODULE ProcessGroups ---------------------------
(***************************************************************************)
(* Process groups: setpgid and getpgid (api/src/imp/task/thread.rs) and    *)
(* the table of groups (core/src/task.rs), in which kill looks them up.    *)
(*                                                                         *)
(* A ProcessGroup is an object that its processes hold; the table refers   *)
(* to it weakly, and only add_thread_to_table enters groups.  setpgid      *)
(* looks at the target's group and at the table before it acts.  No call   *)
(* makes a session, so all processes are in one.                           *)
(***************************************************************************)
EXTENDS Integers

CONSTANTS Members, Root,  \* processes; the one there at first
          MaxGroups,      \* bound on the groups one process makes
          Nobody          \* no process, no group

ASSUME GroupsAssumption ==
  /\ Root \in Members /\ Nobody \notin Members /\ MaxGroups \in Nat \ {0}

Groups == [pgid : Members, gen : 1..MaxGroups]

VARIABLES ppid,   \* Nobody: not born yet, or gone
          alive,
          group,    \* Process::group
          made,     \* groups that each process has made
          moved,    \* how often each process was moved to another's group
          PROCESS_GROUP_TABLE,
          setpgid   \* the setpgid that each process is in

groupVars == <<ppid, alive, group, made, moved, PROCESS_GROUP_TABLE, setpgid>>
NoCall == [pc |-> "user", p |-> Nobody, g |-> Nobody, to |-> Nobody]

(* A weak reference leads to its group while something holds the group.    *)
GroupHeld(o) == (\E p \in alive : group[p] = o) \/ \E c \in alive : setpgid[c].to = o
get_process_group(g) ==
  IF PROCESS_GROUP_TABLE[g] # Nobody /\ GroupHeld(PROCESS_GROUP_TABLE[g])
  THEN PROCESS_GROUP_TABLE[g] ELSE Nobody

-----------------------------------------------------------------------------
(* Fork, and then add_thread_to_table for the child.                       *)
ForkGroup(p, child) ==
  /\ p \in alive /\ setpgid[p].pc = "user" /\ child \notin alive /\ ppid[child] = Nobody
  /\ child # Root
  /\ ppid' = [ppid EXCEPT ![child] = p]
  /\ alive' = alive \cup {child}
  /\ group' = [group EXCEPT ![child] = group[p]]
  /\ PROCESS_GROUP_TABLE' =
       [PROCESS_GROUP_TABLE EXCEPT ![group[p].pgid] =
          IF get_process_group(group[p].pgid) = Nobody THEN group[p] ELSE @]
  /\ UNCHANGED <<made, moved, setpgid>>

(* A process that was waited for leaves its group.                         *)
LeaveGroup(p) ==
  /\ p \in alive \ {Root} /\ setpgid[p].pc = "user"
  /\ alive' = alive \ {p}
  /\ UNCHANGED <<ppid, group, made, moved, PROCESS_GROUP_TABLE, setpgid>>

-----------------------------------------------------------------------------
(* sys_setpgid up to the choice between a new group and an existing one.   *)
SetpgidCheck(c, p, g) ==
  /\ c \in alive /\ setpgid[c].pc = "user" /\ p \in alive
  /\ g # group[p].pgid
  /\ p = c \/ ppid[p] = c
  /\ IF g = p THEN setpgid' = [setpgid EXCEPT ![c] = [NoCall EXCEPT !.pc = "create", !.p = p]]
     ELSE /\ get_process_group(g) # Nobody
          /\ setpgid' = [setpgid EXCEPT ![c] = [pc |-> "move", p |-> p, g |-> g,
                                          to |-> get_process_group(g)]]
  /\ UNCHANGED <<ppid, alive, group, made, moved, PROCESS_GROUP_TABLE>>

(* Variant: a group is made although the process leads one by now.         *)
CreateGroupAgain(c) ==
  LET p == setpgid[c].p
  IN  /\ setpgid[c].pc = "create" /\ made[p] < MaxGroups
      /\ made' = [made EXCEPT ![p] = @ + 1]
      /\ group' = [group EXCEPT ![p] = [pgid |-> p, gen |-> made[p] + 1]]
      /\ setpgid' = [setpgid EXCEPT ![c] = NoCall]
      /\ UNCHANGED <<ppid, alive, moved, PROCESS_GROUP_TABLE>>

(* create_group fails, with EPERM, for a process that leads its group.     *)
CreateGroup(c) ==
  LET p == setpgid[c].p
  IN  /\ setpgid[c].pc = "create" /\ (group[p].pgid = p \/ made[p] < MaxGroups)
      /\ IF group[p].pgid = p THEN UNCHANGED <<made, group>>
         ELSE /\ made' = [made EXCEPT ![p] = @ + 1]
              /\ group' = [group EXCEPT ![p] = [pgid |-> p, gen |-> made[p] + 1]]
      /\ setpgid' = [setpgid EXCEPT ![c] = NoCall]
      /\ UNCHANGED <<ppid, alive, moved, PROCESS_GROUP_TABLE>>

(* move_to_group fails, with EPERM, when the process is in the group.      *)
MoveToGroup(c) ==
  LET p == setpgid[c].p
  IN  /\ setpgid[c].pc = "move"
      /\ group' = [group EXCEPT ![p] = setpgid[c].to]
      /\ moved' = [moved EXCEPT ![p] = IF group[p] = setpgid[c].to \/ @ = MaxGroups
                                       THEN @ ELSE @ + 1]
      /\ setpgid' = [setpgid EXCEPT ![c] = NoCall]
      /\ UNCHANGED <<ppid, alive, made, PROCESS_GROUP_TABLE>>

(* The first process leads the first group.                                *)
GroupInit ==
  /\ ppid = [p \in Members |-> Nobody] /\ alive = {Root}
  /\ group = [p \in Members |-> [pgid |-> Root, gen |-> 1]]
  /\ made = [p \in Members |-> IF p = Root THEN 1 ELSE 0]
  /\ moved = [p \in Members |-> 0]
  /\ PROCESS_GROUP_TABLE = [g \in Members |-> IF g = Root THEN group[Root] ELSE Nobody]
  /\ setpgid = [p \in Members |-> NoCall]

GroupNext ==
  \/ \E p, q \in Members : ForkGroup(p, q)
  \/ \E p \in Members : LeaveGroup(p) \/ CreateGroup(p) \/ MoveToGroup(p)
  \/ \E c, p, g \in Members : SetpgidCheck(c, p, g)

GroupSpec == GroupInit /\ [][GroupNext]_groupVars

-----------------------------------------------------------------------------
(* Parent and child may both put the child into a group of its own, each   *)
(* after having seen that it is in none: only one group is made for it     *)
(* until it has been moved to another's group again.                       *)
GroupMadeOnce == \A p \in Members \ {Root} : moved[p] < MaxGroups => made[p] <= 1 + moved[p]
=============================================================================
