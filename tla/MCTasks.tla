------------------------------ MODULE MCTasks ------------------------------
(***************************************************************************)
(* Three parts of the data of tasks: the signals of a process, the process *)
(* groups, or the time statistics.  They have no state in common; the      *)
(* variables of the other two rest.                                        *)
(***************************************************************************)
EXTENDS Signals, ProcessGroups, TimeStat

(* SIGUSR1 is waited for, and can be ignored or handled.                   *)
MCSets == {{}, {10}}
MCActs == [sig : {10}, act : {"ignore", "handler"}]

VARIABLE part

allVars == <<part, vars, groupVars, timeVars>>

TasksInit ==
  /\ Init /\ GroupInit /\ TimeInit
  /\ part \in {"signals", "groups", "times"} /\ (part # "times" => now = 0)

Signalling == part = "signals" /\ UNCHANGED <<part, groupVars, timeVars>>
Grouping == part = "groups" /\ UNCHANGED <<part, vars, timeVars>>
Timing == part = "times" /\ UNCHANGED <<part, vars, groupVars>>

TasksNext == (Signalling /\ Next) \/ (Grouping /\ GroupNext) \/ (Timing /\ TimeNext)

(* As in Signals!Spec.                                                     *)
TasksSpec ==
  /\ TasksInit /\ [][TasksNext]_allVars
  /\ \A t \in Threads :
       /\ WF_allVars(Signalling /\ Steps(t)) /\ WF_allVars(Signalling /\ Expire(t))
       /\ WF_allVars(Signalling /\ Trap(t))
=============================================================================
