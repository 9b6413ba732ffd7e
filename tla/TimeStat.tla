------------------------------ MODULE TimeStat -----------------------------
(***************************************************************************)
(* The times that a task reports (core/src/time.rs, called from            *)
(* handle_syscall in src/syscall.rs through core/src/task.rs).  No timer   *)
(* is ever set, so timer_type stays NONE and the timers are left out.      *)
(***************************************************************************)
EXTENDS Integers

CONSTANT MaxTime     \* bound on the clock

VARIABLES now,       \* monotonic_time_nanos
          mode,      \* where the task runs
          utime_ns, stime_ns, user_timestamp, kernel_timestamp,
          born,      \* when the task first ran
          user_ns,   \* time it really spent in user mode, up to its last call
          kernel_ns  \* time it really spent in finished calls

stat == <<utime_ns, stime_ns, user_timestamp, kernel_timestamp>>
real == <<user_ns, kernel_ns>>
timeVars == <<now, mode, stat, born, real>>

(* A new task enters user mode without a call of the statistics.           *)
TimeInit ==
  /\ now \in 0..MaxTime /\ born = now /\ mode = "user"
  /\ utime_ns = 0 /\ stime_ns = 0 /\ user_timestamp = 0 /\ kernel_timestamp = 0
  /\ user_ns = 0 /\ kernel_ns = 0

Tick == now < MaxTime /\ now' = now + 1 /\ UNCHANGED <<mode, stat, born, real>>

(* The time at which the current stay in user mode began.                  *)
UserSince == born + user_ns + kernel_ns

switch_into_kernel_mode ==
  /\ mode = "user" /\ mode' = "kernel"
  /\ utime_ns' = utime_ns + (now - kernel_timestamp)
  /\ kernel_timestamp' = now
  /\ user_ns' = user_ns + (now - UserSince)
  /\ UNCHANGED <<now, stime_ns, user_timestamp, born, kernel_ns>>

(* Variant: the time since user mode was last entered counts too.          *)
switch_into_user_mode_from_user ==
  /\ mode = "kernel" /\ mode' = "user"
  /\ stime_ns' = stime_ns + (now - user_timestamp)
  /\ user_timestamp' = now
  /\ kernel_ns' = now - born - user_ns
  /\ UNCHANGED <<now, utime_ns, kernel_timestamp, born, user_ns>>

switch_into_user_mode ==
  /\ mode = "kernel" /\ mode' = "user"
  /\ stime_ns' = stime_ns + (now - kernel_timestamp)
  /\ user_timestamp' = now
  /\ kernel_ns' = now - born - user_ns
  /\ UNCHANGED <<now, utime_ns, kernel_timestamp, born, user_ns>>

TimeNext == Tick \/ switch_into_kernel_mode \/ switch_into_user_mode
TimeSpec == TimeInit /\ [][TimeNext]_timeVars

-----------------------------------------------------------------------------
(* Every variable keeps its type; no difference of times is negative,      *)
(* which would overflow a usize.                                           *)
TimeTypeOK ==
  /\ now \in 0..MaxTime /\ born \in 0..now /\ mode \in {"user", "kernel"}
  /\ utime_ns \in Nat /\ stime_ns \in Nat
  /\ user_timestamp \in 0..now /\ kernel_timestamp \in 0..now
  /\ user_ns \in Nat /\ kernel_ns \in Nat

(* The system time is exactly the time spent in the calls that have        *)
(* returned, although both switches share kernel_timestamp.                *)
SystemTimeExact == stime_ns = kernel_ns
=============================================================================
