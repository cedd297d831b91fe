------------------------------- MODULE Barrier -------------------------------
(***************************************************************************)
(* The barrier of one group device: group_unlocked_ioctl's                 *)
(* IOCTL_SLEEP_ON_BARRIER and IOCTL_AWAKE_BARRIER cases over BARRIER_BIT  *)
(* of dev->flags and dev->wait_queue (src/kmodule/group_dev.c).            *)
(*                                                                         *)
(* wait_event(wq, !is_barrier_up(dev)) is the kernel loop                  *)
(*   for (;;) { prepare_to_wait(wq); if (cond) break; schedule(); }        *)
(* prepare_to_wait enqueues the thread and issues a full barrier before    *)
(* the condition is read, so enqueue-and-check is one step (SleepCheck).  *)
(* A wake_up_all removes every queued thread, which then runs the loop     *)
(* again.  The awaker's clear_barrier is a plain store followed by the     *)
(* plain load of waitqueue_active with no fence between them; when         *)
(* StoreBuffering is TRUE the store may sit in the CPU's store buffer      *)
(* past that load (x86-TSO allows it), modelled by pendingClear.          *)
(***************************************************************************)
EXTENDS Naturals, FiniteSets

CONSTANTS
  Sleepers,         \* threads calling sleep_on_barrier
  Awakers,          \* threads calling awake_barrier
  MaxSleeps,        \* bound: IOCTL_SLEEP_ON_BARRIER calls
  MaxAwakes,        \* bound: IOCTL_AWAKE_BARRIER calls
  StoreBuffering    \* may a store be delayed past a later load?

ASSUME MaxSleeps \in Nat /\ MaxAwakes \in Nat
ASSUME StoreBuffering \in BOOLEAN

VARIABLES
  barrierUp,        \* BARRIER_BIT as seen in memory
  pendingClear,     \* awakers whose clear_barrier store is not yet visible
  spc,              \* sleeper program counters
  apc,              \* awaker program counters
  sleeps, awakes    \* calls made so far

vars == <<barrierUp, pendingClear, spc, apc, sleeps, awakes>>

\* Threads in dev->wait_queue.
Queued == {t \in Sleepers : spc[t] = "waiting"}

Init ==
  /\ barrierUp = FALSE
  /\ pendingClear = {}
  /\ spc = [t \in Sleepers |-> "idle"]
  /\ apc = [a \in Awakers |-> "idle"]
  /\ sleeps = 0 /\ awakes = 0

-----------------------------------------------------------------------------
\* IOCTL_SLEEP_ON_BARRIER: set_barrier(dev).
SleepRaise(t) ==
  /\ spc[t] = "idle"
  /\ sleeps < MaxSleeps
  /\ barrierUp' = TRUE
  /\ spc' = [spc EXCEPT ![t] = "check"]
  /\ sleeps' = sleeps + 1
  /\ UNCHANGED <<pendingClear, apc, awakes>>

\* wait_event: enqueue, read the bit; return 0 if it is clear, else sleep.
SleepCheck(t) ==
  /\ spc[t] = "check"
  /\ spc' = [spc EXCEPT ![t] = IF barrierUp THEN "waiting" ELSE "idle"]
  /\ UNCHANGED <<barrierUp, pendingClear, apc, sleeps, awakes>>

\* IOCTL_AWAKE_BARRIER: if (is_barrier_up) clear_barrier(dev).
AwakeClear(a) ==
  /\ apc[a] = "idle"
  /\ awakes < MaxAwakes
  /\ awakes' = awakes + 1
  /\ apc' = [apc EXCEPT ![a] = "wake"]
  /\ IF barrierUp
       THEN \/ /\ barrierUp' = FALSE
               /\ UNCHANGED pendingClear
            \/ /\ StoreBuffering
               /\ pendingClear' = pendingClear \cup {a}
               /\ UNCHANGED barrierUp
       ELSE UNCHANGED <<barrierUp, pendingClear>>
  /\ UNCHANGED <<spc, sleeps>>

\* The buffered clear store of a becomes visible if it is still buffered.
Drained(a) ==
  /\ barrierUp' = IF a \in pendingClear THEN FALSE ELSE barrierUp
  /\ pendingClear' = pendingClear \ {a}

\* Mutant: wake_up (one thread) instead of wake_up_all.
AwakeWakeOne(a) ==
  /\ apc[a] = "wake"
  /\ IF Queued = {}
       THEN UNCHANGED <<spc, barrierUp, pendingClear>>
       ELSE /\ spc' = [spc EXCEPT ![CHOOSE t \in Queued : TRUE] = "check"]
            /\ Drained(a)
  /\ apc' = [apc EXCEPT ![a] = "idle"]
  /\ UNCHANGED <<sleeps, awakes>>

\* if (waitqueue_active) wake_up_all.  waitqueue_active is a plain load
\* that may pass the buffered clear; wake_up_all takes the wait-queue
\* spinlock, a locked instruction that drains the store buffer before
\* any queued thread is made runnable to recheck the bit.
AwakeWake(a) ==
  /\ apc[a] = "wake"
  /\ IF Queued = {}
       THEN UNCHANGED <<spc, barrierUp, pendingClear>>
       ELSE /\ spc' = [t \in Sleepers |-> IF spc[t] = "waiting" THEN "check"
                                                             ELSE spc[t]]
            /\ Drained(a)
  /\ apc' = [apc EXCEPT ![a] = "idle"]
  /\ UNCHANGED <<sleeps, awakes>>

\* The buffered clear_barrier store of awaker a reaches memory.
StoreDrains(a) ==
  /\ a \in pendingClear
  /\ barrierUp' = FALSE
  /\ pendingClear' = pendingClear \ {a}
  /\ UNCHANGED <<spc, apc, sleeps, awakes>>

-----------------------------------------------------------------------------
\* No call is in progress and no store is buffered.
Quiescent ==
  /\ \A a \in Awakers : apc[a] = "idle"
  /\ pendingClear = {}
  /\ \A t \in Sleepers : spc[t] \in {"idle", "waiting"}

\* The threads' steps.
ThreadNext ==
  \/ \E t \in Sleepers : SleepRaise(t) \/ SleepCheck(t)
  \/ \E a \in Awakers : AwakeClear(a) \/ AwakeWake(a)

Next == ThreadNext \/ \E a \in Awakers : StoreDrains(a)

Spec == Init /\ [][Next]_vars

\* Sequentially consistent memory (StoreBuffering FALSE): no store is ever
\* buffered, so the threads' steps are all that happens.
SCSpec == Init /\ [][ThreadNext]_vars

-----------------------------------------------------------------------------
(* Properties                                                              *)

TypeOK ==
  /\ barrierUp \in BOOLEAN
  /\ pendingClear \subseteq Awakers
  /\ spc \in [Sleepers -> {"idle", "check", "waiting"}]
  /\ apc \in [Awakers -> {"idle", "wake"}]
  /\ sleeps \in 0..MaxSleeps /\ awakes \in 0..MaxAwakes

(* NoStrandedSleeper: once every awake_barrier call has returned and its  *)
(* store is visible, no thread is asleep in wait_event on a barrier that  *)
(* is down.  A thread stranded so sleeps until some later awake call.     *)
NoStrandedSleeper ==
  Quiescent /\ ~barrierUp => Queued = {}

=============================================================================
