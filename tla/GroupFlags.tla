----------------------------- MODULE GroupFlags -----------------------------
(***************************************************************************)
(* The flags byte of a group device (struct group_dev, char flags) and    *)
(* the three operations that update it (src/kmodule/group_dev.c,          *)
(* src/kmodule/group_dev.h):                                              *)
(*                                                                         *)
(*   IOCTL_SLEEP_ON_BARRIER   set_barrier, then wait_event(!BARRIER_BIT);  *)
(*   IOCTL_AWAKE_BARRIER      is_barrier_up, clear_barrier, wake_up_all;  *)
(*   fflush_workqueue         set_flushing ... clear_flushing, under      *)
(*                            wq_sem (one revoker at a time).             *)
(*                                                                         *)
(* group_dev.h defines set_bit(var, n) as var |= 1UL << n and clear_bit   *)
(* as var &= ~(1UL << n): a plain load and a plain store, not the         *)
(* kernel's atomic bitops, and no lock is common to the three callers.    *)
(* Each update is therefore two steps, a load into the thread's register *)
(* and a store of the modified value.  The list walk of the flush, the    *)
(* queues and the messages are left out (GroupQueue models them); the    *)
(* memory order is sequentially consistent (Barrier models the store     *)
(* buffer).                                                               *)
(***************************************************************************)
EXTENDS Naturals, Bitwise

CONSTANTS
  Sleepers,     \* threads calling IOCTL_SLEEP_ON_BARRIER
  Awakers,      \* threads calling IOCTL_AWAKE_BARRIER
  MaxSleeps,    \* bound: sleep calls
  MaxAwakes,    \* bound: awake calls
  MaxRevokes    \* bound: IOCTL_REVOKE_DELAYED_MESSAGES calls

ASSUME {MaxSleeps, MaxAwakes, MaxRevokes} \subseteq Nat

BARRIER_BIT == 0
FLUSHING_BIT == 1
CharMask == 255

\* The macros of group_dev.h on a char.
SetBit(v, n) == v | (2 ^ n)
ClearBit(v, n) == v & (CharMask - 2 ^ n)
CheckBit(v, n) == (v \div (2 ^ n)) % 2

VARIABLES
  flags,        \* dev->flags
  spc, sreg,    \* sleeper pc and the flags value it loaded
  apc, areg,    \* awaker pc and the flags value it loaded
  fpc, freg,    \* revoker pc and the flags value it loaded
  sleeps, awakes, revokes,
  barrierWant,  \* ghost: the value the last barrier store meant to leave
  flushWant     \* ghost: the value the last flushing store meant to leave

vars == <<flags, spc, sreg, apc, areg, fpc, freg, sleeps, awakes, revokes,
          barrierWant, flushWant>>

Init ==
  /\ flags = 0
  /\ spc = [s \in Sleepers |-> "idle"] /\ sreg = [s \in Sleepers |-> 0]
  /\ apc = [a \in Awakers |-> "idle"] /\ areg = [a \in Awakers |-> 0]
  /\ fpc = "idle" /\ freg = 0
  /\ sleeps = 0 /\ awakes = 0 /\ revokes = 0
  /\ barrierWant = 0 /\ flushWant = 0

Counters == <<sleeps, awakes, revokes>>

-----------------------------------------------------------------------------
(* IOCTL_SLEEP_ON_BARRIER.                                                 *)

\* set_barrier: the load of dev->flags.
SleepLoad(s) ==
  /\ spc[s] = "idle" /\ sleeps < MaxSleeps
  /\ sleeps' = sleeps + 1
  /\ sreg' = [sreg EXCEPT ![s] = flags]
  /\ spc' = [spc EXCEPT ![s] = "store"]
  /\ UNCHANGED <<flags, apc, areg, fpc, freg, awakes, revokes>>
  /\ UNCHANGED <<barrierWant, flushWant>>

\* set_barrier: the store of the loaded value with BARRIER_BIT set.
SleepStore(s) ==
  /\ spc[s] = "store"
  /\ flags' = SetBit(sreg[s], BARRIER_BIT)
  /\ barrierWant' = 1
  /\ spc' = [spc EXCEPT ![s] = "check"]
  /\ UNCHANGED <<sreg, apc, areg, fpc, freg, flushWant>> /\ UNCHANGED Counters

\* wait_event(dev->wait_queue, !is_barrier_up(dev)): return when the bit
\* is clear, otherwise sleep in the wait queue until woken.
SleepCheck(s) ==
  /\ spc[s] = "check"
  /\ spc' = [spc EXCEPT ![s] = IF CheckBit(flags, BARRIER_BIT) = 0
                                 THEN "idle" ELSE "asleep"]
  /\ UNCHANGED <<flags, sreg, apc, areg, fpc, freg, barrierWant, flushWant>>
  /\ UNCHANGED Counters

-----------------------------------------------------------------------------
(* IOCTL_AWAKE_BARRIER.                                                    *)

\* if (is_barrier_up(dev)) clear_barrier(dev): the test.
AwakeTest(a) ==
  /\ apc[a] = "idle" /\ awakes < MaxAwakes
  /\ awakes' = awakes + 1
  /\ apc' = [apc EXCEPT ![a] = IF CheckBit(flags, BARRIER_BIT) = 1
                                 THEN "load" ELSE "wake"]
  /\ UNCHANGED <<flags, spc, sreg, areg, fpc, freg, sleeps, revokes>>
  /\ UNCHANGED <<barrierWant, flushWant>>

\* clear_barrier: the load ...
AwakeLoad(a) ==
  /\ apc[a] = "load"
  /\ areg' = [areg EXCEPT ![a] = flags]
  /\ apc' = [apc EXCEPT ![a] = "store"]
  /\ UNCHANGED <<flags, spc, sreg, fpc, freg, barrierWant, flushWant>>
  /\ UNCHANGED Counters

\* ... and the store with BARRIER_BIT cleared.
AwakeStore(a) ==
  /\ apc[a] = "store"
  /\ flags' = ClearBit(areg[a], BARRIER_BIT)
  /\ barrierWant' = 0
  /\ apc' = [apc EXCEPT ![a] = "wake"]
  /\ UNCHANGED <<spc, sreg, areg, fpc, freg, flushWant>> /\ UNCHANGED Counters

\* if (waitqueue_active) wake_up_all: every sleeper re-evaluates its test.
AwakeWake(a) ==
  /\ apc[a] = "wake"
  /\ spc' = [s \in Sleepers |-> IF spc[s] = "asleep" THEN "check" ELSE spc[s]]
  /\ apc' = [apc EXCEPT ![a] = "idle"]
  /\ UNCHANGED <<flags, sreg, areg, fpc, freg, barrierWant, flushWant>>
  /\ UNCHANGED Counters

-----------------------------------------------------------------------------
(* fflush_workqueue, after down(dev->wq_sem).                              *)

\* set_flushing: the load ...
FlushSetLoad ==
  /\ fpc = "idle" /\ revokes < MaxRevokes
  /\ revokes' = revokes + 1
  /\ freg' = flags
  /\ fpc' = "set"
  /\ UNCHANGED <<flags, spc, sreg, apc, areg, sleeps, awakes>>
  /\ UNCHANGED <<barrierWant, flushWant>>

\* ... and the store with FLUSHING_BIT set; the delay_list walk follows,
\* during which delayed_work_fun reads FLUSHING_BIT.
FlushSetStore ==
  /\ fpc = "set"
  /\ flags' = SetBit(freg, FLUSHING_BIT)
  /\ flushWant' = 1
  /\ fpc' = "walk"
  /\ UNCHANGED <<spc, sreg, apc, areg, freg, barrierWant>> /\ UNCHANGED Counters

\* drain_workqueue has returned; clear_flushing: the load ...
FlushClearLoad ==
  /\ fpc = "walk"
  /\ freg' = flags
  /\ fpc' = "clear"
  /\ UNCHANGED <<flags, spc, sreg, apc, areg, barrierWant, flushWant>>
  /\ UNCHANGED Counters

\* ... and the store with FLUSHING_BIT cleared; up(dev->wq_sem).
FlushClearStore ==
  /\ fpc = "clear"
  /\ flags' = ClearBit(freg, FLUSHING_BIT)
  /\ flushWant' = 0
  /\ fpc' = "idle"
  /\ UNCHANGED <<spc, sreg, apc, areg, freg, barrierWant>> /\ UNCHANGED Counters

-----------------------------------------------------------------------------
Next ==
  \/ \E s \in Sleepers : SleepLoad(s) \/ SleepStore(s) \/ SleepCheck(s)
  \/ \E a \in Awakers :
       AwakeTest(a) \/ AwakeLoad(a) \/ AwakeStore(a) \/ AwakeWake(a)
  \/ FlushSetLoad \/ FlushSetStore \/ FlushClearLoad \/ FlushClearStore

Spec == Init /\ [][Next]_vars

-----------------------------------------------------------------------------
(* NoLostBitUpdate: each bit of dev->flags holds the value its own last   *)
(* completed update wrote: BARRIER_BIT what the last set_barrier or       *)
(* clear_barrier meant, FLUSHING_BIT what the last set_flushing or        *)
(* clear_flushing meant.  A barrier update must not undo a flush update   *)
(* (delayed_work_fun then frees a work fflush_workqueue is walking, or    *)
(* never unlinks one again) and a flush update must not undo a barrier    *)
(* update (a sleeper passes a barrier nobody lowered).                    *)
NoLostBitUpdate ==
  /\ CheckBit(flags, BARRIER_BIT) = barrierWant
  /\ CheckBit(flags, FLUSHING_BIT) = flushWant

=============================================================================
