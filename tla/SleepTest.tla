------------------------------ MODULE SleepTest ------------------------------
(***************************************************************************)
(* The barrier test programs src/lib/mp_sleep.c and src/lib/sleep.c (the   *)
(* latter with one child), run against the barrier of Barrier.tla.        *)
(*                                                                         *)
(* The parent has opened group_dev1 and forked the children, which share   *)
(* its file.  Each child calls sleep_on_barrier, then close_group, and     *)
(* exits.  The parent sleeps (5 s in mp_sleep, 2 s in sleep.c), calls      *)
(* awake_barrier once, wait()s for every child, and closes the group.     *)
(* Nothing but the sleep orders the awake after the children's sleeps, so *)
(* the model lets the children run at any speed; the ghost late records    *)
(* an awake issued while some child was not yet asleep in wait_event.     *)
(* The library wrappers only reject a negative fd, which the parent's      *)
(* successful open_group excludes; they are the ioctls themselves here.    *)
(***************************************************************************)
EXTENDS Naturals, FiniteSets

CONSTANTS
  Children,        \* the forked processes (CHILDREN of them)
  Parent,          \* the process that calls awake_barrier
  StoreBuffering   \* as in Barrier: may the clear store be buffered?

ASSUME Children # {} /\ Parent \notin Children

VARIABLES
  barrierUp, pendingClear, spc, apc, sleeps, awakes,  \* Barrier's
  cpc,        \* cpc[c]: "bed" before the ioctl, "asleep" in it, "exited"
  ppc,        \* parent: "sleep", "awake" (ioctl issued, then waiting), "done"
  reaped,     \* children whose exit wait() has returned
  late        \* ghost: the awake came while a child was not yet asleep

barrierVars == <<barrierUp, pendingClear, spc, apc, sleeps, awakes>>
testVars == <<cpc, ppc, reaped, late>>
vars == <<barrierVars, testVars>>

\* One barrier of group_dev1: the children sleep on it, the parent awakes
\* it once; each child calls sleep_on_barrier once.
B == INSTANCE Barrier WITH Sleepers <- Children, Awakers <- {Parent},
                           MaxSleeps <- Cardinality(Children), MaxAwakes <- 1

Init ==
  /\ B!Init
  /\ cpc = [c \in Children |-> "bed"]
  /\ ppc = "sleep"
  /\ reaped = {}
  /\ late = FALSE

-----------------------------------------------------------------------------
\* child_fun: tid_info, then sleep_on_barrier(fd), whose ioctl starts with
\* set_barrier.
ChildSleep(c) ==
  /\ cpc[c] = "bed"
  /\ B!SleepRaise(c)
  /\ cpc' = [cpc EXCEPT ![c] = "asleep"]
  /\ UNCHANGED <<ppc, reaped, late>>

\* The child inside wait_event, enqueueing and rechecking the bit.
ChildWait(c) ==
  /\ B!SleepCheck(c)
  /\ UNCHANGED testVars

\* sleep_on_barrier returned: tid_info, close_group(fd), exit(0).
ChildExit(c) ==
  /\ cpc[c] = "asleep" /\ spc[c] = "idle"
  /\ cpc' = [cpc EXCEPT ![c] = "exited"]
  /\ UNCHANGED <<barrierVars, ppc, reaped, late>>

\* sleep(5) returns and awake_barrier(fd) issues IOCTL_AWAKE_BARRIER.
ParentAwake ==
  /\ ppc = "sleep"
  /\ B!AwakeClear(Parent)
  /\ late' = \E c \in Children : spc[c] # "waiting"
  /\ ppc' = "awake"
  /\ UNCHANGED <<cpc, reaped>>

\* The rest of the awake ioctl: waitqueue_active and wake_up_all.
ParentWake ==
  /\ B!AwakeWake(Parent)
  /\ UNCHANGED testVars

\* The parent's buffered clear_barrier store reaches memory.
ParentDrain ==
  /\ B!StoreDrains(Parent)
  /\ UNCHANGED testVars

\* One pass of the wait(&status) loop: some exited child is reaped.
ParentReap(c) ==
  /\ ppc = "awake" /\ apc[Parent] = "idle"
  /\ cpc[c] = "exited" /\ c \notin reaped
  /\ reaped' = reaped \cup {c}
  /\ UNCHANGED <<barrierVars, cpc, ppc, late>>

\* CHILDREN children reaped: close_group(fd) and return.
ParentClose ==
  /\ ppc = "awake" /\ apc[Parent] = "idle"
  /\ reaped = Children
  /\ ppc' = "done"
  /\ UNCHANGED <<barrierVars, cpc, reaped, late>>

Next ==
  \/ \E c \in Children : ChildSleep(c) \/ ChildWait(c) \/ ChildExit(c)
                         \/ ParentReap(c)
  \/ ParentAwake \/ ParentWake \/ ParentDrain \/ ParentClose

Spec == Init /\ [][Next]_vars

\* Every process runs its program and a store buffer drains: a step that
\* stays enabled is taken.
Fairness ==
  /\ \A c \in Children : /\ WF_vars(ChildSleep(c)) /\ WF_vars(ChildWait(c))
                         /\ WF_vars(ChildExit(c)) /\ WF_vars(ParentReap(c))
  /\ WF_vars(ParentAwake) /\ WF_vars(ParentWake) /\ WF_vars(ParentClose)
  /\ WF_vars(ParentDrain)

FairSpec == Spec /\ Fairness

-----------------------------------------------------------------------------
(* Properties                                                              *)

TypeOK ==
  /\ B!TypeOK
  /\ cpc \in [Children -> {"bed", "asleep", "exited"}]
  /\ ppc \in {"sleep", "awake", "done"}
  /\ reaped \subseteq Children
  /\ late \in BOOLEAN

(* TestTerminates: the test ends (every child has returned from           *)
(* sleep_on_barrier and exited, and the parent has reaped them all and    *)
(* closed the group) unless its one awake_barrier came before some child  *)
(* was asleep, the case the parent's sleep(5) is there to rule out.       *)
TestTerminates == <>(ppc = "done" \/ late)

=============================================================================
