---------------------------- MODULE MessageStore ----------------------------
(***************************************************************************)
(* What one group promises its callers, independent of locks, timers and  *)
(* workqueues: two stores and a counter (spec.md, "Group" and the write,  *)
(* read and flush operations).                                            *)
(*                                                                         *)
(*   visible  the messages a read can return, oldest first;              *)
(*   pending  the messages accepted with a delay and not yet published,  *)
(*            oldest first;                                               *)
(*   count    outstandingCount: accepted and not yet read, <= Capacity.   *)
(*                                                                         *)
(* A write is accepted only below capacity and lands in one of the two    *)
(* stores; publication moves the oldest pending message behind the       *)
(* visible ones; a flush moves every pending message, in order, behind    *)
(* the visible ones; a read removes the oldest visible message.  Time is *)
(* abstracted away: a pending message may be published at any moment.    *)
(***************************************************************************)
EXTENDS Naturals, Sequences, SequencesExt

CONSTANTS
  Ids,        \* message identities
  Capacity    \* max_storage_size

VARIABLES visible, pending, count

vars == <<visible, pending, count>>

Stored == ToSet(visible) \cup ToSet(pending)

Init == visible = <<>> /\ pending = <<>> /\ count = 0

\* An accepted write with no delay: the message is readable at once.
WriteVisible(m) ==
  /\ count < Capacity /\ m \notin Stored
  /\ visible' = Append(visible, m)
  /\ count' = count + 1
  /\ UNCHANGED pending

\* An accepted write with a delay: the message waits for publication.
WritePending(m) ==
  /\ count < Capacity /\ m \notin Stored
  /\ pending' = Append(pending, m)
  /\ count' = count + 1
  /\ UNCHANGED visible

\* A delay elapses: the oldest pending message becomes readable.
Publish ==
  /\ pending # <<>>
  /\ visible' = Append(visible, Head(pending))
  /\ pending' = Tail(pending)
  /\ UNCHANGED count

\* Flush (revoke): all pending messages, in order, behind the visible ones.
Flush ==
  /\ visible' = visible \o pending
  /\ pending' = <<>>
  /\ UNCHANGED count

\* A read takes the oldest visible message (delivered or not, it is gone).
Read ==
  /\ visible # <<>>
  /\ visible' = Tail(visible)
  /\ count' = count - 1
  /\ UNCHANGED pending

Next ==
  \/ \E m \in Ids : WriteVisible(m) \/ WritePending(m)
  \/ Publish \/ Flush \/ Read

Spec == Init /\ [][Next]_vars

\* A pending message is not held back for ever.
FairSpec == Spec /\ WF_vars(Publish)

=============================================================================
