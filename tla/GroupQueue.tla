----------------------------- MODULE GroupQueue -----------------------------
(***************************************************************************)
(* The message engine of one group device (src/kmodule/group_dev.c): the   *)
(* visible list (message_list), the pending list, the delayed-work list    *)
(* (delay_list), the single-threaded delay workqueue, the FLUSHING bit and *)
(* the outstanding-message counter (messages_number).                      *)
(*                                                                         *)
(* Actors: writer threads (group_write + add_delayed_work), readers        *)
(* (group_read), the workqueue's worker thread (delayed_work_fun), kernel  *)
(* timers moving a delayed work onto the workqueue, one revoking thread    *)
(* (fflush_workqueue) and the delay setter (IOCTL_SET_SEND_DELAY).         *)
(*                                                                         *)
(* Every critical section under message_sem or pending_sem is one step:   *)
(* nothing inside it blocks or is visible to another thread.  wq_sem is   *)
(* held by the revoker across several steps and is modelled by fpc.       *)
(*                                                                         *)
(* Message ids are handed out when a message enters a list, so an id      *)
(* order is the order in which the messages were queued.  Work ids are    *)
(* the id of the message whose write queued the work.                     *)
(***************************************************************************)
EXTENDS Naturals, Sequences, SequencesExt, FiniteSets

CONSTANTS
  Writers,          \* writer threads (model values)
  MaxMsgs,          \* bound: messages accepted over the whole behaviour
  MaxStorage,       \* max_storage_size module parameter
  MaxRevokes,       \* bound: IOCTL_REVOKE_DELAYED_MESSAGES calls
  MaxDelaySets,     \* bound: IOCTL_SET_SEND_DELAY calls
  Delays,           \* delays in msecs a caller may set (0 = no delay)
  HZ,               \* CONFIG_HZ: jiffies per second
  WorkAllocMayFail, \* may kmalloc of a struct work fail?
  CanUnload,        \* may the module be unloaded (group_free)?
  NIL

ASSUME MaxMsgs \in Nat \ {0} /\ MaxStorage \in Nat \ {0}
ASSUME MaxRevokes \in Nat /\ MaxDelaySets \in Nat
ASSUME 0 \in Delays /\ Delays \subseteq Nat /\ HZ \in Nat \ {0}
ASSUME WorkAllocMayFail \in BOOLEAN /\ CanUnload \in BOOLEAN

Msgs == 1..MaxMsgs

VARIABLES
  visible,          \* message_list, index 1 = list_last_entry (read next)
  pending,          \* pending_list, index 1 = oldest
  messages_number,  \* dev->messages_number
  delay,            \* dev->delay in jiffies (untimed: only zero matters)
  flushing,         \* FLUSHING_BIT of dev->flags
  delayList,        \* delay_list, index 1 = tail (visited first)
  work,             \* state of each struct work
  readyQ,           \* works whose timer expired, in workqueue order
  nextId,           \* id of the next message to be queued
  wpc, wmsg,        \* writer program counters, message of the pending write
  kpc, kwork, kmsg, \* worker program counter, current work and message
  fpc, fpos, fnext, \* revoker program counter, list cursor and cached next
  revokes, delaySets,
  snap,             \* ghost: messages pending or moving when revoke began
  delayed,          \* ghost: messages that went through the pending list
  delivered,        \* ghost: messages returned by group_read, in order
  lost,             \* ghost: messages dequeued but not copied to the user
  memError,         \* ghost: a freed or unlinked work was dereferenced
  torn,             \* group_free: "no", "flush" (flushing), "done"
  freed,            \* ghost: messages kfree'd by group_free
  staleRead,        \* ghost: a log or print read a message a reader took
  wpos              \* wpos[t]: message_list_print's pos in writer t's walk

vars == <<visible, pending, messages_number, delay, flushing, delayList,
          work, readyQ, nextId, wpc, wmsg, kpc, kwork, kmsg, fpc, fpos,
          fnext, revokes, delaySets, snap, delayed, delivered, lost,
          memError, torn, freed, staleRead, wpos>>

WorkStates == {"none", "timer", "ready", "running", "freed"}

\* The element visited after w by list_for_each_prev_safe (w's prev).
NextOf(s, w) ==
  LET i == CHOOSE j \in DOMAIN s : s[j] = w
  IN  IF i < Len(s) THEN s[i + 1] ELSE NIL

\* The message delayed_work_fun has unlinked from pending_list and not
\* yet added to message_list (between its two critical sections).
InFlight == IF kpc = "publish" THEN <<kmsg>> ELSE <<>>

\* wq_sem is held by a writer between queue_delayed_work and list_add, and
\* by the revoker from RevokeLock until RevokeDrain.
WqSemFree == /\ fpc \notin {"visit", "wait", "drain"}
             /\ \A t \in Writers : wpc[t] # "link"

Init ==
  /\ visible = <<>>
  /\ pending = <<>>
  /\ messages_number = 0
  /\ delay = 0
  /\ flushing = FALSE
  /\ delayList = <<>>
  /\ work = [w \in Msgs |-> "none"]
  /\ readyQ = <<>>
  /\ nextId = 1
  /\ wpc = [t \in Writers |-> "idle"]
  /\ wmsg = [t \in Writers |-> NIL]
  /\ kpc = "idle" /\ kwork = NIL /\ kmsg = NIL
  /\ fpc = "idle" /\ fpos = NIL /\ fnext = NIL
  /\ revokes = 0 /\ delaySets = 0
  /\ snap = {} /\ delayed = {} /\ delivered = <<>> /\ lost = {}
  /\ memError = FALSE
  /\ torn = "no" /\ freed = {} /\ staleRead = FALSE
  /\ wpos = [t \in Writers |-> NIL]

-----------------------------------------------------------------------------
\* Mutant: the capacity test is off by one (> instead of >=).
WriteStoreOffByOne(t) ==
  /\ torn = "no"
  /\ wpc[t] = "idle"
  /\ nextId + Cardinality({u \in Writers : wpc[u] = "push"}) <= MaxMsgs
  /\ messages_number <= MaxStorage
  /\ messages_number' = messages_number + 1
  /\ IF delay = 0
       THEN /\ visible' = Append(visible, nextId)
            /\ wmsg' = [wmsg EXCEPT ![t] = nextId]
            /\ nextId' = nextId + 1
            /\ wpc' = [wpc EXCEPT ![t] = "print"]
       ELSE /\ wpc' = [wpc EXCEPT ![t] = "push"]
            /\ UNCHANGED <<visible, nextId, wmsg>>
  /\ UNCHANGED <<pending, delay, flushing, delayList, work, readyQ,
                 kpc, kwork, kmsg, fpc, fpos, fnext, revokes, delaySets,
                 snap, delayed, delivered, lost, memError>>
  /\ UNCHANGED <<torn, freed, staleRead, wpos>>

(* group_write: the message_sem critical section.  A write to a full group *)
(* returns 0 and changes nothing, so only accepted writes are steps.       *)
WriteStore(t) ==
  /\ torn = "no"
  /\ wpc[t] = "idle"
  /\ nextId + Cardinality({u \in Writers : wpc[u] = "push"}) <= MaxMsgs
  /\ messages_number < MaxStorage
  /\ messages_number' = messages_number + 1
  /\ IF delay = 0
       THEN /\ visible' = Append(visible, nextId)
            /\ wmsg' = [wmsg EXCEPT ![t] = nextId]
            /\ nextId' = nextId + 1
            /\ wpc' = [wpc EXCEPT ![t] = "print"]
       ELSE /\ wpc' = [wpc EXCEPT ![t] = "push"]
            /\ UNCHANGED <<visible, nextId, wmsg>>
  /\ UNCHANGED <<pending, delay, flushing, delayList, work, readyQ,
                 kpc, kwork, kmsg, fpc, fpos, fnext, revokes, delaySets,
                 snap, delayed, delivered, lost, memError>>
  /\ UNCHANGED <<torn, freed, staleRead, wpos>>

\* group_write, delay path: the message is added under pending_sem.
WritePush(t) ==
  /\ wpc[t] = "push"
  /\ pending' = Append(pending, nextId)
  /\ wmsg' = [wmsg EXCEPT ![t] = nextId]
  /\ delayed' = delayed \cup {nextId}
  /\ nextId' = nextId + 1
  /\ wpc' = [wpc EXCEPT ![t] = "queue"]
  /\ UNCHANGED <<visible, messages_number, delay, flushing, delayList, work,
                 readyQ, kpc, kwork, kmsg, fpc, fpos, fnext, revokes,
                 delaySets, snap, delivered, lost, memError>>
  /\ UNCHANGED <<torn, freed, staleRead, wpos>>

\* add_delayed_work: down(wq_sem), then queue_delayed_work arms the timer.
WriteQueueWork(t) ==
  /\ wpc[t] = "queue"
  /\ WqSemFree
  /\ work' = [work EXCEPT ![wmsg[t]] = "timer"]
  /\ wpc' = [wpc EXCEPT ![t] = "link"]
  /\ UNCHANGED <<visible, pending, messages_number, delay, flushing,
                 delayList, readyQ, nextId, wmsg, kpc, kwork, kmsg, fpc, fpos,
                 fnext, revokes, delaySets, snap, delayed, delivered, lost,
                 memError>>
  /\ UNCHANGED <<torn, freed, staleRead, wpos>>

\* list_add(&work->list, delay_list); up(wq_sem).  The timer is already
\* armed: the work may have run and been kfree'd before it is linked.
WriteLinkWork(t) ==
  /\ wpc[t] = "link"
  /\ delayList' = Append(delayList, wmsg[t])
  /\ memError' = (memError \/ work[wmsg[t]] = "freed")
  /\ wpc' = [wpc EXCEPT ![t] = "log"]
  /\ UNCHANGED <<visible, pending, messages_number, delay, flushing, work,
                 readyQ, nextId, wmsg, kpc, kwork, kmsg, fpc, fpos, fnext,
                 revokes, delaySets, snap, delayed, delivered, lost>>
  /\ UNCHANGED <<torn, freed, staleRead, wpos>>

\* add_delayed_work returns early: kmalloc of the work fails.  group_write
\* still returns the length and the message stays in the pending list with
\* no work.  (A NULL delay_wq returns at line 418 the same way, for every
\* delayed write; group_free then skips the flush, group_dev_manager.c:381.
\* That group-wide state is not modelled.)
WriteWorkAllocFails(t) ==
  /\ WorkAllocMayFail
  /\ wpc[t] = "queue"
  /\ wpc' = [wpc EXCEPT ![t] = "log"]
  /\ UNCHANGED <<visible, pending, messages_number, delay, flushing,
                 delayList, work, readyQ, nextId, wmsg, kpc, kwork, kmsg, fpc,
                 fpos, fnext, revokes, delaySets, snap, delayed, delivered,
                 lost, memError>>
  /\ UNCHANGED <<torn, freed, staleRead, wpos>>

\* The messages group_read has kfree'd, and group_free.
Freed == ToSet(delivered) \cup freed

(* message_list_print(dev->message_list), called by group_write after    *)
(* up(message_sem) on the no-delay path: list_for_each_prev walks the     *)
(* list with no lock held, from list_last_entry (the next message a read  *)
(* takes) towards the newest, and message_print reads each msg->data.     *)

\* list_empty, then pos = list->prev.
PrintStart(t) ==
  /\ wpc[t] = "print"
  /\ IF visible = <<>>
       THEN wpc' = [wpc EXCEPT ![t] = "log"] /\ UNCHANGED wpos
       ELSE wpc' = [wpc EXCEPT ![t] = "walk"] /\ wpos' = [wpos EXCEPT ![t] = visible[1]]
  /\ UNCHANGED <<visible, pending, messages_number, delay, flushing,
                 delayList, work, readyQ, nextId, wmsg, kpc, kwork, kmsg, fpc,
                 fpos, fnext, revokes, delaySets, snap, delayed, delivered,
                 lost, memError, torn, freed, staleRead>>

\* message_print reads msg->data_size and msg->data of a message that
\* group_read has list_del'd since (and kfree'd, unless its copy_to_user
\* failed): a read of released memory.
Released(m) == m \notin ToSet(visible)

\* message_print(pos's message), then pos = pos->prev.  The prev of a
\* released message is LIST_POISON2: the walk is taken to end there.
PrintVisit(t) ==
  /\ wpc[t] = "walk"
  /\ LET m == wpos[t]
         last == ~Released(m) /\ m = visible[Len(visible)]
     IN  /\ staleRead' = (staleRead \/ Released(m))
         /\ IF Released(m) \/ last
              THEN wpc' = [wpc EXCEPT ![t] = "log"] /\ wpos' = [wpos EXCEPT ![t] = NIL]
              ELSE wpos' = [wpos EXCEPT ![t] = NextOf(visible, m)] /\ UNCHANGED wpc
  /\ UNCHANGED <<visible, pending, messages_number, delay, flushing,
                 delayList, work, readyQ, nextId, wmsg, kpc, kwork, kmsg, fpc,
                 fpos, fnext, revokes, delaySets, snap, delayed, delivered,
                 lost, memError, torn, freed>>

\* group_write's last line, with every lock released: info() prints the
\* message's data, which a reader may have dequeued and kfree'd by now.
WriteLog(t) ==
  /\ wpc[t] = "log"
  /\ staleRead' = (staleRead \/ wmsg[t] \in Freed)
  /\ wpc' = [wpc EXCEPT ![t] = "idle"]
  /\ wmsg' = [wmsg EXCEPT ![t] = NIL]
  /\ UNCHANGED <<visible, pending, messages_number, delay, flushing,
                 delayList, work, readyQ, nextId, kpc, kwork, kmsg, fpc,
                 fpos, fnext, revokes, delaySets, snap, delayed, delivered,
                 lost, memError, torn, freed, wpos>>

\* The timer of a delayed work expires: the work joins the workqueue.
TimerFires(w) ==
  /\ work[w] = "timer"
  /\ work' = [work EXCEPT ![w] = "ready"]
  /\ readyQ' = Append(readyQ, w)
  /\ UNCHANGED <<visible, pending, messages_number, delay, flushing,
                 delayList, nextId, wpc, wmsg, kpc, kwork, kmsg, fpc, fpos,
                 fnext, revokes, delaySets, snap, delayed, delivered, lost,
                 memError>>
  /\ UNCHANGED <<torn, freed, staleRead, wpos>>

-----------------------------------------------------------------------------
(* delayed_work_fun, run by the single worker thread.                      *)

\* Mutant: the message is copied but not list_del'd from pending_list.
WorkerStartPeek ==
  /\ kpc = "idle"
  /\ readyQ # <<>>
  /\ kwork' = Head(readyQ)
  /\ readyQ' = Tail(readyQ)
  /\ work' = [work EXCEPT ![Head(readyQ)] = "running"]
  /\ IF pending = <<>>
       THEN /\ kpc' = "check"
            /\ UNCHANGED <<pending, kmsg>>
       ELSE /\ kmsg' = Head(pending)
            /\ pending' = pending
            /\ kpc' = "publish"
  /\ UNCHANGED <<visible, messages_number, delay, flushing, delayList,
                 nextId, wpc, wmsg, fpc, fpos, fnext, revokes, delaySets,
                 snap, delayed, delivered, lost, memError>>
  /\ UNCHANGED <<torn, freed, staleRead, wpos>>

\* Mutant: list_first_entry (newest) instead of list_last_entry.
WorkerStartNewest ==
  /\ kpc = "idle"
  /\ readyQ # <<>>
  /\ kwork' = Head(readyQ)
  /\ readyQ' = Tail(readyQ)
  /\ work' = [work EXCEPT ![Head(readyQ)] = "running"]
  /\ IF pending = <<>>
       THEN /\ kpc' = "check"
            /\ UNCHANGED <<pending, kmsg>>
       ELSE /\ kmsg' = Last(pending)
            /\ pending' = Front(pending)
            /\ kpc' = "publish"
  /\ UNCHANGED <<visible, messages_number, delay, flushing, delayList,
                 nextId, wpc, wmsg, fpc, fpos, fnext, revokes, delaySets,
                 snap, delayed, delivered, lost, memError>>
  /\ UNCHANGED <<torn, freed, staleRead, wpos>>

\* Take the next work; under pending_sem unlink the oldest pending message.
WorkerStart ==
  /\ kpc = "idle"
  /\ readyQ # <<>>
  /\ kwork' = Head(readyQ)
  /\ readyQ' = Tail(readyQ)
  /\ work' = [work EXCEPT ![Head(readyQ)] = "running"]
  /\ IF pending = <<>>
       THEN /\ kpc' = "check"
            /\ UNCHANGED <<pending, kmsg>>
       ELSE /\ kmsg' = Head(pending)
            /\ pending' = Tail(pending)
            /\ kpc' = "publish"
  /\ UNCHANGED <<visible, messages_number, delay, flushing, delayList,
                 nextId, wpc, wmsg, fpc, fpos, fnext, revokes, delaySets,
                 snap, delayed, delivered, lost, memError>>
  /\ UNCHANGED <<torn, freed, staleRead, wpos>>

\* Under message_sem, add the message at the head of message_list.
WorkerPublish ==
  /\ kpc = "publish"
  /\ visible' = Append(visible, kmsg)
  /\ kpc' = "log"
  /\ UNCHANGED <<pending, messages_number, delay, flushing, delayList, work,
                 readyQ, nextId, wpc, wmsg, kwork, kmsg, fpc, fpos, fnext,
                 revokes, delaySets, snap, delayed, delivered, lost,
                 memError>>
  /\ UNCHANGED <<torn, freed, staleRead, wpos>>

\* After up(message_sem): info() prints msg->data_size and msg->data of
\* the message just published, which a reader may already have kfree'd.
WorkerLog ==
  /\ kpc = "log"
  /\ staleRead' = (staleRead \/ kmsg \in Freed)
  /\ kmsg' = NIL
  /\ kpc' = "check"
  /\ UNCHANGED <<visible, pending, messages_number, delay, flushing,
                 delayList, work, readyQ, nextId, wpc, wmsg, kwork, fpc,
                 fpos, fnext, revokes, delaySets, snap, delayed, delivered,
                 lost, memError, torn, freed, wpos>>

\* exit: read FLUSHING_BIT; when set, only kfree the work.
WorkerCheckFlushing ==
  /\ kpc = "check"
  /\ IF flushing
       THEN /\ work' = [work EXCEPT ![kwork] = "freed"]
            /\ kwork' = NIL
            /\ kpc' = "idle"
       ELSE /\ kpc' = "unlink"
            /\ UNCHANGED <<work, kwork>>
  /\ UNCHANGED <<visible, pending, messages_number, delay, flushing,
                 delayList, readyQ, nextId, wpc, wmsg, kmsg, fpc, fpos,
                 fnext, revokes, delaySets, snap, delayed, delivered, lost,
                 memError>>
  /\ UNCHANGED <<torn, freed, staleRead, wpos>>

\* list_del(&dwork->list) without wq_sem, then kfree(dwork).  A work not
\* yet linked by add_delayed_work still has its INIT_LIST_HEAD self-links,
\* so only a work already list_del'd (poisoned) faults here.
Unlinked(w) == \E t \in Writers : wpc[t] = "link" /\ wmsg[t] = w

WorkerUnlink ==
  /\ kpc = "unlink"
  /\ memError' = (memError \/ (kwork \notin ToSet(delayList)
                                /\ ~Unlinked(kwork)))
  /\ delayList' = Remove(delayList, kwork)
  /\ work' = [work EXCEPT ![kwork] = "freed"]
  /\ kwork' = NIL
  /\ kpc' = "idle"
  /\ UNCHANGED <<visible, pending, messages_number, delay, flushing, readyQ,
                 nextId, wpc, wmsg, kmsg, fpc, fpos, fnext, revokes,
                 delaySets, snap, delayed, delivered, lost>>
  /\ UNCHANGED <<torn, freed, staleRead, wpos>>

-----------------------------------------------------------------------------
(* fflush_workqueue (IOCTL_REVOKE_DELAYED_MESSAGES).                       *)

\* IOCTL_REVOKE_DELAYED_MESSAGES enters fflush_workqueue.
RevokeStart ==
  /\ torn = "no"
  /\ fpc = "idle"
  /\ revokes < MaxRevokes
  /\ revokes' = revokes + 1
  /\ fpc' = "splice"
  /\ UNCHANGED <<visible, pending, messages_number, delay, flushing,
                 delayList, work, readyQ, nextId, wpc, wmsg, kpc, kwork,
                 kmsg, fpos, fnext, delaySets, snap, delayed, delivered,
                 lost, memError, torn, freed, staleRead, wpos>>

\* Mutant: revoke relies on the forced works alone and never splices.
RevokeSpliceDropped ==
  /\ fpc = "splice"
  /\ snap' = ToSet(pending \o InFlight)
  /\ fpc' = "lock"
  /\ UNCHANGED <<visible, pending, messages_number, delay, flushing,
                 delayList, work, readyQ, nextId, wpc, wmsg, kpc, kwork,
                 kmsg, fpos, fnext, revokes, delaySets, delayed, delivered,
                 lost, memError>>
  /\ UNCHANGED <<torn, freed, staleRead, wpos>>

\* _fflush_workqueue: under pending_sem and message_sem,
\* list_splice_tail_init(pending_list, message_list): the pending
\* messages land behind list_last_entry, so they are read first.
RevokeSplice ==
  /\ fpc = "splice"
  /\ snap' = ToSet(pending \o InFlight)
  /\ visible' = pending \o visible
  /\ pending' = <<>>
  /\ fpc' = "lock"
  /\ UNCHANGED <<messages_number, delay, flushing, delayList, work, readyQ,
                 nextId, wpc, wmsg, kpc, kwork, kmsg, fpos, fnext, revokes,
                 delaySets, delayed, delivered, lost, memError>>
  /\ UNCHANGED <<torn, freed, staleRead, wpos>>

\* down(wq_sem); set_flushing; start list_for_each_prev_safe.
RevokeLock ==
  /\ fpc = "lock"
  /\ WqSemFree
  /\ flushing' = TRUE
  /\ IF delayList = <<>>
       THEN /\ fpc' = "drain"
            /\ UNCHANGED <<fpos, fnext>>
       ELSE /\ fpos' = delayList[1]
            /\ fnext' = NextOf(delayList, delayList[1])
            /\ fpc' = "visit"
  /\ UNCHANGED <<visible, pending, messages_number, delay, delayList, work,
                 readyQ, nextId, wpc, wmsg, kpc, kwork, kmsg, revokes,
                 delaySets, snap, delayed, delivered, lost, memError>>
  /\ UNCHANGED <<torn, freed, staleRead, wpos>>

\* Loop body: list_del(&work->list); flush_delayed_work(&work->dwork),
\* which queues a work whose timer is pending and then waits for it.
RevokeVisit ==
  /\ fpc = "visit"
  /\ memError' = (memError \/ work[fpos] = "freed"
                           \/ fpos \notin ToSet(delayList))
  /\ delayList' = Remove(delayList, fpos)
  /\ IF work[fpos] = "timer"
       THEN /\ work' = [work EXCEPT ![fpos] = "ready"]
            /\ readyQ' = Append(readyQ, fpos)
       ELSE UNCHANGED <<work, readyQ>>
  /\ fpc' = "wait"
  /\ UNCHANGED <<visible, pending, messages_number, delay, flushing, nextId,
                 wpc, wmsg, kpc, kwork, kmsg, fpos, fnext, revokes,
                 delaySets, snap, delayed, delivered, lost>>
  /\ UNCHANGED <<torn, freed, staleRead, wpos>>

\* flush_work returns once the work has run; advance pos to the cached
\* next entry and read its prev pointer.  An entry that was freed or
\* unlinked meanwhile is a dangling pointer; the loop is taken to end.
RevokeNext ==
  /\ fpc = "wait"
  /\ work[fpos] = "freed"
  /\ IF fnext = NIL
       THEN /\ fpc' = "drain"
            /\ fpos' = NIL
            /\ UNCHANGED <<fnext, memError>>
       ELSE LET dangling == work[fnext] = "freed"
                            \/ fnext \notin ToSet(delayList)
            IN  /\ memError' = (memError \/ dangling)
                /\ fpos' = fnext
                /\ fnext' = IF dangling THEN NIL
                                        ELSE NextOf(delayList, fnext)
                /\ fpc' = "visit"
  /\ UNCHANGED <<visible, pending, messages_number, delay, flushing,
                 delayList, work, readyQ, nextId, wpc, wmsg, kpc, kwork,
                 kmsg, revokes, delaySets, snap, delayed, delivered, lost>>
  /\ UNCHANGED <<torn, freed, staleRead, wpos>>

\* drain_workqueue; clear_flushing; up(wq_sem).
RevokeDrain ==
  /\ fpc = "drain"
  /\ readyQ = <<>>
  /\ kpc = "idle"
  /\ flushing' = FALSE
  /\ fpc' = "idle"
  /\ fpos' = NIL /\ fnext' = NIL
  /\ UNCHANGED <<visible, pending, messages_number, delay, delayList, work,
                 readyQ, nextId, wpc, wmsg, kpc, kwork, kmsg, revokes,
                 delaySets, snap, delayed, delivered, lost, memError>>
  /\ UNCHANGED <<torn, freed, staleRead, wpos>>

-----------------------------------------------------------------------------
(* group_free at module unload (group_free_all), once no file is open, so  *)
(* no writer, reader or revoker is inside the device; timers and the       *)
(* worker may still run.  The barrier part has no sleeper to release.      *)

\* Mutant: the queues are freed without flushing the workqueue first.
GroupFreeStartNoFlush ==
  /\ CanUnload /\ torn = "no"
  /\ \A t \in Writers : wpc[t] = "idle"
  /\ fpc = "idle"
  /\ torn' = "flush"
  /\ UNCHANGED <<visible, pending, messages_number, delay, flushing,
                 delayList, work, readyQ, nextId, wpc, wmsg, kpc, kwork,
                 kmsg, fpc, fpos, fnext, revokes, delaySets, snap, delayed,
                 delivered, lost, memError, freed, staleRead, wpos>>

\* if (dev->delay_wq) fflush_workqueue(dev): the same flush as a revoke.
GroupFreeStart ==
  /\ CanUnload /\ torn = "no"
  /\ \A t \in Writers : wpc[t] = "idle"
  /\ fpc = "idle"
  /\ torn' = "flush"
  /\ fpc' = "splice"
  /\ UNCHANGED <<visible, pending, messages_number, delay, flushing,
                 delayList, work, readyQ, nextId, wpc, wmsg, kpc, kwork,
                 kmsg, fpos, fnext, revokes, delaySets, snap, delayed,
                 delivered, lost, memError, freed, staleRead, wpos>>

\* After the flush: destroy_workqueue, free delay_list, then the pending
\* list (its loop takes list_entry(dev->pending_list), the list head
\* inside the group_dev, not pos: any pending message corrupts memory
\* and is not freed), then every message of message_list.
GroupFreeLists ==
  /\ torn = "flush" /\ fpc = "idle"
  /\ memError' = (memError \/ pending # <<>>)
  /\ freed' = freed \cup ToSet(visible)
  /\ visible' = <<>>
  /\ torn' = "done"
  /\ UNCHANGED <<pending, messages_number, delay, flushing, delayList, work,
                 readyQ, nextId, wpc, wmsg, kpc, kwork, kmsg, fpc, fpos,
                 fnext, revokes, delaySets, snap, delayed, delivered, lost,
                 staleRead, wpos>>

-----------------------------------------------------------------------------
\* msecs_to_jiffies: the msecs rounded up to whole jiffies, so a non-zero
\* delay never becomes zero.
MsecsToJiffies(ms) == (ms * HZ + 999) \div 1000

(* IOCTL_SET_SEND_DELAY with a non-negative argument: _set_delay.         *)
SetDelay(d) ==
  /\ torn = "no"
  /\ delaySets < MaxDelaySets
  /\ delay' = MsecsToJiffies(d)
  /\ delaySets' = delaySets + 1
  /\ UNCHANGED <<visible, pending, messages_number, flushing, delayList,
                 work, readyQ, nextId, wpc, wmsg, kpc, kwork, kmsg, fpc,
                 fpos, fnext, revokes, snap, delayed, delivered, lost,
                 memError>>
  /\ UNCHANGED <<torn, freed, staleRead, wpos>>

(* group_read: under message_sem unlink list_last_entry and decrement     *)
(* messages_number; then copy_to_user, which may fail after the message   *)
(* is gone.  Reading an empty list returns 0 and changes nothing.         *)
Read ==
  /\ torn = "no"
  /\ visible # <<>>
  /\ visible' = Tail(visible)
  /\ messages_number' = messages_number - 1
  /\ \/ /\ delivered' = Append(delivered, Head(visible))
        /\ UNCHANGED lost
     \/ /\ lost' = lost \cup {Head(visible)}
        /\ UNCHANGED delivered
  /\ UNCHANGED <<pending, delay, flushing, delayList, work, readyQ, nextId,
                 wpc, wmsg, kpc, kwork, kmsg, fpc, fpos, fnext, revokes,
                 delaySets, snap, delayed, memError>>
  /\ UNCHANGED <<torn, freed, staleRead, wpos>>

-----------------------------------------------------------------------------
\* Every thread is back in its idle state and no work is outstanding.
Terminated ==
  /\ \A t \in Writers : wpc[t] = "idle"
  /\ kpc = "idle" /\ fpc = "idle" /\ readyQ = <<>>
  /\ \A w \in Msgs : work[w] \in {"none", "freed"}

Next ==
  \/ \E t \in Writers :
       WriteStore(t) \/ WritePush(t) \/ WriteQueueWork(t)
       \/ WriteLinkWork(t) \/ WriteWorkAllocFails(t) \/ PrintStart(t)
       \/ PrintVisit(t) \/ WriteLog(t)
  \/ \E w \in Msgs : TimerFires(w)
  \/ WorkerStart \/ WorkerPublish \/ WorkerLog \/ WorkerCheckFlushing
  \/ WorkerUnlink
  \/ RevokeStart \/ RevokeSplice \/ RevokeLock \/ RevokeVisit \/ RevokeNext
  \/ RevokeDrain
  \/ \E d \in Delays : SetDelay(d)
  \/ Read
  \/ GroupFreeStart \/ GroupFreeLists
  \/ (Terminated /\ UNCHANGED vars)

Spec == Init /\ [][Next]_vars

(* Kernel threads that are runnable run: the worker, timers (real time    *)
(* elapses), writers inside a syscall and the revoker.  wq_sem is a FIFO  *)
(* semaphore, so a writer or revoker waiting for it gets it (strong      *)
(* fairness).                                                              *)
Fairness ==
  /\ WF_vars(WorkerStart) /\ WF_vars(WorkerPublish) /\ WF_vars(WorkerLog)
  /\ WF_vars(WorkerCheckFlushing) /\ WF_vars(WorkerUnlink)
  /\ \A w \in Msgs : WF_vars(TimerFires(w))
  /\ \A t \in Writers :
       /\ WF_vars(WritePush(t)) /\ WF_vars(WriteLog(t))
       /\ WF_vars(PrintStart(t)) /\ WF_vars(PrintVisit(t))
       /\ SF_vars(WriteQueueWork(t) \/ WriteWorkAllocFails(t))
       /\ WF_vars(WriteLinkWork(t))
  /\ WF_vars(RevokeSplice) /\ SF_vars(RevokeLock) /\ WF_vars(RevokeVisit)
  /\ WF_vars(RevokeNext) /\ WF_vars(RevokeDrain) /\ WF_vars(GroupFreeLists)

FairSpec == Spec /\ Fairness

-----------------------------------------------------------------------------
(* Properties                                                              *)

TypeOK ==
  /\ visible \in Seq(Msgs) /\ pending \in Seq(Msgs)
  /\ messages_number \in 0..MaxStorage
  /\ delay \in {MsecsToJiffies(d) : d \in Delays} /\ flushing \in BOOLEAN
  /\ delayList \in Seq(Msgs) /\ readyQ \in Seq(Msgs)
  /\ work \in [Msgs -> WorkStates]
  /\ nextId \in 1..MaxMsgs + 1
  /\ wpc \in [Writers -> {"idle", "push", "queue", "link", "print", "walk",
                              "log"}]
  /\ wpos \in [Writers -> Msgs \cup {NIL}]
  /\ wmsg \in [Writers -> Msgs \cup {NIL}]
  /\ kpc \in {"idle", "publish", "log", "check", "unlink"}
  /\ kwork \in Msgs \cup {NIL} /\ kmsg \in Msgs \cup {NIL}
  /\ fpc \in {"idle", "splice", "lock", "visit", "wait", "drain"}
  /\ fpos \in Msgs \cup {NIL} /\ fnext \in Msgs \cup {NIL}
  /\ snap \subseteq Msgs /\ delayed \subseteq Msgs
  /\ delivered \in Seq(Msgs) /\ lost \subseteq Msgs
  /\ memError \in BOOLEAN /\ staleRead \in BOOLEAN
  /\ torn \in {"no", "flush", "done"} /\ freed \subseteq Msgs

\* Where a queued message can be: in a list, or held by the worker
\* between its two critical sections.
Stored == <<pending, visible, InFlight>>

(* Conservation: messages_number (incremented by group_write, decremented *)
(* only by group_read) equals the messages held by the pending list, the  *)
(* message list, the worker between its two critical sections and the    *)
(* writers between their two; every queued message is in exactly one of   *)
(* these places or was dequeued by a read, never in two; and the count    *)
(* never exceeds max_storage_size; all while the group exists (until     *)
(* group_free has freed its lists).                                       *)
Conservation ==
  LET held == FlattenSeq(Stored) \o delivered
  IN  torn # "done" =>
        /\ messages_number =
              Len(FlattenSeq(Stored))
              + Cardinality({t \in Writers : wpc[t] = "push"})
        /\ messages_number <= MaxStorage
        /\ \A m \in 1..nextId - 1 : (m \in lost) # (m \in ToSet(held))
        /\ Len(held) = Cardinality(ToSet(held))
        /\ ToSet(held) \cup lost \subseteq 1..nextId - 1

(* RevokeCompleted: when fflush_workqueue returns, every message that was *)
(* pending, or being moved by delayed_work_fun, when the revoke began is  *)
(* no longer pending nor in flight: it is readable (or already read).     *)
RevokeCompleted ==
  fpc = "idle" => snap \cap ToSet(pending \o InFlight) = {}

(* MemorySafe: neither fflush_workqueue's list walk nor delayed_work_fun *)
(* ever dereferences a struct work that was already kfree'd, nor unlinks  *)
(* one from delay_list that is no longer linked.                          *)
MemorySafe == ~memError

(* NoMessageUseAfterFree: what group_write and delayed_work_fun do after *)
(* releasing their last semaphore (the info() lines, and group_write's    *)
(* message_list_print walk of message_list) never reads a message that   *)
(* group_read (or group_free) has already taken off the list and kfree'd. *)
NoMessageUseAfterFree == ~staleRead

(* PendingEventuallyPublished: a message placed in the pending list by a  *)
(* delayed write eventually leaves it (its timer, or a revoke, publishes *)
(* it).                                                                   *)
PendingEventuallyPublished ==
  \A m \in Msgs : (m \in ToSet(pending)) ~> (m \notin ToSet(pending))

(* TeardownFreesAll: once group_free has run, every message the group     *)
(* ever accepted was returned by a read, lost by a failed copy_to_user,  *)
(* or kfree'd by group_free: no queued message outlives its group.       *)
TeardownFreesAll ==
  torn = "done" =>
    ToSet(delivered) \cup lost \cup freed = 1..(nextId - 1)

-----------------------------------------------------------------------------
(* Refinement.  The group promises the behaviour of MessageStore: the     *)
(* abstract visible store is message_list; the abstract pending store is  *)
(* pending_list with, ahead of it, the message delayed_work_fun holds     *)
(* between its two critical sections (it is the oldest one); the abstract *)
(* count is messages_number without the writers that have counted their  *)
(* message but not yet linked it (their write is not done).               *)
Pushing == {t \in Writers : wpc[t] = "push"}

Store == INSTANCE MessageStore
           WITH Ids <- Msgs, Capacity <- MaxStorage,
                visible <- visible, pending <- InFlight \o pending,
                count <- messages_number - Cardinality(Pushing)

(* StoreRefinement: every step of group_write, delayed_work_fun, the     *)
(* revoke and group_read is a step of MessageStore or leaves its state    *)
(* alone: messages become readable in the order they were accepted       *)
(* (delayed ones oldest first, behind what is already visible), a revoke *)
(* puts the pending messages behind the visible ones, and the count stays *)
(* below max_storage_size.                                                *)
StoreRefinement == Store!Spec

(* StoreRefinementFair: as StoreRefinement, and in addition a message in  *)
(* the pending list is eventually published by a timer's work.           *)
StoreRefinementFair == Store!FairSpec

=============================================================================
